-------------------------- MODULE BoundedJsonWriter --------------------------
(***************************************************************************)
(* Writing a JSON object into a fixed buffer (support/BoundedJsonWriter.h) *)
(* and the guarded writer that command handlers and telemetry providers    *)
(* are given (api/ObjectWriter.h).                                         *)
(*                                                                         *)
(* A writer is a record of the class's fields; its buffer is the sequence  *)
(* of tokens written so far, each with the bytes it occupies, so that what *)
(* a full buffer refuses is exact while characters are abstracted away.    *)
(* Every operation maps a writer to [ok, w]: what the method returns and   *)
(* the writer it leaves.                                                   *)
(***************************************************************************)
EXTENDS Naturals, SequencesExt

CONSTANTS
    MaxDepth,    \* kMaxJsonNestingDepth
    Null,        \* a null pointer passed for a name or a string
    Escapes(_)   \* extra bytes that escaping adds to a string

ASSUME DepthAssumption == MaxDepth \in Nat \ {0}

Token(text, bytes) == [text |-> text, bytes |-> bytes]

\* Structural characters take a byte each.
Mark(c) == Token(c, 1)
Opening == Mark("{")
Closing == Mark("}")
Comma == Mark(",")
Colon == Mark(":")
LineEnd == Mark("\n")

\* writeEscapedString: two quotes around the text, escaped where JSON asks for it.
Quoted(s) == Token(s, Len(s) + Escapes(s) + 2)

Bytes(tokens) == FoldLeft(LAMBDA n, t : n + t.bytes, 0, tokens)

\* The constructor: reset() of an empty buffer.
NewWriter(capacity) ==
    [capacity |-> capacity, out |-> <<>>, length |-> 0, depth |-> 0, tail_reserve |-> 0,
     failed |-> FALSE, closed |-> FALSE, first |-> [d \in 1..MaxDepth |-> TRUE]]

remaining(w) ==
    IF w.length + w.tail_reserve >= w.capacity
    THEN 0 ELSE w.capacity - w.tail_reserve - w.length

inObject(w) == w.depth > 0 /\ ~w.closed

\* failed_ is set and never cleared again.
Refuse(w) == [ok |-> FALSE, w |-> [w EXCEPT !.failed = TRUE]]

\* appendBytes of each token in turn, between capture() and restore(): all of
\* them or none.
Write(w, tokens) ==
    IF Bytes(tokens) > remaining(w)
    THEN Refuse(w)
    ELSE [ok |-> TRUE,
          w  |-> [w EXCEPT !.out = @ \o tokens, !.length = @ + Bytes(tokens)]]

-----------------------------------------------------------------------------
\* The object just opened has no member yet.
Opened(r) ==
    IF r.ok
    THEN [r EXCEPT !.w.depth = @ + 1, !.w.first[r.w.depth + 1] = TRUE]
    ELSE r

beginObject(w) ==
    IF w.closed \/ w.depth >= MaxDepth THEN Refuse(w) ELSE Opened(Write(w, <<Opening>>))

\* writeFieldPrefix: every member but the first of an object follows a comma.
FieldPrefix(w, name) ==
    (IF w.first[w.depth] THEN <<>> ELSE <<Comma>>) \o <<Quoted(name), Colon>>

\* A member was written to the innermost object.
Member(w, name, value) ==
    Write([w EXCEPT !.first[w.depth] = FALSE], FieldPrefix(w, name) \o <<value>>)

\* Mutant: a refused member leaves the comma flag cleared.
AddMember_FlagKept(w, name, value) == Member(w, name, value)

\* Write a member; a refusal restores the comma flag too.
AddMember(w, name, value) ==
    LET r == Member(w, name, value) IN IF r.ok THEN r ELSE Refuse(w)

beginObjectField(w, name) ==
    IF name = Null \/ ~inObject(w) \/ w.depth >= MaxDepth
    THEN Refuse(w)
    ELSE Opened(AddMember(w, name, Opening))

endObject(w) ==
    IF w.depth = 0
    THEN Refuse(w)
    ELSE LET r == Write(w, <<Closing>>)
         IN  IF r.ok THEN [r EXCEPT !.w.depth = @ - 1, !.w.closed = (w.depth = 1)] ELSE r

\* addInt, addUInt64, addDouble of a finite number, addBool: a literal token.
addLiteral(w, name, literal) ==
    IF name = Null \/ ~inObject(w) THEN Refuse(w) ELSE AddMember(w, name, literal)

\* addDouble of NaN or an infinity writes nothing.
NonFinite == Token("non-finite", 0)

addDouble(w, name, value) ==
    IF value = NonFinite THEN Refuse(w) ELSE addLiteral(w, name, value)

\* addString with a length.
addStringOfLength(w, name, value) ==
    IF value = Null THEN Refuse(w) ELSE addLiteral(w, name, Quoted(value))

\* addString of a terminated string refuses a null before it comes to failed_.
addString(w, name, value) ==
    IF value = Null THEN [ok |-> FALSE, w |-> w] ELSE addStringOfLength(w, name, value)

appendNewline(w) == Write(w, <<LineEnd>>)

reserveTailBytes(w, bytes) ==
    IF w.length + bytes > w.capacity
    THEN Refuse(w)
    ELSE [ok |-> TRUE, w |-> [w EXCEPT !.tail_reserve = bytes]]

releaseTailReserve(w) == [w EXCEPT !.tail_reserve = 0]

-----------------------------------------------------------------------------
(* api/ObjectWriter.h *)

\* Mutant: no byte is kept back for the closing brace.
ObjectWriter_NoReserve(capacity) == beginObject(NewWriter(capacity)).w

\* The constructor opens the object and keeps a byte for its closing brace.
ObjectWriter(capacity) == reserveTailBytes(beginObject(NewWriter(capacity)).w, 1).w

\* The library's own response field is refused, and so is everything after close().
allowed(w, name) == ~w.closed /\ name # Null /\ name # "board_proc_us"

\* A member that the application adds: a literal, a double, a terminated string
\* ("string") or a string with its length ("chars").
AppAdd(w, name, kind, value) ==
    IF ~allowed(w, name) THEN [ok |-> FALSE, w |-> w]
    ELSE CASE kind = "literal" -> addLiteral(w, name, value)
           [] kind = "double"  -> addDouble(w, name, value)
           [] kind = "string"  -> addString(w, name, value)
           [] kind = "chars"   -> addStringOfLength(w, name, value)

\* How the value of such a member is written.
ValueToken(kind, value) == IF kind \in {"string", "chars"} THEN Quoted(value) ELSE value

close(w) == IF w.closed THEN [ok |-> TRUE, w |-> w] ELSE endObject(releaseTailReserve(w))

-----------------------------------------------------------------------------
(* What a reader of the JSON expects: an object is its members, separated. *)

\* Members are sequences of tokens.
Separated(members) ==
    FoldLeft(LAMBDA text, m : IF text = <<>> THEN m ELSE text \o <<Comma>> \o m,
             <<>>, members)

Object(members) == <<Opening>> \o Separated(members) \o <<Closing>>

Pair(name, tokens) == <<Quoted(name), Colon>> \o tokens

=============================================================================
