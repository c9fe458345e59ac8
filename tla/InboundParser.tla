---------------------------- MODULE InboundParser ----------------------------
(***************************************************************************)
(* What the board makes of one line from the controller                    *)
(* (core/InboundParser.h): UTF-8 validation, the message's structure, and  *)
(* the view of its arguments that the dispatcher and the handlers read.    *)
(*                                                                         *)
(* A line is a record: how far its JSON goes, the bytes of a string in it, *)
(* and one field for each member the board reads.  A member is Absent,     *)
(* WrongType, or a value.  An args object maps names to the kind of JSON   *)
(* value they have.                                                        *)
(***************************************************************************)
EXTENDS Integers, Sequences

CONSTANTS Absent, WrongType

\* A lead byte range, the length of its sequence, and the range of the byte
\* that follows it.
Lead(first, last, size, low, high) ==
    [first |-> first, last |-> last, size |-> size, low |-> low, high |-> high]

\* Mutant: the encodings of surrogates are let through.
Utf8Leads_Surrogates ==
    {Lead(\hC2, \hDF, 2, \h80, \hBF), Lead(\hE0, \hE0, 3, \hA0, \hBF),
     Lead(\hE1, \hEF, 3, \h80, \hBF), Lead(\hF0, \hF0, 4, \h90, \hBF),
     Lead(\hF1, \hF3, 4, \h80, \hBF), Lead(\hF4, \hF4, 4, \h80, \h8F)}

Utf8Leads ==
    {Lead(\hC2, \hDF, 2, \h80, \hBF), Lead(\hE0, \hE0, 3, \hA0, \hBF),
     Lead(\hE1, \hEC, 3, \h80, \hBF), Lead(\hED, \hED, 3, \h80, \h9F),
     Lead(\hEE, \hEF, 3, \h80, \hBF), Lead(\hF0, \hF0, 4, \h90, \hBF),
     Lead(\hF1, \hF3, 4, \h80, \hBF), Lead(\hF4, \hF4, 4, \h80, \h8F)}

Byte == 0..255

isContinuation(b) == b \in \h80..\hBF

\* The scan: from every position, an ASCII byte or one whole sequence.
isValidUtf8(data) ==
    LET n == Len(data)
        valid[i \in 1..(n + 1)] ==
            \/ i > n
            \/ data[i] <= \h7F /\ valid[i + 1]
            \/ \E lead \in Utf8Leads :
                  /\ data[i] \in lead.first..lead.last
                  /\ i + lead.size - 1 <= n
                  /\ data[i + 1] \in lead.low..lead.high
                  /\ \A k \in (i + 2)..(i + lead.size - 1) : isContinuation(data[k])
                  /\ valid[i + lead.size]
    IN  valid[1]

-----------------------------------------------------------------------------
\* getString: the member is there and is a string.
getString(v) == v \notin {Absent, WrongType}

\* What the parser reports: kind, the error it suggests for a command, whether
\* the message's controller_ts was read, and the counter it increments.
Outcome(kind, error, has_ts, counted) ==
    [kind |-> kind, error |-> error, has_ts |-> has_ts, counted |-> counted]

Malformed == Outcome("Malformed", "None", FALSE, {"invalid_json"})
Valid == Outcome("Valid", "None", TRUE, {})
structuralError(code, has_ts) == Outcome("StructurallyInvalid", code, has_ts, {})

\* The checks of a command, in order.  A controller_ts that is not a finite
\* number counts as WrongType.
parseCommand(doc) ==
    LET members == {doc.source, doc.target, doc.command, doc.args}
    IN  IF doc.seq # "ok" THEN Malformed
        ELSE IF doc.controller_ts = Absent THEN structuralError("MISSING_FIELD", FALSE)
        ELSE IF doc.controller_ts = WrongType THEN structuralError("INVALID_TYPE", FALSE)
        ELSE IF Absent \in members THEN structuralError("MISSING_FIELD", TRUE)
        ELSE IF WrongType \in members THEN structuralError("INVALID_TYPE", TRUE)
        ELSE Valid

parseEstop(doc) ==
    IF getString(doc.source) /\ getString(doc.target) THEN Valid ELSE Malformed

parseHeartbeat(doc) ==
    IF doc.seq # "ok" THEN Malformed
    ELSE IF Absent \in {doc.source, doc.target} THEN structuralError("MISSING_FIELD", TRUE)
    ELSE IF WrongType \in {doc.source, doc.target} THEN structuralError("INVALID_TYPE", TRUE)
    ELSE Valid

\* A line that is not UTF-8, not JSON, not an object, or of no type the board
\* knows is counted and dropped.
parse(doc) ==
    IF ~isValidUtf8(doc.text) \/ doc.shape # "object" THEN Malformed
    ELSE CASE doc.type = "command"   -> parseCommand(doc)
           [] doc.type = "estop"     -> parseEstop(doc)
           [] doc.type = "heartbeat" -> parseHeartbeat(doc)
           [] OTHER                  -> Malformed

-----------------------------------------------------------------------------
\* Kinds of JSON values of an argument: an integer within 32 bits or beyond
\* them, a fraction, a number too large for a double, and the rest.
JsonKind == {"int", "bigint", "fraction", "infinite", "bool", "string", "null"}

\* argsGetInt, argsGetFloat, argsGetBool, argsGetString succeed.
argsGet(kind, type) ==
    CASE type = "int"    -> kind = "int"
      [] type = "float"  -> kind \in {"int", "bigint", "fraction"}
      [] type = "bool"   -> kind = "bool"
      [] type = "string" -> kind = "string"

-----------------------------------------------------------------------------
(* Well-formed UTF-8 by what it encodes: a sequence of Unicode scalar      *)
(* values, each in its shortest form.                                      *)

\* The number that the bytes of one encoding carry.
CodePoint(b) ==
    CASE Len(b) = 1 -> b[1]
      [] Len(b) = 2 -> (b[1] % \h20) * \h40 + (b[2] % \h40)
      [] Len(b) = 3 -> (b[1] % \h10) * \h1000 + (b[2] % \h40) * \h40 + (b[3] % \h40)
      [] Len(b) = 4 -> (b[1] % \h08) * \h40000 + (b[2] % \h40) * \h1000
                       + (b[3] % \h40) * \h40 + (b[4] % \h40)

\* The lead byte announces n bytes.
Announces(lead, n) ==
    CASE n = 1 -> lead < \h80
      [] n = 2 -> lead \in \hC0..\hDF
      [] n = 3 -> lead \in \hE0..\hEF
      [] n = 4 -> lead \in \hF0..\hF7

\* The number takes exactly n bytes, and is not a surrogate.
Takes(c, n) ==
    CASE n = 1 -> c <= \h7F
      [] n = 2 -> c >= \h80 /\ c <= \h7FF
      [] n = 3 -> c >= \h800 /\ c <= \hFFFF /\ ~(c >= \hD800 /\ c <= \hDFFF)
      [] n = 4 -> c >= \h10000 /\ c <= \h10FFFF

EncodesOne(b) ==
    /\ Announces(b[1], Len(b))
    /\ \A k \in 2..Len(b) : isContinuation(b[k])
    /\ Takes(CodePoint(b), Len(b))

WellFormedUtf8(data) ==
    LET upto[n \in 0..Len(data)] ==
            \/ n = 0
            \/ \E k \in 1..4 : /\ k <= n
                               /\ upto[n - k]
                               /\ EncodesOne(SubSeq(data, n - k + 1, n))
    IN  upto[Len(data)]

=============================================================================
