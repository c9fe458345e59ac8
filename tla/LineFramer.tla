----------------------------- MODULE LineFramer -----------------------------
(***************************************************************************)
(* Newline framing of the inbound byte stream (core/LineFramer.h) and the  *)
(* driver's read loop that feeds it (readAvailable in                      *)
(* core/SessionDriver.h).                                                  *)
(*                                                                         *)
(* The framer holds a complete active line for the service loop, and       *)
(* behind it one buffer that is either the line being accumulated or one   *)
(* more complete line.  While the latter waits, append() consumes nothing  *)
(* and says so in its return value.  Two specifications differ only in     *)
(* what the caller does with that value: Spec offers the rest of a chunk   *)
(* again, as the interface asks; DriverSpec is readAvailable().            *)
(***************************************************************************)
EXTENDS Naturals, Sequences, SequencesExt

CONSTANTS
    Letters,      \* payload bytes
    Newline,      \* the byte 0x0A
    MaxPayload,   \* kMaxPayloadBytes
    ChunkBytes,   \* size of readAvailable's buffer
    StreamBytes   \* bound on the bytes a run receives

ASSUME NewlineAssumption == Newline \notin Letters
ASSUME SizeAssumption == {MaxPayload, ChunkBytes, StreamBytes} \subseteq Nat

VARIABLES
    stream,        \* all bytes the controller will have sent, over all sessions
    taken,         \* how many of them were read and not put back
    started,       \* where the bytes of the current session start
    active_line,   \* active_line_, when active_ready
    active_ready, active_acquired,
    pending_line,  \* pending_line_: accumulator, or a complete line when pending_ready
    pending_ready, discard_until_newline,
    oversized_lines,  \* Counters::oversized_lines, of the current session
    acquired_lines    \* history: the lines the service loop acquired in this session

bufferVars == <<active_line, active_ready, active_acquired, pending_line, pending_ready,
                discard_until_newline, oversized_lines>>
vars == <<stream, taken, started, bufferVars, acquired_lines>>

Byte == Letters \cup {Newline}

FramerTypeOK ==
    /\ stream \in Seq(Byte) /\ Len(stream) <= StreamBytes
    /\ taken \in 0..Len(stream) /\ started \in 0..taken
    /\ active_line \in Seq(Letters) /\ Len(active_line) <= MaxPayload
    /\ pending_line \in Seq(Letters) /\ Len(pending_line) <= MaxPayload
    /\ {active_ready, active_acquired, pending_ready, discard_until_newline} \subseteq BOOLEAN
    /\ oversized_lines \in Nat
    /\ acquired_lines \in Seq(Seq(Letters))

Init ==
    /\ stream \in SeqOf(Byte, StreamBytes)
    /\ taken = 0 /\ started = 0
    /\ active_line = <<>> /\ pending_line = <<>>
    /\ active_ready = FALSE /\ active_acquired = FALSE
    /\ pending_ready = FALSE /\ discard_until_newline = FALSE
    /\ oversized_lines = 0
    /\ acquired_lines = <<>>

-----------------------------------------------------------------------------
\* The framer's buffers as one value, for append()'s loop over a chunk.
Buffers == [active |-> active_line, active_ready |-> active_ready,
            acquired |-> active_acquired, pending |-> pending_line,
            pending_ready |-> pending_ready, discard |-> discard_until_newline,
            oversized |-> oversized_lines, consumed |-> 0]

SetBuffers(f) ==
    /\ active_line' = f.active /\ active_ready' = f.active_ready
    /\ active_acquired' = f.acquired
    /\ pending_line' = f.pending /\ pending_ready' = f.pending_ready
    /\ discard_until_newline' = f.discard
    /\ oversized_lines' = f.oversized

promotePendingIfPossible(f) ==
    IF ~f.pending_ready \/ f.active_ready \/ f.acquired THEN f
    ELSE [f EXCEPT !.active = f.pending, !.active_ready = TRUE,
                   !.pending = <<>>, !.pending_ready = FALSE]

completeAccumulatedLine(f) == promotePendingIfPossible([f EXCEPT !.pending_ready = TRUE])

\* Mutant: one byte more than the limit is accepted.
AppendByte_OneTooMany(f, byte) ==
    IF f.pending_ready THEN f
    ELSE LET g == [f EXCEPT !.consumed = @ + 1] IN
         CASE f.discard -> [g EXCEPT !.discard = (byte # Newline)]
           [] ~f.discard /\ byte = Newline -> completeAccumulatedLine(g)
           [] ~f.discard /\ byte # Newline /\ Len(f.pending) > MaxPayload ->
                 [g EXCEPT !.oversized = @ + 1, !.pending = <<>>, !.discard = TRUE]
           [] OTHER -> [g EXCEPT !.pending = Append(@, byte)]

\* Mutant: the rest of an oversized line is taken for a line of its own.
AppendByte_NoDiscard(f, byte) ==
    IF f.pending_ready THEN f
    ELSE LET g == [f EXCEPT !.consumed = @ + 1] IN
         CASE byte = Newline -> completeAccumulatedLine(g)
           [] byte # Newline /\ Len(f.pending) = MaxPayload ->
                 [g EXCEPT !.oversized = @ + 1, !.pending = <<>>]
           [] OTHER -> [g EXCEPT !.pending = Append(@, byte)]

\* One byte of append()'s loop.
AppendByte(f, byte) ==
    IF f.pending_ready THEN f
    ELSE LET g == [f EXCEPT !.consumed = @ + 1] IN
         CASE f.discard -> [g EXCEPT !.discard = (byte # Newline)]
           [] ~f.discard /\ byte = Newline -> completeAccumulatedLine(g)
           [] ~f.discard /\ byte # Newline /\ Len(f.pending) = MaxPayload ->
                 [g EXCEPT !.oversized = @ + 1, !.pending = <<>>, !.discard = TRUE]
           [] OTHER -> [g EXCEPT !.pending = Append(@, byte)]

append(data) == FoldLeft(AppendByte, Buffers, data)

hasLine == active_ready /\ ~active_acquired

-----------------------------------------------------------------------------
\* The bytes one readSome() returns: at most a buffer full.
Chunk(n) == SubSeq(stream, taken + 1, taken + n)

ChunkSizes == {n \in 1..ChunkBytes : taken + n <= Len(stream)}

\* A caller that heeds append()'s return value.
Feed ==
    \E n \in ChunkSizes :
        LET f == append(Chunk(n)) IN
        /\ SetBuffers(f)
        /\ taken' = taken + f.consumed
        /\ UNCHANGED <<stream, started, acquired_lines>>

\* readAvailable(): reads while no line is ready, and ignores the return value.
readAvailable ==
    /\ ~hasLine
    /\ \E n \in ChunkSizes :
        /\ SetBuffers(append(Chunk(n)))
        /\ taken' = taken + n
        /\ UNCHANGED <<stream, started, acquired_lines>>

acquireLine ==
    /\ hasLine
    /\ active_acquired' = TRUE
    /\ acquired_lines' = Append(acquired_lines, active_line)
    /\ UNCHANGED <<stream, taken, started, active_line, active_ready, pending_line,
                   pending_ready, discard_until_newline, oversized_lines>>

releaseLine ==
    /\ active_acquired
    /\ SetBuffers(promotePendingIfPossible(
          [Buffers EXCEPT !.acquired = FALSE, !.active_ready = FALSE, !.active = <<>>]))
    /\ UNCHANGED <<stream, taken, started, acquired_lines>>

\* Mutant: the next controller's first line is discarded with the last one's.
closeSession_KeepsDiscard ==
    /\ taken > started
    /\ active_line' = <<>> /\ active_ready' = FALSE /\ active_acquired' = FALSE
    /\ pending_line' = <<>> /\ pending_ready' = FALSE
    /\ oversized_lines' = 0
    /\ acquired_lines' = <<>>
    /\ started' = taken
    /\ UNCHANGED <<stream, taken, discard_until_newline>>

\* The session ends: what follows in the stream is the next controller's.
closeSession ==
    /\ taken > started
    /\ active_line' = <<>> /\ active_ready' = FALSE /\ active_acquired' = FALSE
    /\ pending_line' = <<>> /\ pending_ready' = FALSE
    /\ discard_until_newline' = FALSE
    /\ oversized_lines' = 0
    /\ acquired_lines' = <<>>
    /\ started' = taken
    /\ UNCHANGED <<stream, taken>>

LoopStep == acquireLine \/ releaseLine \/ closeSession

Spec == Init /\ [][Feed \/ LoopStep]_vars
DriverSpec == Init /\ [][readAvailable \/ LoopStep]_vars

-----------------------------------------------------------------------------
(***************************************************************************)
(* The reference: split at newlines, drop the lines that are too long.     *)
(***************************************************************************)
Received == SubSeq(stream, started + 1, taken)

\* The payload between the newline before position i and the newline at i.
LineEndingAt(w, i) ==
    LET before == {j \in 1..(i - 1) : w[j] = Newline}
        first == IF before = {} THEN 1 ELSE Max(before) + 1
    IN  SubSeq(w, first, i - 1)

CompleteLines(w) ==
    LET ends == {i \in 1..Len(w) : w[i] = Newline}
        nth(k) == CHOOSE i \in ends : Cardinality({j \in ends : j <= i}) = k
    IN  [k \in 1..Cardinality(ends) |-> LineEndingAt(w, nth(k))]

AcceptableLines(w) ==
    FoldLeft(LAMBDA kept, l : IF Len(l) <= MaxPayload THEN Append(kept, l) ELSE kept,
             <<>>, CompleteLines(w))

\* Lines still in the framer, complete but not yet acquired.
Held == (IF hasLine THEN <<active_line>> ELSE <<>>)
        \o (IF pending_ready THEN <<pending_line>> ELSE <<>>)

\* Whatever the chunking and the pace of acquire and release, the lines handed
\* to the service loop, with those still held, are the received stream split at
\* its newlines: no line is lost, repeated, merged, cut, or carried over from
\* an earlier session, and an oversized line costs only itself.
SplitsLikeReference == acquired_lines \o Held = AcceptableLines(Received)

\* The oversized_lines counter counts each over-long line once, as soon as it
\* exceeds the limit, whether or not its newline has arrived.
OversizedCounted ==
    LET lines == CompleteLines(Append(Received, Newline))
    IN  oversized_lines = Cardinality({k \in DOMAIN lines : Len(lines[k]) > MaxPayload})

=============================================================================
