--------------------------- MODULE OutboundWriter ---------------------------
(***************************************************************************)
(* Sending one line under the transmit deadline (core/OutboundWriter.h),   *)
(* byte by byte and against the board's clock                              *)
(* (platform/qnethernet/QNEthernetClock.h): millis() is a 32-bit counter   *)
(* that the clock widens to 64 bits, in which elapsed times are computed.  *)
(*                                                                         *)
(* The transport accepts any part of what it is offered, possibly nothing; *)
(* time passes between any two steps.  All lines have LineBytes bytes, the *)
(* last one being the newline.  A send that finds no bound transport, or   *)
(* one in progress, does not arise in the driver and is left out.          *)
(***************************************************************************)
EXTENDS Naturals, Sequences, FiniteSets

CONSTANTS
    LineBytes,      \* length of a line, newline included
    Deadline,       \* kTransmitDeadlineMs
    ClockModulus,   \* 2^32: where millis() wraps
    WideModulus,    \* 2^64: where the subtraction of two readings wraps
    StreakLimit,    \* kTelemetryDeadlineFailuresToTeardown
    MaxSends        \* bound on the sends of one session

ASSUME WriterAssumption ==
    /\ {LineBytes, Deadline, StreakLimit, MaxSends} \subseteq Nat \ {0}
    /\ ClockModulus \in Nat /\ WideModulus \in Nat
    /\ Deadline < ClockModulus /\ 2 * ClockModulus <= WideModulus

VARIABLES
    now,        \* the reading of millis()
    phase,      \* "ready", or inside sendValidLine: "check" or "write"
    class,      \* message_class of the send in progress
    start_ms,   \* sendValidLine's start_ms
    accepted,   \* sendValidLine's accepted
    streak,     \* consecutive_telemetry_failures_
    teardown,   \* the driver's teardown_pending_, as set by requestTeardown
    elapsed,    \* history: true time since the send began, up to Deadline
    dangling,   \* history: bytes on the connection after its last newline
    results     \* history: outcome of every send of the session

clockVars == <<now, elapsed>>
vars == <<clockVars, phase, class, start_ms, accepted, streak, teardown, dangling, results>>

Class == {"Critical", "Telemetry"}

WriterTypeOK ==
    /\ now \in 0..(ClockModulus - 1) /\ start_ms \in 0..(ClockModulus - 1)
    /\ phase \in {"ready", "check", "write"}
    /\ class \in Class
    /\ accepted \in 0..LineBytes
    /\ streak \in 0..StreakLimit
    /\ teardown \in BOOLEAN
    /\ elapsed \in 0..Deadline
    /\ dangling \in Nat
    /\ results \in Seq([class : Class, sent : BOOLEAN, clean : BOOLEAN, timely : BOOLEAN])
    /\ Len(results) <= MaxSends

\* The board may have been up for any time when the session begins.
Init ==
    /\ now \in 0..(ClockModulus - 1)
    /\ phase = "ready" /\ class = "Critical"
    /\ start_ms = now /\ accepted = 0
    /\ streak = 0
    /\ teardown = FALSE
    /\ elapsed = 0
    /\ dangling = 0
    /\ results = <<>>

-----------------------------------------------------------------------------
\* The 64-bit difference of two readings.
Elapsed64 == (WideModulus + now - start_ms) % WideModulus

deadlineExpired == Elapsed64 >= Deadline

\* A send is recorded with its outcome, whether its first byte was on a line
\* boundary, and whether the full deadline was allowed if it failed.
Record(sent) ==
    results' = Append(results, [class |-> class, sent |-> sent,
                                clean |-> dangling = accepted,
                                timely |-> sent \/ elapsed >= Deadline])

\* sendLine() of a line, allowed by sendActiveLine() while no teardown is pending.
Begin(cl) ==
    /\ phase = "ready" /\ ~teardown
    /\ Len(results) < MaxSends
    /\ phase' = "check"
    /\ class' = cl
    /\ start_ms' = now /\ elapsed' = 0
    /\ accepted' = 0
    /\ UNCHANGED <<now, streak, teardown, dangling, results>>

InTime ==
    /\ phase = "check" /\ ~deadlineExpired
    /\ phase' = "write"
    /\ UNCHANGED <<clockVars, class, start_ms, accepted, streak, teardown, dangling, results>>

\* Mutant: the streak is compared with > instead of >=.
handleDeadline_LateThreshold ==
    /\ phase = "check" /\ deadlineExpired
    /\ phase' = "ready"
    /\ streak' = IF class = "Telemetry" THEN streak + 1 ELSE streak
    /\ teardown' = (class = "Critical" \/ streak' > StreakLimit)
    /\ Record(FALSE)
    /\ UNCHANGED <<clockVars, class, start_ms, accepted, dangling>>

\* handleDeadline(): a critical line, or the last telemetry failure the streak
\* allows, costs the session; any other telemetry line is only dropped.
handleDeadline ==
    /\ phase = "check" /\ deadlineExpired
    /\ phase' = "ready"
    /\ IF class = "Critical"
       THEN teardown' = TRUE /\ UNCHANGED streak
       ELSE /\ streak' = IF streak < StreakLimit THEN streak + 1 ELSE streak
            /\ teardown' = (streak < StreakLimit /\ streak' >= StreakLimit)
    /\ Record(FALSE)
    /\ UNCHANGED <<clockVars, class, start_ms, accepted, dangling>>

\* Mutant: every write starts the deadline again.
WritePart_Restarts(n) ==
    /\ phase = "write" /\ accepted + n < LineBytes
    /\ accepted' = accepted + n
    /\ dangling' = dangling + n
    /\ start_ms' = now
    /\ phase' = "check"
    /\ UNCHANGED <<clockVars, class, streak, teardown, results>>

\* writeSome() takes n more bytes but not the whole line; progress() runs.
WritePart(n) ==
    /\ phase = "write" /\ accepted + n < LineBytes
    /\ accepted' = accepted + n
    /\ dangling' = dangling + n
    /\ phase' = "check"
    /\ UNCHANGED <<clockVars, class, start_ms, streak, teardown, results>>

\* writeSome() takes the rest: flush, and the line is Sent.
WriteRest ==
    /\ phase = "write"
    /\ accepted' = LineBytes
    /\ dangling' = 0
    /\ streak' = IF class = "Telemetry" THEN 0 ELSE streak
    /\ phase' = "ready"
    /\ Record(TRUE)
    /\ UNCHANGED <<clockVars, class, start_ms, teardown>>

\* Mutant: the failures of one session count in the next.
Rebind_KeepsStreak ==
    /\ phase = "ready" /\ (teardown \/ Len(results) = MaxSends)
    /\ teardown' = FALSE
    /\ dangling' = 0
    /\ results' = <<>>
    /\ UNCHANGED <<clockVars, phase, class, start_ms, accepted, streak>>

\* The session is torn down and another controller bound: clearTransport,
\* bindTransport.
Rebind ==
    /\ phase = "ready" /\ (teardown \/ Len(results) = MaxSends)
    /\ streak' = 0
    /\ teardown' = FALSE
    /\ dangling' = 0
    /\ results' = <<>>
    /\ UNCHANGED <<clockVars, phase, class, start_ms, accepted>>

\* Time passes.  A step of a send takes far less than the 2^32 ms in which the
\* clock comes round: by then the send has looked at the clock again.
Tick ==
    /\ phase = "ready" \/ elapsed < Deadline
    /\ now' = (now + 1) % ClockModulus
    /\ elapsed' = IF elapsed < Deadline THEN elapsed + 1 ELSE elapsed
    /\ UNCHANGED <<phase, class, start_ms, accepted, streak, teardown, dangling, results>>

WriterStep ==
    \/ \E cl \in Class : Begin(cl)
    \/ InTime
    \/ handleDeadline
    \/ \E n \in 0..LineBytes : WritePart(n)
    \/ WriteRest
    \/ Rebind

Next == WriterStep \/ Tick

\* The board executes and its clock runs; the network need not take a byte.
Spec == Init /\ [][Next]_vars /\ WF_vars(WriterStep) /\ WF_vars(Tick)

-----------------------------------------------------------------------------
\* The telemetry failures of the session that no telemetry success followed.
TrailingFailures ==
    {i \in 1..Len(results) :
        /\ results[i].class = "Telemetry"
        /\ \A j \in i..Len(results) : results[j].class = "Telemetry" => ~results[j].sent}

\* The last k telemetry outcomes of the session were all failures.
LastTelemetryFailed(k) == Cardinality(TrailingFailures) >= k

\* A session is given up for exactly two reasons: a critical line missed its
\* deadline, or the last StreakLimit telemetry lines of this session all did.
\* Successes in between, and the failures of earlier sessions, do not count.
TeardownExactlyWhenDue ==
    teardown <=> \/ \E i \in 1..Len(results) : results[i].class = "Critical" /\ ~results[i].sent
                 \/ LastTelemetryFailed(StreakLimit)

\* A controller that stops reading cannot hold the board in a send: every send
\* ends, also across a wrap of the clock.
SendEnds == phase # "ready" ~> phase = "ready"

\* Each line that is sent starts where the previous line ended: it is not glued
\* to the beginning of another one.
LinesSeparate == \A i \in 1..Len(results) : results[i].sent => results[i].clean

\* A line is given up only when the transmit deadline has really passed.
DeadlineNotEarly == \A i \in 1..Len(results) : results[i].timely

=============================================================================
