------------------------ MODULE OutboundWriterProofs ------------------------
(***************************************************************************)
(* Proofs about the transmit deadline, for every line length, deadline,    *)
(* clock width and streak limit: the writer's counter of telemetry         *)
(* failures is the number of failures in a row, a session is given up for  *)
(* exactly the two reasons the rules name, and the 64-bit subtraction      *)
(* tells an expired deadline from one that is not, except across a wrap.   *)
(***************************************************************************)
EXTENDS OutboundWriter, FiniteSetTheorems, TLAPS

Result == [class : Class, sent : BOOLEAN, clean : BOOLEAN, timely : BOOLEAN]

\* A critical line of this session missed its deadline.
CriticalFailed == \E i \in 1..Len(results) : results[i].class = "Critical" /\ ~results[i].sent

\* The streak the writer counts is the streak the rules speak of, and a session
\* in which it reached the limit, or a critical line failed, is being torn down.
StreakCounts ==
    /\ streak = Cardinality(TrailingFailures)
    /\ teardown <=> CriticalFailed \/ streak = StreakLimit

\* A send is in progress only in a session that lives, and has room to be recorded.
SendInSession == phase # "ready" => ~teardown /\ Len(results) < MaxSends

\* During a send the reading is the one taken at its start plus the time that has
\* passed, wrapped.
ClockReading ==
    phase # "ready" =>
        \/ now = start_ms + elapsed
        \/ now = start_ms + elapsed - ClockModulus

\* The inductive invariant.
WInv ==
    /\ WriterTypeOK
    /\ SendInSession
    /\ StreakCounts
    /\ ClockReading

\* The deadline test is exact but for a wrap: a send is found expired when the
\* deadline has passed, never later, and before that only if millis() has come
\* round since the send began.
ExpiryExact ==
    phase # "ready" => (deadlineExpired <=> elapsed >= Deadline \/ now < start_ms)

-----------------------------------------------------------------------------
\* The clock's reading stays in range and wraps at its modulus.
LEMMA TickReading ==
    ASSUME NEW m \in Nat \ {0}, NEW n \in 0..(m - 1)
    PROVE  /\ (n + 1) % m \in 0..(m - 1)
           /\ (n + 1) % m = IF n + 1 = m THEN 0 ELSE n + 1
  OBVIOUS

Trailing(q) ==
    {i \in 1..Len(q) :
        /\ q[i].class = "Telemetry"
        /\ \A j \in i..Len(q) : q[j].class = "Telemetry" => ~q[j].sent}

LEMMA TrailingFinite ==
    ASSUME NEW q \in Seq(Result)
    PROVE  IsFiniteSet(Trailing(q)) /\ Cardinality(Trailing(q)) \in Nat
<1>1. Len(q) \in Nat
  OBVIOUS
<1>2. IsFiniteSet(1..Len(q))
  BY <1>1, FS_Interval
<1>3. Trailing(q) \in SUBSET (1..Len(q))
  BY DEF Trailing
<1>4. IsFiniteSet(Trailing(q))
  BY <1>2, <1>3, FS_Subset
<1> QED
  BY <1>4, FS_CardinalityType

\* One more outcome: a telemetry failure lengthens the streak by one, a
\* telemetry success ends it, a critical outcome leaves it alone.
LEMMA TrailingAppend ==
    ASSUME NEW q \in Seq(Result), NEW r \in Result
    PROVE  Cardinality(Trailing(Append(q, r))) =
              IF r.class # "Telemetry" THEN Cardinality(Trailing(q))
              ELSE IF r.sent THEN 0 ELSE Cardinality(Trailing(q)) + 1
<1> DEFINE p == Append(q, r)
<1>1. /\ Len(p) = Len(q) + 1 /\ Len(q) \in Nat
      /\ \A j \in 1..Len(q) : p[j] = q[j]
      /\ p[Len(q) + 1] = r
  OBVIOUS
<1>2. IsFiniteSet(Trailing(q)) /\ Cardinality(Trailing(q)) \in Nat
  BY TrailingFinite
<1> HIDE DEF p
<1>3. CASE r.class # "Telemetry"
  <2>1. Trailing(p) = Trailing(q)
    BY <1>1, <1>3 DEF Trailing
  <2> QED
    BY <1>3, <2>1 DEF p
<1>4. CASE r.class = "Telemetry" /\ r.sent
  <2>1. Trailing(p) = {}
    BY <1>1, <1>4 DEF Trailing
  <2> QED
    BY <1>4, <2>1, FS_EmptySet DEF p
<1>5. CASE r.class = "Telemetry" /\ ~r.sent
  <2>1. Trailing(p) = Trailing(q) \cup {Len(q) + 1}
    BY <1>1, <1>5 DEF Trailing
  <2>2. Len(q) + 1 \notin Trailing(q)
    BY <1>1 DEF Trailing
  <2> QED
    BY <1>2, <1>5, <2>1, <2>2, FS_AddElement DEF p
<1> QED
  BY <1>3, <1>4, <1>5

\* What a finished send does to the record of the session.
LEMMA RecordStep ==
    ASSUME WInv, NEW sent \in BOOLEAN, phase # "ready", Record(sent)
    PROVE  /\ results' \in Seq(Result) /\ Len(results') <= MaxSends
           /\ Cardinality(TrailingFailures)' =
                 IF class # "Telemetry" THEN Cardinality(TrailingFailures)
                 ELSE IF sent THEN 0 ELSE Cardinality(TrailingFailures) + 1
           /\ CriticalFailed' <=> CriticalFailed \/ (class = "Critical" /\ ~sent)
<1> DEFINE r == [class |-> class, sent |-> sent, clean |-> dangling = accepted,
                 timely |-> sent \/ elapsed >= Deadline]
<1>1. results' = Append(results, r) /\ results \in Seq(Result) /\ Len(results) < MaxSends
  BY DEF Record, WInv, WriterTypeOK, SendInSession, Result
<1>2. r \in Result /\ r.class = class /\ r.sent = sent
  BY DEF Result, WInv, WriterTypeOK
<1> HIDE DEF r
<1>3. MaxSends \in Nat
  BY WriterAssumption
<1>4. /\ results' \in Seq(Result) /\ Len(results') = Len(results) + 1 /\ Len(results) \in Nat
      /\ \A j \in 1..Len(results) : results'[j] = results[j]
      /\ results'[Len(results) + 1] = r
  BY <1>1, <1>2
<1>5. /\ Cardinality(TrailingFailures) = Cardinality(Trailing(results))
      /\ Cardinality(TrailingFailures)' = Cardinality(Trailing(results'))
  BY DEF TrailingFailures, Trailing
<1>6. CriticalFailed' <=> CriticalFailed \/ (class = "Critical" /\ ~sent)
  BY <1>2, <1>4 DEF CriticalFailed
<1> QED
  BY <1>1, <1>2, <1>3, <1>4, <1>5, <1>6, TrailingAppend

\* Steps that leave the streak and the record of the session alone.
LEMMA StreakSame ==
    ASSUME StreakCounts, UNCHANGED <<streak, teardown, results>>
    PROVE  StreakCounts'
  BY DEF StreakCounts, TrailingFailures, CriticalFailed

\* A session begins with no failures on record.
LEMMA EmptyRecord == Cardinality(Trailing(<<>>)) = 0
<1>1. Trailing(<<>>) = {}
  BY DEF Trailing
<1> QED
  BY <1>1, FS_EmptySet

LEMMA InitWInv == Init => WInv
<1> SUFFICES ASSUME Init PROVE WInv
  OBVIOUS
<1> USE DEF Init
<1>1. /\ {LineBytes, Deadline, StreakLimit, MaxSends} \subseteq Nat \ {0}
      /\ ClockModulus \in Nat
  BY WriterAssumption
<1>2. WriterTypeOK
  <2>1. results \in Seq(Result) /\ Len(results) = 0
    OBVIOUS
  <2>2. /\ 0 \in 0..LineBytes /\ 0 \in 0..StreakLimit /\ 0 \in 0..Deadline /\ 0 <= MaxSends
    BY <1>1
  <2> QED
    BY <2>1, <2>2 DEF WriterTypeOK, Class, Result
<1>3. StreakCounts
  <2>1. Cardinality(TrailingFailures) = 0
    BY EmptyRecord DEF TrailingFailures, Trailing
  <2> QED
    BY <1>1, <2>1 DEF StreakCounts, CriticalFailed
<1> QED
  BY <1>2, <1>3 DEF WInv, SendInSession, ClockReading

LEMMA StepWInv == WInv /\ [Next]_vars => WInv'
<1> SUFFICES ASSUME WInv, [Next]_vars PROVE WInv'
  OBVIOUS
<1> USE DEF WInv
<1>1. /\ LineBytes \in Nat \ {0} /\ Deadline \in Nat \ {0} /\ StreakLimit \in Nat \ {0}
      /\ MaxSends \in Nat \ {0} /\ ClockModulus \in Nat /\ Deadline < ClockModulus
  BY WriterAssumption
<1>2. WriterTypeOK
  OBVIOUS
<1>3. ASSUME NEW cl \in Class, Begin(cl) PROVE WInv'
  <2> USE <1>3 DEF Begin
  <2>1. WriterTypeOK'
    BY <1>1, <1>2 DEF WriterTypeOK
  <2>2. SendInSession' /\ ClockReading'
    BY <1>2 DEF SendInSession, ClockReading, WriterTypeOK
  <2> QED
    BY <2>1, <2>2, StreakSame
<1>4. CASE InTime
  <2> USE <1>4 DEF InTime, clockVars
  <2>1. WriterTypeOK' /\ SendInSession' /\ ClockReading'
    BY <1>2 DEF WriterTypeOK, SendInSession, ClockReading
  <2> QED
    BY <2>1, StreakSame
<1>5. CASE handleDeadline
  <2>1. /\ phase = "check" /\ phase' = "ready" /\ Record(FALSE)
        /\ UNCHANGED <<now, elapsed, class, start_ms, accepted, dangling>>
    BY <1>5 DEF handleDeadline, clockVars
  <2>2. ~teardown /\ ~CriticalFailed /\ streak # StreakLimit
        /\ streak = Cardinality(TrailingFailures) /\ streak \in 0..StreakLimit
    BY <1>2, <2>1 DEF SendInSession, StreakCounts, WriterTypeOK
  <2>3. \/ /\ class = "Critical" /\ teardown' = TRUE /\ streak' = streak
        \/ /\ class = "Telemetry" /\ streak' = streak + 1
           /\ teardown' <=> streak' >= StreakLimit
    <3>1. class \in {"Critical", "Telemetry"} /\ streak < StreakLimit
      BY <1>1, <1>2, <2>2 DEF WriterTypeOK, Class
    <3>2. CASE class = "Critical"
      BY <1>5, <3>2 DEF handleDeadline
    <3>3. CASE class = "Telemetry"
      <4>1. /\ streak' = streak + 1
            /\ teardown' = (streak < StreakLimit /\ streak' >= StreakLimit)
        BY <1>5, <3>1, <3>3 DEF handleDeadline
      <4>2. teardown' <=> streak' >= StreakLimit
        BY <3>1, <4>1, Zenon
      <4> QED
        BY <3>3, <4>1, <4>2
    <3> QED
      BY <3>1, <3>2, <3>3
  <2>4. streak' \in 0..StreakLimit /\ teardown' \in BOOLEAN
    <3>1. streak' \in 0..StreakLimit
      BY <1>1, <2>2, <2>3
    <3>2. \/ teardown' = TRUE
          \/ teardown' = (streak < StreakLimit /\ streak' >= StreakLimit)
      BY <1>5 DEF handleDeadline
    <3>3. teardown' \in BOOLEAN
      BY <3>2, Zenon
    <3> QED
      BY <3>1, <3>3
  <2>5. WriterTypeOK'
    BY <1>2, <2>1, <2>4, RecordStep DEF WriterTypeOK, Result
  <2>6. StreakCounts'
    <3>1. CASE class = "Critical"
      BY <2>1, <2>2, <2>3, <3>1, RecordStep DEF StreakCounts
    <3>2. CASE class = "Telemetry"
      <4>1. streak' = streak + 1 /\ (teardown' <=> streak' >= StreakLimit)
        BY <2>3, <3>2
      <4>2. streak' = Cardinality(TrailingFailures)' /\ ~CriticalFailed'
        BY <2>1, <2>2, <3>2, <4>1, RecordStep
      <4>3. streak' >= StreakLimit <=> streak' = StreakLimit
        BY <1>1, <2>4
      <4> QED
        BY <4>1, <4>2, <4>3 DEF StreakCounts
    <3> QED
      BY <2>3, <3>1, <3>2
  <2>7. SendInSession' /\ ClockReading'
    BY <2>1 DEF SendInSession, ClockReading
  <2> QED
    BY <2>5, <2>6, <2>7
<1>6. ASSUME NEW n \in 0..LineBytes, WritePart(n) PROVE WInv'
  <2> USE <1>6 DEF WritePart, clockVars
  <2>1. WriterTypeOK' /\ SendInSession' /\ ClockReading'
    BY <1>1, <1>2 DEF WriterTypeOK, SendInSession, ClockReading
  <2> QED
    BY <2>1, StreakSame
<1>7. CASE WriteRest
  <2>1. /\ phase = "write" /\ phase' = "ready" /\ Record(TRUE)
        /\ accepted' = LineBytes /\ dangling' = 0
        /\ streak' = IF class = "Telemetry" THEN 0 ELSE streak
        /\ UNCHANGED <<now, elapsed, class, start_ms, teardown>>
    BY <1>7 DEF WriteRest, clockVars
  <2>2. ~teardown /\ ~CriticalFailed /\ streak # StreakLimit
        /\ streak = Cardinality(TrailingFailures)
    BY <2>1 DEF SendInSession, StreakCounts
  <2>3. WriterTypeOK'
    <3>1. accepted' \in 0..LineBytes /\ dangling' \in Nat /\ streak' \in 0..StreakLimit
      BY <1>1, <1>2, <2>1 DEF WriterTypeOK
    <3>2. results' \in Seq(Result) /\ Len(results') <= MaxSends
      BY <2>1, RecordStep
    <3> QED
      BY <1>2, <2>1, <3>1, <3>2 DEF WriterTypeOK, Result
  <2>4. StreakCounts'
    BY <1>1, <2>1, <2>2, RecordStep DEF StreakCounts
  <2>5. SendInSession' /\ ClockReading'
    BY <2>1 DEF SendInSession, ClockReading
  <2> QED
    BY <2>3, <2>4, <2>5
<1>8. CASE Rebind
  <2> USE <1>8 DEF Rebind, clockVars
  <2>1. WriterTypeOK'
    <3>1. results' \in Seq(Result) /\ Len(results') = 0 /\ 0 <= MaxSends
      BY <1>1
    <3>2. streak' \in 0..StreakLimit
      BY <1>1
    <3> QED
      BY <1>2, <3>1, <3>2 DEF WriterTypeOK, Result
  <2>2. Cardinality(TrailingFailures)' = 0 /\ ~CriticalFailed'
    <3>1. Cardinality(TrailingFailures)' = Cardinality(Trailing(results'))
      BY DEF TrailingFailures, Trailing
    <3> QED
      BY <3>1, EmptyRecord DEF CriticalFailed
  <2>3. StreakCounts'
    BY <1>1, <2>2 DEF StreakCounts
  <2>4. SendInSession' /\ ClockReading'
    BY DEF SendInSession, ClockReading
  <2> QED
    BY <2>1, <2>3, <2>4
<1>9. CASE Tick
  <2> USE <1>9 DEF Tick
  <2>1. /\ now' \in 0..(ClockModulus - 1)
        /\ now' = IF now + 1 = ClockModulus THEN 0 ELSE now + 1
    <3>1. ClockModulus \in Nat \ {0} /\ now \in 0..(ClockModulus - 1)
      BY <1>1, <1>2 DEF WriterTypeOK
    <3> QED
      BY <3>1, TickReading
  <2>2. WriterTypeOK'
    BY <1>1, <1>2, <2>1 DEF WriterTypeOK
  <2>3. ClockReading'
    BY <1>1, <1>2, <2>1 DEF ClockReading, WriterTypeOK
  <2>4. SendInSession'
    BY DEF SendInSession
  <2> QED
    BY <2>2, <2>3, <2>4, StreakSame
<1>10. CASE UNCHANGED vars
  <2> USE <1>10 DEF vars, clockVars
  <2>1. WriterTypeOK' /\ SendInSession' /\ ClockReading'
    BY <1>2 DEF WriterTypeOK, SendInSession, ClockReading
  <2> QED
    BY <2>1, StreakSame
<1> QED
  BY <1>3, <1>4, <1>5, <1>6, <1>7, <1>8, <1>9, <1>10 DEF Next, WriterStep

LEMMA WriterWInv == Spec => []WInv
  BY InitWInv, StepWInv, PTL DEF Spec

-----------------------------------------------------------------------------
\* The writer's variables keep their types: the streak never passes its limit
\* and the accepted bytes never exceed the line.
THEOREM WriterTypeCorrect == Spec => []WriterTypeOK
<1>1. WInv => WriterTypeOK
  BY DEF WInv
<1> QED
  BY <1>1, WriterWInv, PTL

\* A session is given up exactly when a critical line missed its deadline or the
\* last StreakLimit telemetry lines of this very session did.
THEOREM TeardownIsDue == Spec => []TeardownExactlyWhenDue
<1>1. WInv => TeardownExactlyWhenDue
  BY WriterAssumption
  DEF WInv, StreakCounts, WriterTypeOK, CriticalFailed, TeardownExactlyWhenDue,
      LastTelemetryFailed
<1> QED
  BY <1>1, WriterWInv, PTL

\* deadlineExpired's unsigned subtraction is right for every deadline and every
\* pair of clock widths: never late, and early only across a wrap of millis().
THEOREM DeadlineExact == Spec => []ExpiryExact
<1>1. ASSUME WInv PROVE ExpiryExact
  <2> SUFFICES ASSUME phase # "ready"
               PROVE  deadlineExpired <=> elapsed >= Deadline \/ now < start_ms
    BY DEF ExpiryExact
  <2>1. /\ Deadline \in Nat \ {0} /\ ClockModulus \in Nat /\ WideModulus \in Nat
        /\ Deadline < ClockModulus /\ 2 * ClockModulus <= WideModulus
    BY WriterAssumption
  <2>2. /\ now \in 0..(ClockModulus - 1) /\ start_ms \in 0..(ClockModulus - 1)
        /\ elapsed \in 0..Deadline
        /\ now = start_ms + elapsed \/ now = start_ms + elapsed - ClockModulus
    BY <1>1 DEF WInv, WriterTypeOK, ClockReading
  <2>3. CASE now >= start_ms
    <3>1. Elapsed64 = now - start_ms
      BY <2>1, <2>2, <2>3 DEF Elapsed64
    <3> QED
      BY <2>1, <2>2, <2>3, <3>1 DEF deadlineExpired
  <2>4. CASE now < start_ms
    <3>1. Elapsed64 = WideModulus + now - start_ms
      BY <2>1, <2>2, <2>4 DEF Elapsed64
    <3> QED
      BY <2>1, <2>2, <2>4, <3>1 DEF deadlineExpired
  <2> QED
    BY <2>2, <2>3, <2>4
<1> QED
  BY <1>1, WriterWInv, PTL

=============================================================================
