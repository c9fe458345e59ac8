---------------------- MODULE TelemetrySchedulerProofs ----------------------
(***************************************************************************)
(* Telemetry for every period, clock width, buffer size and provider: what *)
(* a provider wrote is what its frame carries, every frame is accounted    *)
(* for, numbers on the wire only grow, and a frame is asked for when it    *)
(* is due.                                                                 *)
(***************************************************************************)
EXTENDS TelemetryScheduler, BoundedJsonWriterProofs

\* Everything a provider can have written into its buffer.
Vocabulary ==
    {Opening, Closing, Comma, Colon, LineEnd, NonFinite} \cup Literals
    \cup {Quoted(s) : s \in Names \cup Strings}

InProvider == IF pc = "provider" THEN 1 ELSE 0

Fields ==
    /\ clock \in 0..(ClockModulus - 1) /\ last_due \in 0..(ClockModulus - 1)
    /\ elapsed \in 0..Period /\ wrapped \in BOOLEAN /\ idle \in 0..PassTicks
    /\ next_seq \in Nat \ {0} /\ sent_seq \in Nat /\ sent_seq < next_seq
    /\ session_active \in BOOLEAN /\ first_frame_due \in BOOLEAN
    /\ live \in BOOLEAN /\ unserved \in BOOLEAN /\ calls \in BOOLEAN
    /\ pc \in {"idle", "provider"}
    /\ telemetry_sent \in Nat /\ telemetry_coalesced \in Nat /\ telemetry_dropped \in Nat
    /\ cancelled \in Nat /\ attempts \in 0..MaxAttempts
    /\ next_seq + InProvider <= attempts + 1

\* The writer holds the members ms: its object is open, with a byte kept for
\* its end, or finished.
Holds(w, ms) ==
    /\ w.capacity = PayloadCapacity
    /\ \/ OpenObject(w, Vocabulary, ms) /\ w.tail_reserve = 1
       \/ FinishedObject(w, Vocabulary, ms)

\* Inside the provider the object holds the members that were claimed.
PayloadClaimed ==
    /\ claims \in Seq(Seq(Vocabulary)) /\ adds \in 0..MaxAdds /\ Len(claims) <= adds
    /\ pc = "idle" => payload = NoPayload
    /\ pc = "provider" => Holds(payload, claims)

\* The frame in the slot is newer than any sent, and older than the next.
SlotFrame ==
    slot # <<>> =>
        /\ slot = <<slot[1]>>
        /\ slot[1].seq \in Nat /\ sent_seq < slot[1].seq /\ slot[1].seq < next_seq
        /\ slot[1].text = Object(slot[1].claims)

\* The fields that say that a first frame is due agree with the history.
FirstFrameKnown ==
    /\ ~live => FirstFrameDue
    /\ live => (unserved <=> FirstFrameDue)

\* The time since the last frame, from two readings of the counter.
SinceDue == IF wrapped THEN clock + ClockModulus - last_due ELSE clock - last_due

\* In a session that has had a frame the readings are less than a turn of the
\* counter apart: at the last call of service less than a period had passed.
ClockReading ==
    live /\ ~unserved =>
        /\ SinceDue >= 0 /\ SinceDue < Period + idle
        /\ elapsed = IF SinceDue < Period THEN SinceDue ELSE Period

\* The inductive invariant.
TInv ==
    /\ Fields
    /\ PayloadClaimed
    /\ SlotFrame
    /\ FirstFrameKnown
    /\ ClockReading
    /\ FramesAccounted

-----------------------------------------------------------------------------
(* Constants. *)

LEMMA Sizes ==
    /\ Period \in Nat \ {0} /\ PassTicks \in Nat /\ ClockModulus \in Nat \ {0}
    /\ WideModulus \in Nat /\ Period + PassTicks <= ClockModulus
    /\ ClockModulus + ClockModulus < WideModulus
    /\ MaxAdds \in Nat /\ MaxAttempts \in Nat
  BY ClockAssumption, BoundAssumption

LEMMA VocabularyHolds == IsVocabulary(Vocabulary)
<1>1. \A t \in {Opening, Closing, Comma, Colon, LineEnd} : t.bytes \in Nat
  BY OneByteEach
<1>2. NonFinite.bytes \in Nat
  <2>1. NonFinite.bytes = 0
    BY Zenon DEF NonFinite, Token
  <2> QED
    BY <2>1
<1>3. \A t \in Literals : t.bytes \in Nat
  BY TokenAssumption
<1>4. \A s \in Names \cup Strings : Quoted(s).bytes \in Nat
  BY TokenAssumption
<1>5. \A t \in Vocabulary : t.bytes \in Nat
  BY <1>1, <1>2, <1>3, <1>4 DEF Vocabulary
<1>6. {Opening, Closing, Comma, Colon, LineEnd} \subseteq Vocabulary
  BY DEF Vocabulary
<1> QED
  BY <1>5, <1>6 DEF IsVocabulary

\* The clock's reading stays in range and wraps at its modulus.
LEMMA TickReading ==
    ASSUME NEW m \in Nat \ {0}, NEW n \in 0..(m - 1)
    PROVE  /\ (n + 1) % m \in 0..(m - 1)
           /\ (n + 1) % m = IF n + 1 = m THEN 0 ELSE n + 1
  OBVIOUS

\* The unsigned difference of two readings: negative ones become huge.
LEMMA WideDifference ==
    ASSUME NEW m \in Nat, NEW w \in Nat, m + m < w, NEW a \in 0..(m - 1), NEW b \in 0..(m - 1)
    PROVE  (a - b) % w = IF a >= b THEN a - b ELSE w + a - b
<1>1. CASE a >= b
  BY <1>1
<1>2. CASE a < b
  BY <1>2
<1> QED
  BY <1>1, <1>2

\* service's test, in a state of the program: due at the first call of a
\* session, after a period, or early after a wrap.
LEMMA DueIff ==
    ASSUME TInv, live
    PROVE  FrameDue <=> unserved \/ elapsed >= Period \/ wrapped
<1>1. /\ clock \in 0..(ClockModulus - 1) /\ last_due \in 0..(ClockModulus - 1)
      /\ wrapped \in BOOLEAN /\ unserved \in BOOLEAN /\ idle \in 0..PassTicks
  BY DEF TInv, Fields
<1>2. unserved <=> FirstFrameDue
  BY DEF TInv, FirstFrameKnown
<1>3. CASE unserved
  BY <1>2, <1>3 DEF FrameDue
<1>4. CASE ~unserved
  <2>1. /\ SinceDue >= 0 /\ SinceDue < Period + idle
        /\ elapsed = IF SinceDue < Period THEN SinceDue ELSE Period
    BY <1>4 DEF TInv, ClockReading
  <2>2. FrameDue <=> (clock - last_due) % WideModulus >= Period
    BY <1>2, <1>4 DEF FrameDue
  <2>3. (clock - last_due) % WideModulus =
           IF clock >= last_due THEN clock - last_due ELSE WideModulus + clock - last_due
    BY <1>1, Sizes, WideDifference
  <2>4. CASE wrapped
    <3>1. SinceDue = clock + ClockModulus - last_due
      BY <2>4 DEF SinceDue
    <3>2. clock < last_due
      BY <1>1, <2>1, <3>1, Sizes
    <3>3. WideModulus + clock - last_due >= Period
      BY <1>1, Sizes
    <3> QED
      BY <2>2, <2>3, <2>4, <3>2, <3>3, <1>1
  <2>5. CASE ~wrapped
    <3>1. SinceDue = clock - last_due
      BY <2>5 DEF SinceDue
    <3>2. clock >= last_due
      BY <1>1, <2>1, <3>1
    <3>3. (clock - last_due) % WideModulus = SinceDue
      BY <2>3, <3>1, <3>2
    <3>4. elapsed >= Period <=> SinceDue >= Period
      BY <1>1, <2>1, <3>1, Sizes
    <3> QED
      BY <1>4, <2>2, <2>5, <3>3, <3>4
  <2> QED
    BY <2>4, <2>5
<1> QED
  BY <1>3, <1>4

-----------------------------------------------------------------------------
(* The writer of a frame, from the constructor to the line. *)

LEMMA FrameOpened == Holds(ObjectWriter(PayloadCapacity), <<>>)
  BY VocabularyHolds, LineAssumption, ObjectWriterOpens DEF Holds

\* Closing succeeds, once or twice, and leaves the object of the members.
LEMMA FrameCloses ==
    ASSUME NEW ms \in Seq(Seq(Vocabulary)), NEW w, Holds(w, ms)
    PROVE  /\ close(w).ok = TRUE
           /\ FinishedObject(close(w).w, Vocabulary, ms)
           /\ close(w).w.capacity = PayloadCapacity
<1>1. CASE FinishedObject(w, Vocabulary, ms)
  <2>1. close(w) = [ok |-> TRUE, w |-> w]
    BY <1>1, CloseAgain DEF FinishedObject
  <2> QED
    BY <1>1, <2>1 DEF Holds
<1>2. CASE OpenObject(w, Vocabulary, ms) /\ w.tail_reserve = 1
  BY <1>2, VocabularyHolds, CloseFinishes DEF Holds
<1> QED
  BY <1>1, <1>2 DEF Holds

\* The envelope has room for every finished object.
LEMMA LineFits ==
    ASSUME NEW ms \in Seq(Seq(Vocabulary)), NEW w, FinishedObject(w, Vocabulary, ms),
           w.capacity = PayloadCapacity
    PROVE  buildLine(w)
<1>1. /\ w.out = Object(ms) /\ w.length = Bytes(w.out)
      /\ w.length + w.tail_reserve <= w.capacity /\ w.tail_reserve \in Nat
  BY DEF FinishedObject, InBuffer, Writer
<1>2. /\ Bytes(w.out) = 2 + Bytes(Separated(ms)) /\ Bytes(Separated(ms)) \in Nat
      /\ Head(w.out) = Opening /\ w.out[Len(w.out)] = Closing
  BY <1>1, VocabularyHolds, ObjectText
<1>3. w.length \in Nat /\ w.length >= 2 /\ w.length <= PayloadCapacity
  BY <1>1, <1>2, LineAssumption
<1>4. EnvelopeBytes + w.length <= LineCapacity - 1
  BY <1>3, LineAssumption
<1> QED
  BY <1>2, <1>3, <1>4 DEF buildLine

\* A member is added to the text and to the claims, or to neither.
LEMMA FrameAdds ==
    ASSUME NEW ms \in Seq(Seq(Vocabulary)), NEW w, Holds(w, ms),
           NEW name \in Names \cup {Null}, NEW v \in Values, NEW r,
           r = AppAdd(w, name, v[1], v[2]), NEW m,
           m = Pair(name, <<ValueToken(v[1], v[2])>>)
    PROVE  /\ r.ok \in BOOLEAN
           /\ r.ok => m \in Seq(Vocabulary) /\ Holds(r.w, Append(ms, m))
           /\ ~r.ok => Holds(r.w, ms)
<1>1. CASE FinishedObject(w, Vocabulary, ms)
  <2>1. r = [ok |-> FALSE, w |-> w]
    BY <1>1 DEF AppAdd, allowed, FinishedObject
  <2> QED
    BY <2>1
<1>2. CASE OpenObject(w, Vocabulary, ms) /\ w.tail_reserve = 1
  <2>1. name # Null => Quoted(name) \in Vocabulary
    BY DEF Vocabulary
  <2>2. PICK kind, value :
           /\ kind \in {"literal", "double", "string", "chars"} /\ v[1] = kind /\ v[2] = value
           /\ kind \notin {"string", "chars"} => value \in Vocabulary
           /\ kind \in {"string", "chars"} /\ value # Null => Quoted(value) \in Vocabulary
    <3>1. \/ v[1] = "literal" /\ v[2] \in Literals
          \/ v[1] = "double" /\ v[2] = NonFinite
          \/ v[1] \in {"string", "chars"} /\ v[2] \in Strings \cup {Null}
      BY DEF Values
    <3> QED
      BY <3>1 DEF Vocabulary
  <2>3. Attempted(r, w, Vocabulary, ms, m)
    BY <1>2, <2>1, <2>2, VocabularyHolds, AppAddAttempts
  <2> QED
    BY <1>2, <2>3 DEF Attempted, Holds
<1> QED
  BY <1>1, <1>2 DEF Holds

-----------------------------------------------------------------------------
(* The inductive invariant. *)

LEMMA NoClaims ==
    /\ <<>> \in Seq(Seq(Vocabulary)) /\ Len(<<>>) = 0
  OBVIOUS

LEMMA InitTInv == Init => TInv
<1> SUFFICES ASSUME Init PROVE TInv
  OBVIOUS
<1> USE DEF Init
<1>1. Fields
  <2>1. 0 \in 0..(ClockModulus - 1) /\ 0 \in 0..Period /\ 0 \in 0..PassTicks /\ 0 \in 0..MaxAttempts
    BY Sizes
  <2>2. InProvider = 0
    BY DEF InProvider
  <2>3. next_seq \in Nat \ {0} /\ sent_seq < next_seq /\ next_seq + InProvider <= attempts + 1
    BY <2>2
  <2>4. /\ wrapped \in BOOLEAN /\ session_active \in BOOLEAN /\ first_frame_due \in BOOLEAN
        /\ live \in BOOLEAN /\ unserved \in BOOLEAN /\ calls \in BOOLEAN
    OBVIOUS
  <2> QED
    BY <2>1, <2>3, <2>4 DEF Fields
<1>2. PayloadClaimed
  BY NoClaims, Sizes DEF PayloadClaimed
<1>3. SlotFrame /\ FirstFrameKnown /\ ClockReading
  BY DEF SlotFrame, FirstFrameKnown, FirstFrameDue, ClockReading
<1>4. FramesAccounted
  BY NoClaims DEF FramesAccounted
<1> QED
  BY <1>1, <1>2, <1>3, <1>4 DEF TInv

LEMMA TickTInv == ASSUME TInv, Tick PROVE TInv'
<1> USE DEF Tick, dueVars, counterVars, providerVars, frameVars, sessionVars
<1>1. Fields /\ clock \in 0..(ClockModulus - 1) /\ last_due \in 0..(ClockModulus - 1)
      /\ elapsed \in 0..Period /\ idle \in 0..PassTicks
  BY DEF TInv, Fields
<1>2. /\ clock' \in 0..(ClockModulus - 1)
      /\ clock' = IF clock + 1 = ClockModulus THEN 0 ELSE clock + 1
  BY <1>1, Sizes, TickReading
<1>3. wrapped' \in BOOLEAN /\ (wrapped' <=> wrapped \/ clock' = 0)
  BY Zenon
<1>4. /\ elapsed' \in 0..Period /\ idle' \in 0..PassTicks
      /\ live => idle' = idle + 1 /\ idle < PassTicks
  BY <1>1, Sizes DEF Fields
<1>5. Fields'
  BY <1>1, <1>2, <1>3, <1>4 DEF Fields, InProvider
<1>6. ClockReading'
  <2> SUFFICES ASSUME live', ~unserved'
               PROVE  /\ SinceDue' >= 0 /\ SinceDue' < Period + idle'
                      /\ elapsed' = IF SinceDue' < Period THEN SinceDue' ELSE Period
    BY DEF ClockReading
  <2>1. /\ SinceDue >= 0 /\ SinceDue < Period + idle /\ idle' = idle + 1 /\ idle < PassTicks
        /\ elapsed = IF SinceDue < Period THEN SinceDue ELSE Period
    BY <1>4 DEF TInv, ClockReading
  <2>2. SinceDue' = SinceDue + 1 /\ SinceDue \in Int
    <3>1. CASE clock + 1 = ClockModulus
      <4>1. ~wrapped
        BY <1>1, <2>1, <3>1, Sizes DEF SinceDue
      <4>2. wrapped' /\ clock' = 0
        BY <1>2, <1>3, <3>1
      <4> QED
        BY <1>1, <3>1, <4>1, <4>2, Sizes DEF SinceDue
    <3>2. CASE clock + 1 # ClockModulus
      <4>1. clock' = clock + 1 /\ (wrapped' <=> wrapped)
        BY <1>1, <1>2, <1>3, <3>2
      <4> QED
        BY <1>1, <4>1, Sizes DEF SinceDue
    <3> QED
      BY <3>1, <3>2
  <2> QED
    BY <1>1, <2>1, <2>2, Sizes
<1>7. PayloadClaimed' /\ SlotFrame' /\ FirstFrameKnown' /\ FramesAccounted'
  BY DEF TInv, PayloadClaimed, SlotFrame, FirstFrameKnown, FirstFrameDue, FramesAccounted
<1> QED
  BY <1>5, <1>6, <1>7 DEF TInv

LEMMA SessionStartTInv == ASSUME TInv, SessionStart PROVE TInv'
<1> USE DEF SessionStart, dueVars, counterVars, providerVars, frameVars
<1>1. Fields'
  BY Sizes DEF TInv, Fields, InProvider
<1>2. FirstFrameKnown' /\ ClockReading'
  BY DEF TInv, FirstFrameKnown, FirstFrameDue, ClockReading
<1>3. PayloadClaimed' /\ SlotFrame' /\ FramesAccounted'
  BY DEF TInv, PayloadClaimed, SlotFrame, FramesAccounted
<1> QED
  BY <1>1, <1>2, <1>3 DEF TInv

LEMMA SessionEndTInv == ASSUME TInv, SessionEnd PROVE TInv'
<1> USE DEF SessionEnd, onSessionInactive, clockVars, counterVars, providerVars
<1>1. slot' = <<>> /\ Len(slot') = 0 /\ Len(slot) \in Nat
  <2>1. slot = <<>> \/ slot = <<slot[1]>>
    BY DEF TInv, SlotFrame
  <2> QED
    BY <2>1
<1>2. Fields'
  <2>1. cancelled' \in Nat
    BY <1>1 DEF TInv, Fields
  <2> QED
    BY <2>1 DEF TInv, Fields, InProvider
<1>3. FirstFrameKnown' /\ ClockReading' /\ SlotFrame'
  BY DEF TInv, FirstFrameKnown, FirstFrameDue, ClockReading, SlotFrame
<1>4. PayloadClaimed'
  BY DEF TInv, PayloadClaimed
<1>5. FramesAccounted'
  <2>1. /\ telemetry_sent \in Nat /\ telemetry_coalesced \in Nat /\ telemetry_dropped \in Nat
        /\ cancelled \in Nat
    BY DEF TInv, Fields
  <2> QED
    BY <1>1, <2>1 DEF TInv, FramesAccounted
<1> QED
  BY <1>2, <1>3, <1>4, <1>5 DEF TInv

LEMMA ServiceTInv == ASSUME TInv, Service PROVE TInv'
<1> USE DEF counterVars, frameVars, providerVars
<1>1. /\ live /\ pc = "idle" /\ attempts < MaxAttempts /\ session_active' = TRUE
      /\ calls' = ~calls /\ idle' = 0
      /\ UNCHANGED <<clock, next_seq, counterVars, frameVars, live>>
  BY DEF Service
<1>2. /\ Fields /\ clock \in 0..(ClockModulus - 1) /\ attempts \in 0..MaxAttempts
      /\ next_seq \in Nat /\ next_seq <= attempts + 1
  BY <1>1 DEF TInv, Fields, InProvider
<1>3. calls' \in BOOLEAN
  BY <1>1, Zenon
<1>4. SlotFrame'
  BY <1>1 DEF TInv, SlotFrame
<1>5. /\ telemetry_sent \in Nat /\ telemetry_coalesced \in Nat /\ telemetry_dropped \in Nat
      /\ cancelled \in Nat /\ Len(slot) \in Nat
  <2>1. slot = <<>> \/ slot = <<slot[1]>>
    BY DEF TInv, SlotFrame
  <2> QED
    BY <1>2, <2>1 DEF Fields
<1>6. CASE FrameDue
  <2>1. /\ first_frame_due' = FALSE /\ last_due' = clock
        /\ payload' = ObjectWriter(PayloadCapacity)
        /\ pc' = "provider" /\ claims' = <<>> /\ adds' = 0
        /\ attempts' = attempts + 1
        /\ elapsed' = 0 /\ wrapped' = FALSE /\ unserved' = FALSE
    BY <1>6 DEF Service
  <2>2. Fields'
    <3>1. InProvider' = 1
      BY <2>1 DEF InProvider
    <3>2. attempts' \in 0..MaxAttempts /\ next_seq' + InProvider' <= attempts' + 1
      BY <1>1, <1>2, <2>1, <3>1, Sizes
    <3>3. elapsed' \in 0..Period /\ idle' \in 0..PassTicks
      BY <1>1, <2>1, Sizes
    <3> QED
      BY <1>1, <1>2, <1>3, <2>1, <3>2, <3>3 DEF Fields
  <2>3. PayloadClaimed'
    BY <2>1, FrameOpened, NoClaims, Sizes DEF PayloadClaimed
  <2>4. FirstFrameKnown'
    BY <1>1, <2>1 DEF FirstFrameKnown, FirstFrameDue
  <2>5. ClockReading'
    <3>1. SinceDue' = 0
      BY <1>1, <1>2, <2>1 DEF SinceDue
    <3> QED
      BY <1>1, <2>1, <3>1, Sizes DEF ClockReading
  <2>6. FramesAccounted'
    BY <1>1, <1>2, <1>5, <2>1 DEF TInv, FramesAccounted
  <2> QED
    BY <1>4, <2>2, <2>3, <2>4, <2>5, <2>6 DEF TInv
<1>7. CASE ~FrameDue
  <2>1. /\ first_frame_due' = FirstFrameDue
        /\ UNCHANGED <<last_due, providerVars, attempts, elapsed, wrapped, unserved>>
    BY <1>7 DEF Service
  <2>2. ~FirstFrameDue /\ ~unserved /\ ~(elapsed >= Period) /\ ~wrapped
    BY <1>1, <1>7, DueIff DEF FrameDue
  <2>3. first_frame_due' = FALSE
    BY <2>1, <2>2 DEF FirstFrameDue
  <2>4. Fields'
    <3>1. idle' \in 0..PassTicks
      BY <1>1, Sizes
    <3> QED
      BY <1>1, <1>2, <1>3, <2>1, <2>3, <3>1 DEF Fields, InProvider
  <2>5. PayloadClaimed'
    BY <2>1 DEF TInv, PayloadClaimed
  <2>6. FirstFrameKnown'
    BY <1>1, <2>1, <2>2, <2>3 DEF FirstFrameKnown, FirstFrameDue
  <2>7. ClockReading'
    <3>1. /\ SinceDue >= 0 /\ elapsed = IF SinceDue < Period THEN SinceDue ELSE Period
      BY <1>1, <2>2 DEF TInv, ClockReading
    <3>2. SinceDue \in Int /\ SinceDue' = SinceDue
      BY <1>1, <1>2, <2>1, Sizes DEF SinceDue, Fields
    <3>3. SinceDue < Period
      BY <2>2, <3>1, <3>2, Sizes
    <3> QED
      BY <1>1, <2>1, <3>1, <3>2, <3>3, Sizes DEF ClockReading
  <2>8. FramesAccounted'
    BY <1>1, <2>1 DEF TInv, FramesAccounted
  <2> QED
    BY <1>4, <2>4, <2>5, <2>6, <2>7, <2>8 DEF TInv
<1> QED
  BY <1>6, <1>7

\* The provider's steps touch its object only.
ProviderStep ==
    /\ pc = "provider"
    /\ UNCHANGED <<clockVars, dueVars, counterVars, frameVars, pc, sessionVars>>

LEMMA ProviderKeeps ==
    ASSUME TInv, ProviderStep
    PROVE  Fields' /\ SlotFrame' /\ FirstFrameKnown' /\ ClockReading' /\ FramesAccounted'
<1> USE DEF ProviderStep, clockVars, dueVars, counterVars, frameVars, sessionVars
<1>1. Fields'
  BY DEF TInv, Fields, InProvider
<1>2. SlotFrame' /\ FramesAccounted'
  BY DEF TInv, SlotFrame, FramesAccounted
<1>3. FirstFrameKnown' /\ ClockReading'
  BY DEF TInv, FirstFrameKnown, FirstFrameDue, ClockReading, SinceDue
<1> QED
  BY <1>1, <1>2, <1>3

LEMMA ProviderAddTInv == ASSUME TInv, ProviderAdd PROVE TInv'
<1>1. ProviderStep /\ adds < MaxAdds /\ adds' = adds + 1
  BY DEF ProviderAdd, ProviderStep
<1>2. PICK ms, w :
         /\ ms \in Seq(Seq(Vocabulary)) /\ Len(ms) <= adds /\ adds \in 0..MaxAdds
         /\ ms = claims /\ w = payload /\ Holds(w, ms)
  BY <1>1 DEF TInv, PayloadClaimed, ProviderStep
<1>3. PICK name, v, r, m :
         /\ name \in Names \cup {Null} /\ v \in Values
         /\ r = AppAdd(w, name, v[1], v[2])
         /\ m = Pair(name, <<ValueToken(v[1], v[2])>>)
         /\ payload' = r.w /\ claims' = IF r.ok THEN Append(ms, m) ELSE ms
  BY <1>2 DEF ProviderAdd
<1>4. /\ r.ok \in BOOLEAN
      /\ r.ok => m \in Seq(Vocabulary) /\ Holds(r.w, Append(ms, m))
      /\ ~r.ok => Holds(r.w, ms)
  BY <1>2, <1>3, FrameAdds
<1>5. /\ claims' \in Seq(Seq(Vocabulary)) /\ Len(claims') <= adds + 1
      /\ Holds(payload', claims')
  <2> DEFINE V == Seq(Vocabulary)
  <2>1. ms \in Seq(V) /\ (r.ok => m \in V)
    BY <1>2, <1>4
  <2> HIDE DEF V
  <2>2. Len(ms) \in Nat /\ adds \in Nat /\ Len(ms) <= adds
    BY <1>2, <2>1
  <2>3. CASE r.ok
    <3>1. Append(ms, m) \in Seq(V) /\ Len(Append(ms, m)) = Len(ms) + 1
      BY <2>1, <2>3
    <3> QED
      BY <1>3, <1>4, <2>2, <2>3, <3>1 DEF V
  <2>4. CASE ~r.ok
    BY <1>3, <1>4, <2>1, <2>2, <2>4 DEF V
  <2> QED
    BY <2>3, <2>4
<1>6. PayloadClaimed'
  <2>1. adds' \in 0..MaxAdds
    BY <1>1, <1>2, Sizes
  <2>2. pc' = "provider"
    BY <1>1 DEF ProviderStep
  <2> QED
    BY <1>1, <1>5, <2>1, <2>2 DEF PayloadClaimed
<1> QED
  BY <1>1, <1>6, ProviderKeeps DEF TInv

LEMMA ProviderCloseTInv == ASSUME TInv, ProviderClose PROVE TInv'
<1>1. ProviderStep /\ UNCHANGED <<claims, adds>> /\ payload' = close(payload).w
  BY DEF ProviderClose, ProviderStep
<1>2. PICK ms, w :
         ms \in Seq(Seq(Vocabulary)) /\ ms = claims /\ w = payload /\ Holds(w, ms)
  BY <1>1 DEF TInv, PayloadClaimed, ProviderStep
<1>3. Holds(close(w).w, ms)
  BY <1>2, FrameCloses DEF Holds
<1>4. payload' = close(w).w /\ claims' = ms
  BY <1>1, <1>2
<1>5. PayloadClaimed'
  BY <1>1, <1>3, <1>4 DEF TInv, PayloadClaimed, ProviderStep
<1> QED
  BY <1>1, <1>5, ProviderKeeps DEF TInv

LEMMA ProviderReturnTInv == ASSUME TInv, ProviderReturn PROVE TInv'
<1> USE DEF clockVars, sessionVars
<1>1. /\ pc = "provider" /\ pc' = "idle" /\ payload' = NoPayload /\ claims' = <<>> /\ adds' = 0
      /\ UNCHANGED <<clockVars, session_active, first_frame_due, last_due, telemetry_sent,
                     cancelled, sent_seq, sessionVars>>
  BY DEF ProviderReturn
<1>2. PICK ms, w : ms \in Seq(Seq(Vocabulary)) /\ ms = claims /\ w = payload /\ Holds(w, ms)
  BY <1>1 DEF TInv, PayloadClaimed
<1>3. PICK r : r = close(w)
  OBVIOUS
<1>4. r.w.out = Object(ms)
  BY <1>2, <1>3, FrameCloses DEF FinishedObject
<1>5. \/ /\ slot' = <<[seq |-> next_seq, text |-> r.w.out, claims |-> ms, failed |-> r.w.failed]>>
         /\ telemetry_coalesced' = telemetry_coalesced + Len(slot)
         /\ next_seq' = next_seq + 1
         /\ UNCHANGED telemetry_dropped
      \/ /\ telemetry_dropped' = telemetry_dropped + 1
         /\ UNCHANGED <<slot, next_seq, telemetry_coalesced>>
  BY <1>2, <1>3 DEF ProviderReturn, replaceTelemetry
<1>6. /\ telemetry_sent \in Nat /\ telemetry_coalesced \in Nat /\ telemetry_dropped \in Nat
      /\ cancelled \in Nat /\ Len(slot) \in Nat /\ next_seq \in Nat \ {0} /\ sent_seq \in Nat
      /\ sent_seq < next_seq /\ next_seq + 1 <= attempts + 1 /\ attempts \in 0..MaxAttempts
  <2>1. slot = <<>> \/ slot = <<slot[1]>>
    BY DEF TInv, SlotFrame
  <2>2. Len(slot) \in Nat
    BY <2>1
  <2> QED
    BY <1>1, <2>2 DEF TInv, Fields, InProvider
<1>7. Fields'
  <2>1. /\ next_seq' \in Nat \ {0} /\ sent_seq' < next_seq'
        /\ telemetry_coalesced' \in Nat /\ telemetry_dropped' \in Nat
        /\ next_seq' + InProvider' <= attempts' + 1
    BY <1>1, <1>5, <1>6, Sizes DEF InProvider
  <2> QED
    BY <1>1, <2>1 DEF TInv, Fields
<1>8. PayloadClaimed'
  BY <1>1, NoClaims, Sizes DEF PayloadClaimed
<1>9. SlotFrame'
  <2>1. CASE UNCHANGED <<slot, next_seq>>
    BY <1>1, <2>1 DEF TInv, SlotFrame
  <2>2. CASE /\ slot' = <<[seq |-> next_seq, text |-> r.w.out, claims |-> ms,
                          failed |-> r.w.failed]>>
             /\ next_seq' = next_seq + 1
    <3>1. PICK f : /\ f = [seq |-> next_seq, text |-> r.w.out, claims |-> ms,
                           failed |-> r.w.failed]
                   /\ slot' = <<f>>
      BY <2>2
    <3>2. f.seq = next_seq /\ f.text = Object(f.claims)
      BY <1>4, <3>1
    <3>3. slot'[1] = f
      BY <3>1
    <3>4. slot'[1].seq = next_seq /\ slot'[1].text = Object(slot'[1].claims)
      BY <3>2, <3>3
    <3> QED
      BY <1>1, <1>6, <2>2, <3>1, <3>3, <3>4 DEF SlotFrame
  <2> QED
    BY <1>5, <2>1, <2>2
<1>10. FirstFrameKnown' /\ ClockReading'
  BY <1>1 DEF TInv, FirstFrameKnown, FirstFrameDue, ClockReading, SinceDue
<1>11. FramesAccounted'
  <2>1. \/ Len(slot') = 1 /\ telemetry_coalesced' = telemetry_coalesced + Len(slot)
           /\ UNCHANGED telemetry_dropped
        \/ telemetry_dropped' = telemetry_dropped + 1 /\ UNCHANGED <<slot, telemetry_coalesced>>
    BY <1>5
  <2>2. attempts = telemetry_sent + telemetry_coalesced + telemetry_dropped + cancelled
                   + Len(slot) + 1
    BY <1>1 DEF TInv, FramesAccounted
  <2>3. UNCHANGED <<attempts, telemetry_sent, cancelled>> /\ pc' # "provider"
    BY <1>1
  <2>4. attempts' = telemetry_sent' + telemetry_coalesced' + telemetry_dropped' + cancelled'
                    + Len(slot') + 0
    <3>1. CASE telemetry_dropped' = telemetry_dropped + 1 /\ UNCHANGED <<slot, telemetry_coalesced>>
      BY <1>6, <2>2, <2>3, <3>1
    <3>2. CASE /\ Len(slot') = 1 /\ telemetry_coalesced' = telemetry_coalesced + Len(slot)
               /\ UNCHANGED telemetry_dropped
      BY <1>6, <2>2, <2>3, <3>2
    <3> QED
      BY <2>1, <3>1, <3>2
  <2> QED
    BY <2>3, <2>4 DEF FramesAccounted
<1> QED
  BY <1>7, <1>8, <1>9, <1>10, <1>11 DEF TInv

LEMMA DrainTInv == ASSUME TInv, Drain PROVE TInv' /\ sent_seq' >= sent_seq
<1> USE DEF clockVars, dueVars, providerVars, sessionVars
<1>1. /\ live /\ pc = "idle" /\ slot # <<>> /\ slot' = <<>>
      /\ \/ /\ telemetry_sent' = telemetry_sent + 1 /\ sent_seq' = slot[1].seq
            /\ UNCHANGED telemetry_dropped
         \/ telemetry_dropped' = telemetry_dropped + 1 /\ UNCHANGED <<telemetry_sent, sent_seq>>
      /\ UNCHANGED <<clockVars, dueVars, providerVars, telemetry_coalesced, cancelled,
                     sessionVars>>
  BY DEF Drain
<1>2. /\ telemetry_sent \in Nat /\ telemetry_coalesced \in Nat /\ telemetry_dropped \in Nat
      /\ cancelled \in Nat /\ next_seq \in Nat /\ sent_seq \in Nat /\ sent_seq < next_seq
  BY DEF TInv, Fields
<1>3. Len(slot) = 1 /\ Len(slot') = 0
  <2>1. slot = <<slot[1]>>
    BY <1>1 DEF TInv, SlotFrame
  <2> QED
    BY <1>1, <2>1
<1>4. slot[1].seq \in Nat /\ sent_seq < slot[1].seq /\ slot[1].seq < next_seq
  BY <1>1 DEF TInv, SlotFrame
<1>5. sent_seq' \in Nat /\ sent_seq' < next_seq' /\ sent_seq' >= sent_seq
  BY <1>1, <1>2, <1>4
<1>6. telemetry_sent' \in Nat /\ telemetry_dropped' \in Nat
  BY <1>1, <1>2
<1>7. Fields'
  BY <1>1, <1>5, <1>6 DEF TInv, Fields, InProvider
<1>8. PayloadClaimed' /\ SlotFrame'
  BY <1>1 DEF TInv, PayloadClaimed, SlotFrame
<1>9. FirstFrameKnown' /\ ClockReading'
  BY <1>1 DEF TInv, FirstFrameKnown, FirstFrameDue, ClockReading, SinceDue
<1>10. FramesAccounted'
  <2>1. attempts = telemetry_sent + telemetry_coalesced + telemetry_dropped + cancelled
                   + Len(slot)
    BY <1>1, <1>2, <1>3 DEF TInv, FramesAccounted
  <2> QED
    BY <1>1, <1>2, <1>3, <2>1 DEF FramesAccounted
<1> QED
  BY <1>5, <1>7, <1>8, <1>9, <1>10 DEF TInv

LEMMA StepTInv == TInv /\ [Next]_vars => TInv'
<1> SUFFICES ASSUME TInv, [Next]_vars PROVE TInv'
  OBVIOUS
<1>1. CASE UNCHANGED vars
  <2> USE <1>1 DEF vars, clockVars, dueVars, counterVars, providerVars, frameVars, sessionVars
  <2>1. Fields'
    BY DEF TInv, Fields, InProvider
  <2>2. PayloadClaimed' /\ SlotFrame' /\ FramesAccounted'
    BY DEF TInv, PayloadClaimed, SlotFrame, FramesAccounted
  <2>3. FirstFrameKnown' /\ ClockReading'
    BY DEF TInv, FirstFrameKnown, FirstFrameDue, ClockReading, SinceDue
  <2> QED
    BY <2>1, <2>2, <2>3 DEF TInv
<1> QED
  BY <1>1, TickTInv, SessionStartTInv, SessionEndTInv, ServiceTInv, ProviderAddTInv,
     ProviderCloseTInv, ProviderReturnTInv, DrainTInv DEF Next

LEMMA SchedulerTInv == Spec => []TInv
  BY InitTInv, StepTInv, PTL DEF Spec

-----------------------------------------------------------------------------
\* Types: whatever a provider adds, its buffer is never overrun, the slot holds
\* one frame, and no number is used that no attempt has earned.
THEOREM TelemetryTypeCorrect == Spec => []TelemetryTypeOK
<1>1. ASSUME TInv PROVE TelemetryTypeOK
  <2>1. Fields
    BY <1>1 DEF TInv
  <2>2. /\ adds <= MaxAdds /\ Len(claims) <= adds
    BY <1>1, Sizes DEF TInv, PayloadClaimed
  <2>3. next_seq \in 1..(MaxAttempts + 1)
    BY <2>1, Sizes DEF Fields, InProvider
  <2>4. Len(slot) <= 1
    <3>1. slot = <<>> \/ slot = <<slot[1]>>
      BY <1>1 DEF TInv, SlotFrame
    <3> QED
      BY <3>1
  <2>5. payload.length = Bytes(payload.out) /\ payload.length <= payload.capacity
    <3>1. CASE pc = "idle"
      <4>1. payload.length = 0 /\ payload.out = <<>> /\ payload.capacity = 0
        BY <1>1, <3>1 DEF TInv, PayloadClaimed, NoPayload, NewWriter
      <4> QED
        BY <4>1, BytesEmpty
    <3>2. CASE pc = "provider"
      <4>1. payload \in Writer(Vocabulary) /\ InBuffer(payload)
        BY <1>1, <3>2 DEF TInv, PayloadClaimed, Holds, OpenObject, Inside, FinishedObject
      <4> QED
        BY <4>1 DEF Writer, InBuffer
    <3> QED
      BY <2>1, <3>1, <3>2 DEF Fields
  <2> QED
    BY <2>1, <2>2, <2>3, <2>4, <2>5 DEF TelemetryTypeOK, Fields
<1> QED
  BY <1>1, SchedulerTInv, PTL

\* The provider's buffer is at every moment the well-formed text of exactly the
\* members whose add returned true, in order, and a frame queued from a writer
\* that never failed is their object, for every provider and every buffer size.
THEOREM FramesFaithful == Spec => []FrameIsWhatProviderWrote
<1>1. ASSUME TInv PROVE FrameIsWhatProviderWrote
  <2>1. slot # <<>> /\ ~slot[1].failed => slot[1].text = Object(slot[1].claims)
    BY <1>1 DEF TInv, SlotFrame
  <2>2. ASSUME pc = "provider"
        PROVE  payload.out = IF payload.closed THEN Object(claims)
                             ELSE <<Opening>> \o Separated(claims)
    <3>1. PICK ms, w : ms = claims /\ w = payload /\ Holds(w, ms)
      BY <1>1, <2>2 DEF TInv, PayloadClaimed
    <3>2. w.out = IF w.closed THEN Object(ms) ELSE Cat(<<Opening>>, Separated(ms))
      BY <3>1 DEF Holds, OpenObject, Inside, FinishedObject
    <3> QED
      BY <3>1, <3>2, Zenon DEF Cat
  <2> QED
    BY <2>1, <2>2, Zenon DEF FrameIsWhatProviderWrote
<1> QED
  BY <1>1, SchedulerTInv, PTL

\* However full its buffer, the object of a provider whose writer never failed
\* can be closed and has room in the line: its success has the frame queued.
THEOREM SuccessQueued == Spec => []SuccessIsQueued
<1>1. ASSUME TInv PROVE SuccessIsQueued
  <2> SUFFICES ASSUME pc = "provider" PROVE close(payload).ok /\ buildLine(close(payload).w)
    BY DEF SuccessIsQueued
  <2>1. PICK ms, w : ms \in Seq(Seq(Vocabulary)) /\ ms = claims /\ w = payload /\ Holds(w, ms)
    BY <1>1 DEF TInv, PayloadClaimed
  <2>2. close(w).ok /\ buildLine(close(w).w)
    BY <2>1, FrameCloses, LineFits
  <2> QED
    BY <2>1, <2>2
<1> QED
  BY <1>1, SchedulerTInv, PTL

\* Every frame that fell due is in exactly one of the counters, in the slot or
\* being written, or was cancelled with its session.
THEOREM NoFrameLost == Spec => []FramesAccounted
<1>1. TInv => FramesAccounted
  BY DEF TInv
<1> QED
  BY <1>1, SchedulerTInv, PTL

\* The numbers of the frames on the wire only grow, over session ends,
\* overwritten frames and failures of the provider.
THEOREM NumbersGrow == Spec => SeqIncreasing
<1>1. TInv /\ [Next]_vars => [sent_seq' # sent_seq => sent_seq' > sent_seq]_sent_seq
  <2> SUFFICES ASSUME TInv, [Next]_vars, sent_seq' # sent_seq PROVE sent_seq' > sent_seq
    OBVIOUS
  <2>1. Drain
    BY DEF Next, vars, Tick, SessionStart, SessionEnd, Service, ProviderAdd, ProviderClose,
           ProviderReturn, frameVars
  <2>2. sent_seq' = slot[1].seq /\ sent_seq < slot[1].seq
    BY <2>1 DEF Drain, TInv, SlotFrame
  <2>3. slot[1].seq \in Nat /\ sent_seq \in Nat
    BY <2>1 DEF Drain, TInv, SlotFrame, Fields
  <2> QED
    BY <2>2, <2>3
<1> QED
  BY <1>1, SchedulerTInv, PTL DEF Spec, SeqIncreasing

\* service asks for every frame that is due, across a wrap of the counter too,
\* and for no other unless the counter wrapped, for every period and pair of
\* clock widths.
THEOREM FramesOnTime == Spec => DueOnTime
<1> DEFINE A == calls' # calls =>
                  /\ unserved \/ elapsed >= Period => attempts' # attempts
                  /\ attempts' # attempts /\ ~wrapped => unserved \/ elapsed >= Period
<1>1. TInv /\ [Next]_vars => [A]_vars
  <2> SUFFICES ASSUME TInv, Next, calls' # calls
               PROVE  /\ unserved \/ elapsed >= Period => attempts' # attempts
                      /\ attempts' # attempts /\ ~wrapped => unserved \/ elapsed >= Period
    OBVIOUS
  <2>1. Service
    BY DEF Next, Tick, SessionStart, SessionEnd, ProviderAdd, ProviderClose, ProviderReturn,
           Drain, sessionVars
  <2>2. FrameDue <=> unserved \/ elapsed >= Period \/ wrapped
    BY <2>1, DueIff DEF Service
  <2>3. attempts' # attempts <=> FrameDue
    <3>1. attempts \in Nat
      BY DEF TInv, Fields
    <3>2. CASE FrameDue
      BY <2>1, <3>1, <3>2 DEF Service
    <3>3. CASE ~FrameDue
      BY <2>1, <3>3 DEF Service
    <3> QED
      BY <3>2, <3>3
  <2> QED
    BY <2>2, <2>3, Zenon
<1> QED
  BY <1>1, SchedulerTInv, PTL DEF Spec, DueOnTime

=============================================================================
