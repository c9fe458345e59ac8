------------------------- MODULE TelemetryScheduler -------------------------
(***************************************************************************)
(* Periodic telemetry (core/TelemetryScheduler.h): when a frame is due,    *)
(* what the application's provider may write into it, and what becomes of  *)
(* it in the scheduler's single telemetry slot.                            *)
(*                                                                         *)
(* The provider is the application's code: it may add any members, add     *)
(* after a refusal, close the object itself, take time, and return either  *)
(* way.  Nothing else of the library runs meanwhile.                       *)
(***************************************************************************)
EXTENDS BoundedJsonWriter, Integers

CONSTANTS
    Period,           \* kTelemetryPeriodMs
    ClockModulus,     \* range of the platform's 32-bit millisecond counter
    WideModulus,      \* range of the std::uint64_t the readings are compared in
    PayloadCapacity,  \* kMaxResultPayloadBytes
    EnvelopeBytes,    \* the widest line around the payload
    LineCapacity,     \* kTelemetryJsonBufferBytes
    Names,            \* member names the provider uses
    Literals,         \* number and Boolean literals, as tokens
    Strings,          \* strings the provider passes
    MaxAdds,          \* bound: members the provider tries to add to one frame
    MaxAttempts,      \* bound: frames attempted
    PassTicks         \* longest time between two calls of service in a session

\* service() is called more than once in a turn of the counter (49.7 days).
ASSUME ClockAssumption ==
    /\ Period \in Nat \ {0} /\ PassTicks \in Nat /\ ClockModulus \in Nat /\ WideModulus \in Nat
    /\ Period + PassTicks <= ClockModulus /\ ClockModulus * 2 < WideModulus
\* The buffers hold the empty object and the widest line.
ASSUME LineAssumption ==
    /\ PayloadCapacity \in Nat /\ EnvelopeBytes \in Nat /\ LineCapacity \in Nat
    /\ PayloadCapacity >= 2 /\ PayloadCapacity + EnvelopeBytes < LineCapacity
\* Literals and escaped strings occupy whole bytes.
ASSUME TokenAssumption ==
    /\ \A v \in Literals : v.bytes \in Nat
    /\ \A s \in Names \cup Strings : Quoted(s).bytes \in Nat
ASSUME BoundAssumption == MaxAdds \in Nat /\ MaxAttempts \in Nat

VARIABLES
    clock,                \* Clock::monotonicMilliseconds(): millis(), widened
    next_seq, session_active, first_frame_due, last_due,   \* the class's fields
    slot,                 \* the telemetry slot: <<>> or <<frame>>
    live,                 \* a controller session is active
    payload,              \* the ObjectWriter on buildAndQueue's stack
    pc,                   \* "idle", or "provider": inside the provider
    telemetry_sent, telemetry_coalesced, telemetry_dropped,  \* Counters
    claims,               \* history: members whose add returned true, in order
    adds,                 \* members the provider has tried to add
    attempts,             \* history: frames that were due
    cancelled,            \* history: frames cancelled at a session end
    sent_seq,             \* history: sequence number of the last frame sent
    elapsed,              \* history: time since last_due, up to Period
    wrapped,              \* history: the counter wrapped since last_due
    unserved,             \* history: no frame was due in this session yet
    calls,                \* history: flips with every call of service
    idle                  \* time since the last call of service in this session

clockVars == <<clock, elapsed, wrapped, idle>>
dueVars == <<next_seq, session_active, first_frame_due, last_due>>
counterVars == <<telemetry_sent, telemetry_coalesced, telemetry_dropped>>
providerVars == <<payload, pc, claims, adds>>
frameVars == <<slot, cancelled, sent_seq>>
sessionVars == <<live, attempts, unserved, calls>>
vars == <<clockVars, dueVars, counterVars, providerVars, frameVars, sessionVars>>

\* A provider's member: how it is added, and its value.
Values == {<<"literal", v>> : v \in Literals} \cup {<<"double", NonFinite>>}
          \cup {<<kind, s>> : kind \in {"string", "chars"}, s \in Strings \cup {Null}}

NoPayload == NewWriter(0)

\* Types: the provider's buffer is never overrun, whatever it adds, and the
\* slot holds one frame (BoundedJsonWriter::remaining, replaceTelemetry).
TelemetryTypeOK ==
    /\ clock \in 0..(ClockModulus - 1) /\ last_due \in 0..(ClockModulus - 1)
    /\ elapsed \in 0..Period /\ wrapped \in BOOLEAN /\ idle \in 0..PassTicks
    /\ next_seq \in 1..(MaxAttempts + 1) /\ sent_seq < next_seq
    /\ session_active \in BOOLEAN /\ first_frame_due \in BOOLEAN
    /\ live \in BOOLEAN /\ unserved \in BOOLEAN /\ calls \in BOOLEAN
    /\ pc \in {"idle", "provider"} /\ Len(slot) <= 1
    /\ payload.length = Bytes(payload.out) /\ payload.length <= payload.capacity
    /\ adds <= MaxAdds /\ Len(claims) <= adds

Init ==
    /\ clock = 0 /\ elapsed = 0 /\ wrapped = FALSE /\ idle = 0
    /\ next_seq = 1 /\ session_active = FALSE /\ first_frame_due = TRUE /\ last_due = 0
    /\ telemetry_sent = 0 /\ telemetry_coalesced = 0 /\ telemetry_dropped = 0
    /\ payload = NoPayload /\ pc = "idle" /\ claims = <<>> /\ adds = 0
    /\ slot = <<>> /\ cancelled = 0 /\ sent_seq = 0
    /\ live = FALSE /\ attempts = 0 /\ unserved = TRUE /\ calls = FALSE

-----------------------------------------------------------------------------
Tick ==
    /\ live => idle < PassTicks
    /\ idle' = IF live THEN idle + 1 ELSE idle
    /\ clock' = (clock + 1) % ClockModulus
    /\ elapsed' = IF elapsed < Period THEN elapsed + 1 ELSE elapsed
    /\ wrapped' = (wrapped \/ clock' = 0)
    /\ UNCHANGED <<dueVars, counterVars, providerVars, frameVars, sessionVars>>

\* A controller is promoted to a session.
SessionStart ==
    /\ ~live /\ pc = "idle"
    /\ live' = TRUE /\ unserved' = TRUE /\ idle' = 0
    /\ UNCHANGED <<clock, elapsed, wrapped, dueVars, counterVars, providerVars, frameVars, attempts, calls>>

\* Mutant: every session numbers its frames from one.
onSessionInactive_RestartsSeq ==
    /\ session_active' = FALSE /\ first_frame_due' = TRUE /\ next_seq' = 1
    /\ UNCHANGED last_due

onSessionInactive ==
    /\ session_active' = FALSE /\ first_frame_due' = TRUE
    /\ UNCHANGED <<next_seq, last_due>>

\* cancelRouteAndApply: a frame still in the slot is cancelled with the session.
SessionEnd ==
    /\ live /\ pc = "idle"
    /\ live' = FALSE
    /\ slot' = <<>> /\ cancelled' = cancelled + Len(slot)
    /\ onSessionInactive
    /\ UNCHANGED <<clockVars, counterVars, providerVars, sent_seq, attempts, unserved, calls>>

-----------------------------------------------------------------------------
FirstFrameDue == ~session_active \/ first_frame_due

\* Mutant: the due time is computed forward, and never comes after a wrap.
FrameDue_Forward == FirstFrameDue \/ clock >= last_due + Period

\* The unsigned difference of two readings of a counter that wraps below 2^64.
FrameDue == FirstFrameDue \/ (clock - last_due) % WideModulus >= Period

\* service: the due time moves to now, so missed periods are not made up for.
Service ==
    /\ live /\ pc = "idle" /\ attempts < MaxAttempts
    /\ session_active' = TRUE /\ calls' = ~calls /\ idle' = 0
    /\ IF FrameDue
       THEN /\ first_frame_due' = FALSE /\ last_due' = clock
            /\ payload' = ObjectWriter(PayloadCapacity)
            /\ pc' = "provider" /\ claims' = <<>> /\ adds' = 0
            /\ attempts' = attempts + 1
            /\ elapsed' = 0 /\ wrapped' = FALSE /\ unserved' = FALSE
       ELSE /\ first_frame_due' = FirstFrameDue
            /\ UNCHANGED <<last_due, providerVars, attempts, elapsed, wrapped, unserved>>
    /\ UNCHANGED <<clock, next_seq, counterVars, frameVars, live>>

\* The provider adds a member; what it is told is recorded in claims.
ProviderAdd ==
    /\ pc = "provider" /\ adds < MaxAdds
    /\ \E name \in Names \cup {Null}, v \in Values :
          LET r == AppAdd(payload, name, v[1], v[2])
          IN  /\ payload' = r.w
              /\ claims' = IF r.ok THEN Append(claims, Pair(name, <<ValueToken(v[1], v[2])>>))
                           ELSE claims
    /\ adds' = adds + 1
    /\ UNCHANGED <<clockVars, dueVars, counterVars, frameVars, pc, sessionVars>>

\* The provider may close the object itself.
ProviderClose ==
    /\ pc = "provider" /\ ~payload.closed
    /\ payload' = close(payload).w
    /\ UNCHANGED <<clockVars, dueVars, counterVars, frameVars, pc, claims, adds,
                   sessionVars>>

-----------------------------------------------------------------------------
\* buildLine: the envelope around the provider's object.
buildLine(w) ==
    /\ w.length >= 2 /\ Head(w.out) = Opening /\ w.out[Len(w.out)] = Closing
    /\ EnvelopeBytes + w.length <= LineCapacity - 1

\* Mutant: an overwritten frame is not counted.
replaceTelemetry_Uncounted(frame) ==
    /\ slot' = <<frame>>
    /\ UNCHANGED telemetry_coalesced

\* OutboundScheduler::replaceTelemetry.
replaceTelemetry(frame) ==
    /\ slot' = <<frame>>
    /\ telemetry_coalesced' = telemetry_coalesced + Len(slot)

\* buildAndQueue after the provider returned: a frame that fails takes no
\* sequence number.
ProviderReturn ==
    /\ pc = "provider"
    /\ \E returned \in BOOLEAN :
          LET r == close(payload)
          IN  IF returned /\ r.ok /\ buildLine(r.w)
              THEN /\ replaceTelemetry([seq |-> next_seq, text |-> r.w.out, claims |-> claims,
                                        failed |-> r.w.failed])
                   /\ next_seq' = next_seq + 1
                   /\ UNCHANGED telemetry_dropped
              ELSE /\ telemetry_dropped' = telemetry_dropped + 1
                   /\ UNCHANGED <<slot, next_seq, telemetry_coalesced>>
    /\ pc' = "idle" /\ payload' = NoPayload /\ claims' = <<>> /\ adds' = 0
    /\ UNCHANGED <<clockVars, session_active, first_frame_due, last_due, telemetry_sent,
                   cancelled, sent_seq, sessionVars>>

\* drainOne on the telemetry slot: the frame leaves it, sent or not.
Drain ==
    /\ live /\ pc = "idle" /\ slot # <<>>
    /\ slot' = <<>>
    /\ \/ /\ telemetry_sent' = telemetry_sent + 1
          /\ sent_seq' = slot[1].seq
          /\ UNCHANGED telemetry_dropped
       \/ /\ telemetry_dropped' = telemetry_dropped + 1
          /\ UNCHANGED <<telemetry_sent, sent_seq>>
    /\ UNCHANGED <<clockVars, dueVars, providerVars, telemetry_coalesced, cancelled,
                   sessionVars>>

Next ==
    \/ Tick
    \/ SessionStart
    \/ SessionEnd
    \/ Service
    \/ ProviderAdd
    \/ ProviderClose
    \/ ProviderReturn
    \/ Drain

Spec == Init /\ [][Next]_vars

-----------------------------------------------------------------------------
\* Whatever a provider tries, its buffer holds exactly the members whose add
\* returned true, in order and well-formed: a refused one is taken back whole
\* (BoundedJsonWriter's capture/restore and comma flags).  A frame queued by a
\* provider whose writer never failed carries the object of those members.
\* (What becomes of the frame of a writer that failed is left open.)
FrameIsWhatProviderWrote ==
    /\ pc = "provider" =>
         payload.out = IF payload.closed THEN Object(claims) ELSE <<Opening>> \o Separated(claims)
    /\ slot # <<>> /\ ~slot[1].failed => slot[1].text = Object(slot[1].claims)

\* A provider that reports success, and whose writer never failed, has its frame
\* queued, however full its buffer: the closing brace and the envelope always
\* have room (ObjectWriter's reserved byte).
SuccessIsQueued ==
    pc = "provider" /\ ~payload.failed => LET r == close(payload) IN r.ok /\ buildLine(r.w)

\* Every frame that fell due is sent, overwritten or dropped, as the counters
\* say, still in the slot, or was cancelled with its session, which no counter
\* of the code records (clearForSessionEnd): none vanishes in another way.
FramesAccounted ==
    attempts = telemetry_sent + telemetry_coalesced + telemetry_dropped + cancelled
               + Len(slot) + (IF pc = "provider" THEN 1 ELSE 0)

\* Frames reach the wire with increasing sequence numbers for as long as the
\* board runs, over session ends, overwritten frames and provider failures.
SeqIncreasing == [][sent_seq' # sent_seq => sent_seq' > sent_seq]_sent_seq

\* A call of service asks for a frame when the session has had none or a full
\* period has passed, whatever the counter has done meanwhile: a wrap never
\* withholds telemetry (service's unsigned comparison).  Unless the counter has
\* wrapped since the last frame, it asks for no other.
DueOnTime ==
    [][calls' # calls =>
         /\ unserved \/ elapsed >= Period => attempts' # attempts
         /\ attempts' # attempts /\ ~wrapped => unserved \/ elapsed >= Period]_vars

=============================================================================
