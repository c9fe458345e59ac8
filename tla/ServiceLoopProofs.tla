------------------------- MODULE ServiceLoopProofs -------------------------
(***************************************************************************)
(* Proofs about the service loop, for every set of controllers, reasons    *)
(* and line kinds, every queue capacity and every telemetry streak limit:  *)
(* sessions are isolated, teardowns complete within their pass, nothing    *)
(* accepted or answered is unaccounted for, and the loop implements both   *)
(* the e-stop channel (module EstopHandler) and the controller session     *)
(* (module ControllerSession).                                             *)
(***************************************************************************)
EXTENDS ServiceLoop, FiniteSetTheorems, TLAPS

(***************************************************************************)
(* The board-local e-stop channel by itself: ChannelSpec allows every      *)
(* order of calls that a caller which pairs them can make.                 *)
(***************************************************************************)

\* A pending event has a real reason: needed to type the histories.
ReasonStored == estop_state # "Empty" => reason \in Reasons

\* The inductive invariant.
IInv ==
    /\ TypeOK
    /\ QueueWithinCapacity
    /\ RecordsAgree
    /\ ReasonStored
    /\ ExactlyOnceInOrder

-----------------------------------------------------------------------------
\* Removing the entry at index i (removeCritical's shift loop) leaves a queue
\* one shorter, whose entries are the others in their old order.
LEMMA WithoutProperties ==
    ASSUME NEW S, NEW q \in Seq(S), NEW i \in 1..Len(q)
    PROVE  /\ Without(q, i) \in Seq(S)
           /\ Len(Without(q, i)) = Len(q) - 1
           /\ \A j \in 1..(Len(q) - 1) : Without(q, i)[j] = IF j < i THEN q[j] ELSE q[j + 1]
<1> DEFINE n == Len(q) - 1
<1>1. Len(q) \in Nat /\ n \in Nat
  OBVIOUS
<1>2. \A j \in 1..n : (IF j < i THEN q[j] ELSE q[j + 1]) \in S
  BY <1>1
<1>3. Without(q, i) \in [1..n -> S]
  BY <1>2 DEF Without
<1>4. Without(q, i) \in Seq(S) /\ Len(Without(q, i)) = n
  BY <1>1, <1>3
<1> QED
  BY <1>4 DEF Without

\* Queueing an entry changes no other entry.
LEMMA AppendProperties ==
    ASSUME NEW S, NEW q \in Seq(S), NEW e \in S
    PROVE  /\ Append(q, e) \in Seq(S)
           /\ Len(Append(q, e)) = Len(q) + 1
           /\ \A j \in 1..Len(q) : Append(q, e)[j] = q[j]
           /\ Append(q, e)[Len(q) + 1] = e
  OBVIOUS

-----------------------------------------------------------------------------
LEMMA InitIInv == ChannelInit => IInv
<1> SUFFICES ASSUME ChannelInit PROVE IInv
  OBVIOUS
<1> USE DEF ChannelInit, SchedulerInit
<1>1. TypeOK
  BY DEF TypeOK, SchedulerTypeOK, TelemetrySlot, EstopTriggeredPendingState, PendingState
<1>2. QueueWithinCapacity /\ RecordsAgree /\ ReasonStored /\ ExactlyOnceInOrder
  BY CapacityAssumption
  DEF QueueWithinCapacity, RecordsAgree, IsTriggered, ReasonStored, ExactlyOnceInOrder
<1> QED
  BY <1>1, <1>2 DEF IInv

LEMMA RequestPreserves ==
    ASSUME IInv, NEW r \in Reasons, requestEstopTriggered(r)
    PROVE  IInv'
<1> USE DEF IInv, requestEstopTriggered, MarkedPending
<1>1. TypeOK'
  BY DEF TypeOK, SchedulerTypeOK, EstopTriggeredPendingState, PendingState
<1>2. RecordsAgree'
  BY DEF RecordsAgree, IsTriggered, TypeOK, SchedulerTypeOK
<1>3. QueueWithinCapacity' /\ ReasonStored' /\ ExactlyOnceInOrder'
  BY DEF QueueWithinCapacity, ReasonStored, ExactlyOnceInOrder
<1> QED
  BY <1>1, <1>2, <1>3

LEMMA ServiceQueuesPreserves ==
    ASSUME IInv, NEW c \in Conns, ServiceQueues(c)
    PROVE  IInv'
<1> DEFINE e == [kind |-> "EstopTriggered", conn |-> c, reason |-> reason]
<1> USE DEF IInv
<1>1. e \in Entry /\ e.kind = "EstopTriggered" /\ e.reason = reason
  BY DEF Entry, CriticalKind, TypeOK
<1>2. /\ estop_state = "PendingNotQueued" /\ estop_state' = "QueuedAwaitingCompletion"
      /\ Len(critical) < CriticalCapacity
      /\ critical' = Append(critical, e)
      /\ estop_triggered_state' = "Queued"
      /\ UNCHANGED <<telemetry, reason, accepted, delivered>>
  BY <1>1 DEF ServiceQueues, enqueueCritical, CanEnqueue
<1> HIDE DEF e
<1>3. critical \in Seq(Entry)
  BY DEF TypeOK, SchedulerTypeOK
<1>4. /\ critical' \in Seq(Entry)
      /\ Len(critical') = Len(critical) + 1
      /\ \A j \in 1..Len(critical) : critical'[j] = critical[j]
      /\ critical'[Len(critical) + 1] = e
  BY <1>1, <1>2, <1>3, AppendProperties
<1>5. TypeOK'
  BY <1>2, <1>4 DEF TypeOK, SchedulerTypeOK, EstopTriggeredPendingState, PendingState
<1>6. \A j \in 1..Len(critical) : critical[j].kind # "EstopTriggered"
  BY <1>2 DEF RecordsAgree, IsTriggered
<1>7. \A j \in 1..Len(critical') : IsTriggered(j)' <=> j = Len(critical')
  BY <1>1, <1>3, <1>4, <1>6 DEF IsTriggered
<1>8. RecordsAgree'
  BY <1>1, <1>2, <1>3, <1>4, <1>7 DEF RecordsAgree
<1>9. QueueWithinCapacity' /\ ReasonStored' /\ ExactlyOnceInOrder'
  BY <1>2, <1>3, <1>4, CapacityAssumption
  DEF QueueWithinCapacity, ReasonStored, ExactlyOnceInOrder
<1> QED
  BY <1>5, <1>8, <1>9

LEMMA ServiceSaturatedPreserves ==
    ASSUME IInv, ServiceSaturated
    PROVE  IInv'
<1>1. estop_triggered_state' = estop_triggered_state
  BY DEF IInv, RecordsAgree, ServiceSaturated, MarkedPending
<1>2. UNCHANGED channelVars
  BY <1>1 DEF ServiceSaturated, channelVars, schedulerVars, handlerVars
<1> QED
  BY <1>2 DEF IInv, TypeOK, SchedulerTypeOK, QueueWithinCapacity, RecordsAgree, IsTriggered,
              ReasonStored, ExactlyOnceInOrder, channelVars, schedulerVars, handlerVars

LEMMA EnqueueAnswerPreserves ==
    ASSUME IInv, NEW k \in CriticalKind, NEW c \in Conns, EnqueueAnswer(k, c)
    PROVE  IInv'
<1> DEFINE e == [kind |-> k, conn |-> c, reason |-> NoReason]
<1> USE DEF IInv
<1>1. e \in Entry /\ e.kind # "EstopTriggered"
  BY DEF Entry, EnqueueAnswer
<1>2. /\ Len(critical) < CriticalCapacity
      /\ critical' = Append(critical, e)
      /\ UNCHANGED <<estop_triggered_state, telemetry, estop_state, reason, accepted, delivered>>
  BY <1>1 DEF EnqueueAnswer, enqueueCritical, CanEnqueue, handlerVars
<1> HIDE DEF e
<1>3. critical \in Seq(Entry)
  BY DEF TypeOK, SchedulerTypeOK
<1>4. /\ critical' \in Seq(Entry)
      /\ Len(critical') = Len(critical) + 1
      /\ \A j \in 1..Len(critical) : critical'[j] = critical[j]
      /\ critical'[Len(critical) + 1] = e
  BY <1>1, <1>2, <1>3, AppendProperties
<1>5. TypeOK'
  BY <1>2, <1>4 DEF TypeOK, SchedulerTypeOK
<1>6. \A j \in 1..Len(critical') :
         /\ IsTriggered(j)' => IsTriggered(j) /\ critical'[j] = critical[j]
  BY <1>1, <1>3, <1>4 DEF IsTriggered
<1>7. \A j \in 1..Len(critical) : IsTriggered(j) => IsTriggered(j)' /\ j \in 1..Len(critical')
  BY <1>3, <1>4 DEF IsTriggered
<1>8. RecordsAgree'
  <2>1. (\E j \in 1..Len(critical') : IsTriggered(j)')
           <=> (\E j \in 1..Len(critical) : IsTriggered(j))
    BY <1>6, <1>7 DEF IsTriggered
  <2>2. \A i, j \in 1..Len(critical') : IsTriggered(i)' /\ IsTriggered(j)' => i = j
    BY <1>6 DEF RecordsAgree, IsTriggered
  <2>3. \A j \in 1..Len(critical') : IsTriggered(j)' => critical'[j].reason = reason'
    BY <1>2, <1>6 DEF RecordsAgree, IsTriggered
  <2> QED
    BY <1>2, <2>1, <2>2, <2>3 DEF RecordsAgree
<1>9. QueueWithinCapacity' /\ ReasonStored' /\ ExactlyOnceInOrder'
  BY <1>2, <1>3, <1>4, CapacityAssumption
  DEF QueueWithinCapacity, ReasonStored, ExactlyOnceInOrder
<1> QED
  BY <1>5, <1>8, <1>9

\* The telemetry slot takes no part in the invariant beyond its type.
LEMMA TelemetryPreserves ==
    ASSUME IInv, telemetry' \in TelemetrySlot,
           UNCHANGED <<critical, estop_triggered_state, handlerVars>>
    PROVE  IInv'
  BY DEF IInv, TypeOK, SchedulerTypeOK, QueueWithinCapacity, RecordsAgree, IsTriggered,
         ReasonStored, ExactlyOnceInOrder, handlerVars

LEMMA DrainCriticalPreserves ==
    ASSUME IInv, NEW i \in 1..CriticalCapacity, NEW sent \in BOOLEAN, DrainCritical(i, sent)
    PROVE  IInv'
<1> USE DEF IInv
<1>1. critical \in Seq(Entry) /\ i \in 1..Len(critical) /\ critical' = Without(critical, i)
  BY DEF TypeOK, SchedulerTypeOK, DrainCritical, selectCriticalIndex
<1>2. /\ critical' \in Seq(Entry)
      /\ Len(critical') = Len(critical) - 1
      /\ \A j \in 1..(Len(critical) - 1) :
            critical'[j] = IF j < i THEN critical[j] ELSE critical[j + 1]
  BY <1>1, WithoutProperties
<1>3. Len(critical) \in Nat /\ critical[i] \in Entry
  BY <1>1
<1>4. QueueWithinCapacity'
  BY <1>2, <1>3, CapacityAssumption DEF QueueWithinCapacity
<1>5. \A j \in 1..Len(critical') : IsTriggered(j)' =>
          LET k == IF j < i THEN j ELSE j + 1
          IN  k \in 1..Len(critical) /\ k # i /\ IsTriggered(k) /\ critical'[j] = critical[k]
  BY <1>1, <1>2, <1>3 DEF IsTriggered
<1>6. telemetry' = telemetry /\ accepted' = accepted
  BY DEF DrainCritical
<1>7. CASE critical[i].kind = "EstopTriggered"
  <2>1. estop_state = "QueuedAwaitingCompletion" /\ critical[i].reason = reason
    BY <1>1, <1>7 DEF RecordsAgree, IsTriggered
  <2>2. reason \in Reasons /\ accepted = Append(delivered, reason)
    BY <2>1 DEF ReasonStored, ExactlyOnceInOrder
  <2>3. \A j \in 1..Len(critical') : ~IsTriggered(j)'
    BY <1>1, <1>5, <1>7 DEF RecordsAgree, IsTriggered
  <2>4. CASE sent
    <3>1. /\ estop_state' = "Empty" /\ reason' = NoReason
          /\ estop_triggered_state' = "NotPending" /\ delivered' = Append(delivered, reason)
      BY <1>7, <2>1, <2>4 DEF DrainCritical, StateAfterRemoving
    <3>2. TypeOK'
      BY <1>2, <1>6, <2>2, <3>1
      DEF TypeOK, SchedulerTypeOK, EstopTriggeredPendingState, PendingState
    <3>3. RecordsAgree'
      BY <2>3, <3>1 DEF RecordsAgree
    <3>4. ReasonStored' /\ ExactlyOnceInOrder'
      BY <1>6, <2>2, <3>1 DEF ReasonStored, ExactlyOnceInOrder
    <3> QED
      BY <1>4, <3>2, <3>3, <3>4
  <2>5. CASE ~sent
    <3>1. /\ estop_state' = "PendingNotQueued" /\ reason' = reason
          /\ estop_triggered_state' = "PendingNotQueued" /\ delivered' = delivered
      BY <1>7, <2>1, <2>5 DEF DrainCritical, StateAfterRemoving, MarkedPending
    <3>2. TypeOK'
      BY <1>2, <1>6, <3>1
      DEF TypeOK, SchedulerTypeOK, EstopTriggeredPendingState, PendingState
    <3>3. RecordsAgree'
      BY <2>3, <3>1 DEF RecordsAgree
    <3>4. ReasonStored' /\ ExactlyOnceInOrder'
      BY <1>6, <2>2, <3>1 DEF ReasonStored, ExactlyOnceInOrder
    <3> QED
      BY <1>4, <3>2, <3>3, <3>4
  <2> QED
    BY <2>4, <2>5
<1>8. CASE critical[i].kind # "EstopTriggered"
  <2>1. UNCHANGED <<estop_state, reason, estop_triggered_state, delivered>>
    BY <1>8 DEF DrainCritical, StateAfterRemoving
  <2>2. TypeOK' /\ ReasonStored' /\ ExactlyOnceInOrder'
    BY <1>2, <1>6, <2>1 DEF TypeOK, SchedulerTypeOK, ReasonStored, ExactlyOnceInOrder
  <2>3. \A k \in 1..Len(critical) : IsTriggered(k) =>
            LET j == IF k < i THEN k ELSE k - 1
            IN  j \in 1..Len(critical') /\ IsTriggered(j)'
    BY <1>1, <1>2, <1>3, <1>8 DEF IsTriggered
  <2>4. (\E j \in 1..Len(critical') : IsTriggered(j)')
           <=> (\E k \in 1..Len(critical) : IsTriggered(k))
    BY <1>5, <2>3
  <2>5. \A j, k \in 1..Len(critical') : IsTriggered(j)' /\ IsTriggered(k)' => j = k
    BY <1>1, <1>5 DEF RecordsAgree
  <2>6. \A j \in 1..Len(critical') : IsTriggered(j)' => critical'[j].reason = reason'
    BY <1>5, <2>1 DEF RecordsAgree
  <2>7. RecordsAgree'
    BY <2>1, <2>4, <2>5, <2>6 DEF RecordsAgree
  <2> QED
    BY <1>4, <2>2, <2>7
<1> QED
  BY <1>7, <1>8

LEMMA CancelAllPreserves ==
    ASSUME IInv, CancelAll
    PROVE  IInv'
<1> USE DEF IInv
<1>1. critical' = <<>> /\ telemetry' = <<>> /\ UNCHANGED <<reason, accepted, delivered>>
  BY DEF CancelAll
<1>2. \/ /\ estop_state = "QueuedAwaitingCompletion"
         /\ estop_state' = "PendingNotQueued" /\ estop_triggered_state' = "PendingNotQueued"
      \/ /\ estop_state # "QueuedAwaitingCompletion"
         /\ UNCHANGED <<estop_state, estop_triggered_state>>
  BY DEF CancelAll, StateAfterClearing, MarkedPending, RecordsAgree, IsTriggered
<1>3. TypeOK'
  BY <1>1, <1>2 DEF TypeOK, SchedulerTypeOK, EstopTriggeredPendingState, PendingState,
                    TelemetrySlot
<1>4. RecordsAgree'
  BY <1>1, <1>2 DEF RecordsAgree, IsTriggered
<1>5. QueueWithinCapacity' /\ ReasonStored' /\ ExactlyOnceInOrder'
  BY <1>1, <1>2, CapacityAssumption DEF QueueWithinCapacity, ReasonStored, ExactlyOnceInOrder
<1> QED
  BY <1>3, <1>4, <1>5

-----------------------------------------------------------------------------
LEMMA StepIInv == IInv /\ [ChannelNext]_channelVars => IInv'
<1> SUFFICES ASSUME IInv, [ChannelNext]_channelVars PROVE IInv'
  OBVIOUS
<1>1. ASSUME NEW r \in Reasons, requestEstopTriggered(r) PROVE IInv'
  BY <1>1, RequestPreserves
<1>2. ASSUME NEW c \in Conns, ServiceQueues(c) PROVE IInv'
  BY <1>2, ServiceQueuesPreserves
<1>3. CASE ServiceSaturated
  BY <1>3, ServiceSaturatedPreserves
<1>4. ASSUME NEW k \in CriticalKind, NEW c \in Conns, EnqueueAnswer(k, c) PROVE IInv'
  BY <1>4, EnqueueAnswerPreserves
<1>5. ASSUME NEW c \in Conns, QueueTelemetry(c) PROVE IInv'
  BY <1>5, TelemetryPreserves DEF QueueTelemetry, replaceTelemetry, TelemetrySlot
<1>6. ASSUME NEW i \in 1..CriticalCapacity, NEW sent \in BOOLEAN, DrainCritical(i, sent)
      PROVE IInv'
  BY <1>6, DrainCriticalPreserves
<1>7. CASE DrainTelemetry
  BY <1>7, TelemetryPreserves DEF DrainTelemetry, TelemetrySlot
<1>8. CASE CancelAll
  BY <1>8, CancelAllPreserves
<1>9. CASE UNCHANGED channelVars
  BY <1>9 DEF IInv, TypeOK, SchedulerTypeOK, QueueWithinCapacity, RecordsAgree, IsTriggered,
              ReasonStored, ExactlyOnceInOrder, channelVars, schedulerVars, handlerVars
<1> QED
  BY <1>1, <1>2, <1>3, <1>4, <1>5, <1>6, <1>7, <1>8, <1>9 DEF ChannelNext

LEMMA ChannelIInv == ChannelSpec => []IInv
  BY InitIInv, StepIInv, PTL DEF ChannelSpec

\* The scheduler's and the handler's variables keep their types.
THEOREM ChannelTypeCorrect == ChannelSpec => []TypeOK
<1>1. IInv => TypeOK
  BY DEF IInv
<1> QED
  BY <1>1, ChannelIInv, PTL

\* The critical array never overflows and the two records of the e-stop event
\* agree between calls, for every capacity and every caller.
THEOREM ChannelConsistent == ChannelSpec => [](QueueWithinCapacity /\ RecordsAgree)
<1>1. IInv => QueueWithinCapacity /\ RecordsAgree
  BY DEF IInv
<1> QED
  BY <1>1, ChannelIInv, PTL

\* No accepted board-local e-stop is lost, duplicated or reordered, and at most
\* one is outstanding.
THEOREM ChannelExactlyOnce == ChannelSpec => []ExactlyOnceInOrder
<1>1. IInv => ExactlyOnceInOrder
  BY DEF IInv
<1> QED
  BY <1>1, ChannelIInv, PTL

-----------------------------------------------------------------------------
\* A non-empty history extended by one reason differs from what it was.
LEMMA AppendDiffers ==
    ASSUME NEW S, NEW q \in Seq(S), NEW e \in S
    PROVE  Append(q, e) # q
<1>1. Len(Append(q, e)) = Len(q) + 1 /\ Len(q) \in Nat
  OBVIOUS
<1> QED
  BY <1>1

\* The channel implements the promise of EstopDelivery: every step of the
\* queueing machinery accepts the next request, delivers the outstanding one, or
\* is invisible to the application.
THEOREM ChannelImplementsDelivery == ChannelSpec => ImplementsDelivery
<1>1. ChannelInit => Delivery!Init
  BY DEF ChannelInit, Delivery!Init
<1>2. IInv /\ [ChannelNext]_channelVars => [Delivery!Next]_<<accepted, delivered>>
  <2> SUFFICES ASSUME IInv, [ChannelNext]_channelVars,
                      ~ UNCHANGED <<accepted, delivered>>
               PROVE  Delivery!Next
    OBVIOUS
  <2>1. ASSUME NEW r \in Reasons, requestEstopTriggered(r) PROVE Delivery!Next
    <3>1. Delivery!Accept(r)
      BY <2>1 DEF IInv, ExactlyOnceInOrder, requestEstopTriggered, Delivery!Accept
    <3> QED
      BY <3>1 DEF Delivery!Next
  <2>2. ASSUME NEW i \in 1..CriticalCapacity, NEW sent \in BOOLEAN, DrainCritical(i, sent)
        PROVE  Delivery!Next
    <3>1. accepted' = accepted /\ delivered' # delivered
      BY <2>2 DEF DrainCritical
    <3>2. /\ sent /\ critical[i].kind = "EstopTriggered"
          /\ delivered' = Append(delivered, critical[i].reason)
      BY <2>2, <3>1 DEF DrainCritical
    <3>3. i \in 1..Len(critical)
      BY <2>2 DEF DrainCritical, selectCriticalIndex
    <3>4. estop_state = "QueuedAwaitingCompletion" /\ critical[i].reason = reason
      BY <3>2, <3>3 DEF IInv, RecordsAgree, IsTriggered
    <3>5. reason \in Reasons /\ accepted = Append(delivered, reason) /\ delivered \in Seq(Reasons)
      BY <3>4 DEF IInv, ReasonStored, ExactlyOnceInOrder, TypeOK
    <3>6. accepted # delivered
      BY <3>5, AppendDiffers
    <3> QED
      BY <3>1, <3>2, <3>4, <3>5, <3>6 DEF Delivery!Next, Delivery!Deliver
  <2>3. \/ \E r \in Reasons : requestEstopTriggered(r)
        \/ \E i \in 1..CriticalCapacity, sent \in BOOLEAN : DrainCritical(i, sent)
    BY DEF ChannelNext, ServiceQueues, ServiceSaturated, EnqueueAnswer, QueueTelemetry,
           DrainTelemetry, CancelAll, channelVars, handlerVars
  <2> QED
    BY <2>1, <2>2, <2>3
<1> QED
  BY <1>1, <1>2, ChannelIInv, PTL DEF ChannelSpec, ImplementsDelivery, Delivery!Spec

-----------------------------------------------------------------------------
(***************************************************************************)
(* The service loop.                                                       *)
(***************************************************************************)

\* The variables of the pass keep their types (owed is treated with the queue).
PassTypeOK ==
    /\ DriverTypeOK
    /\ pc \in Step
    /\ acquired \in BOOLEAN /\ drained \in BOOLEAN
    /\ candidate \in Conns \cup {NoConn}
    /\ resume \in {"idle", "nextLine"}
    /\ first_frame_due \in BOOLEAN
    /\ owed \in [AnswerKind -> Nat]

\* Between two steps of a pass the driver is starting, listening, in a session
\* or closing one, and which of these the other variables tell as well.
StateDetermined ==
    /\ state \in {"NETWORK_STARTING", "LISTENING", "SESSION_ACTIVE", "SESSION_CLOSING"}
    /\ teardown_pending <=> state = "SESSION_CLOSING"
    /\ active_handle # NoConn <=> state \in {"SESSION_ACTIVE", "SESSION_CLOSING"}
    /\ state = "SESSION_ACTIVE" => active_handle \in introduced

\* Where in a pass a teardown can be pending and a connection held.
StepDetermined ==
    /\ teardown_pending => pc \in {"nextLine", "cancel", "apply"}
    /\ pc \in {"cancel", "apply"} => teardown_pending
    /\ replacement_handle # NoConn => teardown_pending
    /\ candidate # NoConn <=> pc = "promote"
    /\ pc = "promote" => state = "LISTENING"
    /\ pc = "apply" => critical = <<>> /\ telemetry = <<>>

\* The framer only holds lines of the connection being served.
LinesBelongToSession == \A i \in 1..Len(framed) : framed[i].conn = active_handle

\* A line acquired in this pass stays the head of the framer, in its session,
\* until it is processed.
AcquiredLine ==
    /\ pc = "processLine" => acquired
    /\ acquired /\ pc \in {"telemetryDue", "safetyDue", "drainFirst", "processLine"}
           => state = "SESSION_ACTIVE" /\ framed # <<>>

Held == {active_handle, replacement_handle, candidate} \ {NoConn}

\* A connection is waiting, held or done with, once, and the loss hook has not
\* run for one that waits or is held.
ConnectionsFresh ==
    /\ \A c \in Conns : peer[c] = "away" => hook_runs[c] = 0
    /\ \A i \in 1..Len(backlog) :
          /\ peer[backlog[i]] # "away" /\ hook_runs[backlog[i]] = 0
          /\ backlog[i] \notin Held
    /\ \A i, j \in 1..Len(backlog) : backlog[i] = backlog[j] => i = j
    /\ \A c \in Held : peer[c] # "away" /\ hook_runs[c] = 0
    /\ active_handle # NoConn => active_handle \notin {replacement_handle, candidate}
    /\ replacement_handle # NoConn => replacement_handle # candidate

\* The inductive invariant of the driver and the pass.
DInv ==
    /\ PassTypeOK
    /\ StateDetermined
    /\ StepDetermined
    /\ OutboundBelongsToSession
    /\ LinesBelongToSession
    /\ AcquiredLine
    /\ SessionsAccounted
    /\ AnswersAccounted
    /\ RoomForAnswer
    /\ ConnectionsFresh

-----------------------------------------------------------------------------
(***************************************************************************)
(* The operators.                                                          *)
(***************************************************************************)

\* The transitions the driver makes; SESSION_CONNECTED is left in the step
\* that enters it.
LEMMA Transitions ==
    /\ After("NETWORK_STARTING", "LISTENING") = "LISTENING"
    /\ After("SESSION_ACTIVE", "SESSION_CLOSING") = "SESSION_CLOSING"
    /\ After("SESSION_CLOSING", "LISTENING") = "LISTENING"
    /\ After(After("LISTENING", "SESSION_CONNECTED"), "SESSION_ACTIVE") = "SESSION_ACTIVE"
    /\ After(After("LISTENING", "SESSION_CONNECTED"), "SESSION_CLOSING") = "SESSION_CLOSING"
  BY DEF After, isValidTransition

\* Taking the oldest waiting connection.
LEMMA TailProperties ==
    ASSUME NEW S, NEW q \in Seq(S), q # <<>>
    PROVE  /\ Head(q) = q[1] /\ Head(q) \in S
           /\ Tail(q) \in Seq(S)
           /\ Len(q) \in Nat \ {0} /\ Len(Tail(q)) = Len(q) - 1
           /\ \A j \in 1..(Len(q) - 1) : Tail(q)[j] = q[j + 1]
  OBVIOUS

KindsAt(q, k) == {i \in 1..Len(q) : q[i].kind = k}

LEMMA KindsAtFinite ==
    ASSUME NEW q \in Seq(Entry), NEW k
    PROVE  IsFiniteSet(KindsAt(q, k)) /\ Cardinality(KindsAt(q, k)) \in Nat
<1>1. Len(q) \in Nat
  OBVIOUS
<1>2. IsFiniteSet(1..Len(q))
  BY <1>1, FS_Interval
<1>3. KindsAt(q, k) \in SUBSET (1..Len(q))
  BY DEF KindsAt
<1>4. IsFiniteSet(KindsAt(q, k))
  BY <1>2, <1>3, FS_Subset
<1> QED
  BY <1>4, FS_CardinalityType

\* Queueing a message adds one to the count of its kind, and to no other.
LEMMA CountAppend ==
    ASSUME NEW q \in Seq(Entry), NEW e \in Entry, NEW k
    PROVE  Cardinality(KindsAt(Append(q, e), k)) =
              Cardinality(KindsAt(q, k)) + (IF e.kind = k THEN 1 ELSE 0)
<1>1. /\ Len(Append(q, e)) = Len(q) + 1 /\ Len(q) \in Nat
      /\ \A j \in 1..Len(q) : Append(q, e)[j] = q[j]
      /\ Append(q, e)[Len(q) + 1] = e
  BY AppendProperties
<1>2. IsFiniteSet(KindsAt(q, k)) /\ Cardinality(KindsAt(q, k)) \in Nat
  BY KindsAtFinite
<1>3. CASE e.kind = k
  <2>1. KindsAt(Append(q, e), k) = KindsAt(q, k) \cup {Len(q) + 1}
    BY <1>1, <1>3 DEF KindsAt
  <2>2. Len(q) + 1 \notin KindsAt(q, k)
    BY <1>1 DEF KindsAt
  <2> QED
    BY <1>2, <1>3, <2>1, <2>2, FS_AddElement
<1>4. CASE e.kind # k
  <2>1. KindsAt(Append(q, e), k) = KindsAt(q, k)
    BY <1>1, <1>4 DEF KindsAt
  <2> QED
    BY <1>2, <1>4, <2>1
<1> QED
  BY <1>3, <1>4

\* Removing a message takes one from the count of its kind, and from no other.
LEMMA CountWithout ==
    ASSUME NEW q \in Seq(Entry), NEW i \in 1..Len(q), NEW k
    PROVE  Cardinality(KindsAt(Without(q, i), k)) =
              Cardinality(KindsAt(q, k)) - (IF q[i].kind = k THEN 1 ELSE 0)
<1>1. /\ Without(q, i) \in Seq(Entry)
      /\ Len(Without(q, i)) = Len(q) - 1
      /\ \A j \in 1..(Len(q) - 1) : Without(q, i)[j] = IF j < i THEN q[j] ELSE q[j + 1]
  BY WithoutProperties
<1>0. Len(q) \in Nat
  OBVIOUS
<1> DEFINE A == KindsAt(Without(q, i), k)
           B == KindsAt(q, k) \ {i}
           f == [j \in A |-> IF j < i THEN j ELSE j + 1]
<1>2. IsFiniteSet(A) /\ IsFiniteSet(KindsAt(q, k)) /\ Cardinality(KindsAt(q, k)) \in Nat
  BY <1>1, KindsAtFinite
<1>3. f \in [A -> B]
  BY <1>0, <1>1 DEF KindsAt
<1>4. \A x, y \in A : f[x] = f[y] => x = y
  BY <1>0, <1>1 DEF KindsAt
<1>5. \A y \in B : \E x \in A : f[x] = y
  <2> SUFFICES ASSUME NEW y \in B PROVE \E x \in A : f[x] = y
    OBVIOUS
  <2> DEFINE x == IF y < i THEN y ELSE y - 1
  <2>1. y \in 1..Len(q) /\ y # i /\ q[y].kind = k
    BY DEF KindsAt
  <2>2. x \in 1..(Len(q) - 1) /\ (IF x < i THEN x ELSE x + 1) = y
    BY <1>0, <1>1, <2>1
  <2>3. x \in A
    BY <1>0, <1>1, <2>1, <2>2 DEF KindsAt
  <2> QED
    BY <2>2, <2>3
<1>6. ExistsBijection(A, B)
  <2> HIDE DEF A, B, f
  <2>1. f \in Bijection(A, B)
    BY <1>3, <1>4, <1>5 DEF Bijection, Injection, Surjection, IsInjective
  <2> QED
    BY <2>1 DEF ExistsBijection
<1>7. Cardinality(B) = Cardinality(A)
  BY <1>2, <1>6, FS_Bijection
<1>8. Cardinality(B) = IF i \in KindsAt(q, k) THEN Cardinality(KindsAt(q, k)) - 1
                       ELSE Cardinality(KindsAt(q, k))
  BY <1>2, FS_RemoveElement
<1>9. i \in KindsAt(q, k) <=> q[i].kind = k
  BY DEF KindsAt
<1> QED
  BY <1>2, <1>7, <1>8, <1>9

LEMMA CountEmpty == \A k : Cardinality(KindsAt(<<>>, k)) = 0
  BY FS_EmptySet DEF KindsAt

\* The answers a line may earn: none, or one of an answer kind.
LEMMA AnswerForms ==
    ASSUME NEW kind, NEW answer \in Answers(kind), answer # <<>>
    PROVE  /\ answer[1] \in AnswerKind
           /\ answer[1] \in CriticalKind /\ answer[1] # "EstopTriggered"
  BY DEF Answers, dispatch, handleEstop, handleHeartbeat, AnswerKind, CriticalKind

-----------------------------------------------------------------------------
(***************************************************************************)
(* The loop drives the e-stop channel as ChannelNext allows.               *)
(***************************************************************************)
Inv == IInv /\ DInv

\* What is known in an active session.
LEMMA InSession ==
    ASSUME Inv, state = "SESSION_ACTIVE"
    PROVE  /\ active_handle \in Conns /\ active_handle # NoConn
           /\ active_handle \in introduced
           /\ ~teardown_pending /\ sessionActive
           /\ replacement_handle = NoConn /\ candidate = NoConn
<1> USE DEF Inv, DInv, PassTypeOK, DriverTypeOK, StateDetermined, StepDetermined
<1>1. active_handle # NoConn /\ ~teardown_pending /\ active_handle \in introduced
  OBVIOUS
<1>2. active_handle \in Conns /\ sessionActive
  BY <1>1 DEF sessionActive
<1>3. replacement_handle = NoConn /\ candidate = NoConn
  BY <1>1
<1> QED
  BY <1>1, <1>2, <1>3

\* Without a connection nothing is queued and no line is held.
LEMMA OutOfSession ==
    ASSUME Inv, active_handle = NoConn
    PROVE  critical = <<>> /\ telemetry = <<>> /\ framed = <<>>
<1>1. /\ critical \in Seq(Entry)
      /\ telemetry \in TelemetrySlot
      /\ framed \in Seq(Line)
  BY DEF Inv, IInv, TypeOK, SchedulerTypeOK, DInv, PassTypeOK, DriverTypeOK
<1>2. /\ \A i \in 1..Len(critical) : critical[i].conn = NoConn
      /\ \A i \in 1..Len(framed) : framed[i].conn = NoConn
      /\ telemetry # <<>> => telemetry[1] = NoConn
  BY DEF Inv, DInv, OutboundBelongsToSession, LinesBelongToSession
<1>3. critical = <<>>
  <2> SUFFICES ASSUME critical # <<>> PROVE FALSE
    OBVIOUS
  <2>1. 1 \in 1..Len(critical)
    BY <1>1
  <2>2. critical[1] \in Entry
    BY <1>1, <2>1
  <2> QED
    BY <1>2, <2>1, <2>2, NoConnAssumption DEF Entry
<1>4. framed = <<>>
  <2> SUFFICES ASSUME framed # <<>> PROVE FALSE
    OBVIOUS
  <2>1. 1 \in 1..Len(framed)
    BY <1>1
  <2>2. framed[1] \in Line
    BY <1>1, <2>1
  <2> QED
    BY <1>2, <2>1, <2>2, NoConnAssumption DEF Line
<1>5. telemetry = <<>>
  BY <1>1, <1>2, NoConnAssumption DEF TelemetrySlot
<1> QED
  BY <1>3, <1>4, <1>5

\* A line is processed in an active session only.
LEMMA Processing ==
    ASSUME Inv, pc = "processLine"
    PROVE  state = "SESSION_ACTIVE" /\ framed # <<>>
  BY DEF Inv, DInv, AcquiredLine

LEMMA DrainUsesChannel ==
    ASSUME Inv, DrainOne
    PROVE  [ChannelNext]_channelVars
<1>1. CASE DrainTelemetry
  BY <1>1 DEF ChannelNext
<1>2. ASSUME NEW sent \in BOOLEAN, NEW i \in 1..Len(critical), DrainCritical(i, sent)
      PROVE  ChannelNext
  <2>1. critical \in Seq(Entry) /\ Len(critical) <= CriticalCapacity
    BY DEF Inv, IInv, TypeOK, SchedulerTypeOK, QueueWithinCapacity
  <2>2. i \in 1..CriticalCapacity
    BY <2>1, CapacityAssumption
  <2> QED
    BY <1>2, <2>2 DEF ChannelNext
<1> QED
  BY <1>1, <1>2 DEF DrainOne

LEMMA StepUsesChannel ==
    ASSUME Inv, [Next]_vars
    PROVE  [ChannelNext]_channelVars
<1>1. CASE Poll \/ PollAccept \/ Promote \/ NextLine \/ Apply \/ Network
  BY <1>1 DEF Poll, PollAccept, Promote, NextLine, Apply, Network
<1>2. CASE TelemetryDue
  <2>1. CASE telemetrySessionActive /\ QueueTelemetry(active_handle)
    BY <2>1, InSession DEF telemetrySessionActive, sessionActive, ChannelNext
  <2> QED
    BY <1>2, <2>1 DEF TelemetryDue, TelemetryService, buildAndQueue
<1>3. CASE SafetyDue
  <2>1. CASE telemetrySessionActive /\ ServiceQueues(active_handle)
    BY <2>1, InSession DEF telemetrySessionActive, sessionActive, ChannelNext
  <2>2. CASE ServiceSaturated
    BY <2>2 DEF ChannelNext
  <2> QED
    BY <1>3, <2>1, <2>2 DEF SafetyDue
<1>4. CASE DrainFirst \/ DrainAfter
  BY <1>4, DrainUsesChannel DEF DrainFirst, DrainAfter
<1>5. CASE ProcessLine
  <2>1. PICK answer \in Answers(Head(framed).kind) :
           \/ UNCHANGED channelVars
           \/ answer # <<>> /\ EnqueueAnswer(answer[1], active_handle)
    BY <1>5 DEF ProcessLine
  <2>2. CASE answer # <<>> /\ EnqueueAnswer(answer[1], active_handle)
    <3>1. active_handle \in Conns
      BY <1>5, Processing, InSession DEF ProcessLine
    <3>2. answer[1] \in CriticalKind
      BY <2>2, AnswerForms
    <3> QED
      BY <2>2, <3>1, <3>2 DEF ChannelNext
  <2> QED
    BY <2>1, <2>2
<1>6. CASE Cancel
  BY <1>6 DEF Cancel, ChannelNext
<1>7. CASE Application
  BY <1>7 DEF Application, ChannelNext
<1>8. CASE UNCHANGED vars
  BY <1>8 DEF vars
<1> QED
  BY <1>1, <1>2, <1>3, <1>4, <1>5, <1>6, <1>7, <1>8 DEF Next, ServicePass

-----------------------------------------------------------------------------
(***************************************************************************)
(* What a step that leaves some variables alone preserves.                 *)
(***************************************************************************)
LEMMA FreshSame ==
    ASSUME ConnectionsFresh,
           UNCHANGED <<peer, backlog, hook_runs, active_handle, replacement_handle, candidate>>
    PROVE  ConnectionsFresh'
  BY DEF ConnectionsFresh, Held

LEMMA QueueSame ==
    ASSUME OutboundBelongsToSession, AnswersAccounted,
           UNCHANGED <<critical, telemetry, active_handle, owed>>,
           ~teardown_pending' => ~teardown_pending
    PROVE  OutboundBelongsToSession' /\ AnswersAccounted'
  BY DEF OutboundBelongsToSession, AnswersAccounted, Count

LEMMA LinesSame ==
    ASSUME LinesBelongToSession, UNCHANGED <<framed, active_handle>>
    PROVE  LinesBelongToSession'
  BY DEF LinesBelongToSession

LEMMA AccountsSame ==
    ASSUME SessionsAccounted,
           UNCHANGED <<sessions_accepted, controller_disconnects, active_handle,
                       replacement_handle, candidate>>
    PROVE  SessionsAccounted'
  BY DEF SessionsAccounted

\* The oldest waiting connection is taken (and perhaps held): the others wait on.
LEMMA FreshTake ==
    ASSUME ConnectionsFresh, backlog \in Seq(Conns), backlog # <<>>,
           backlog' = Tail(backlog),
           UNCHANGED <<peer, hook_runs>>,
           Held' \subseteq Held \cup {Head(backlog)}
    PROVE  /\ \A c \in Conns : peer'[c] = "away" => hook_runs'[c] = 0
           /\ \A i \in 1..Len(backlog') :
                 /\ peer'[backlog'[i]] # "away" /\ hook_runs'[backlog'[i]] = 0
                 /\ backlog'[i] \notin Held'
           /\ \A i, j \in 1..Len(backlog') : backlog'[i] = backlog'[j] => i = j
           /\ \A c \in Held' : peer'[c] # "away" /\ hook_runs'[c] = 0
<1>1. /\ Head(backlog) = backlog[1]
      /\ Len(backlog) \in Nat \ {0} /\ Len(backlog') = Len(backlog) - 1
      /\ \A j \in 1..(Len(backlog) - 1) : backlog'[j] = backlog[j + 1]
  BY TailProperties
<1>2. \A i \in 1..Len(backlog') : i + 1 \in 1..Len(backlog) /\ i + 1 # 1
                                  /\ backlog'[i] = backlog[i + 1]
  BY <1>1
<1>3. 1 \in 1..Len(backlog)
  BY <1>1
<1>4. \A i, j \in 1..Len(backlog') : backlog'[i] = backlog'[j] => i = j
  BY <1>1, <1>2 DEF ConnectionsFresh
<1>5. \A i \in 1..Len(backlog') : backlog'[i] # Head(backlog)
  BY <1>1, <1>2, <1>3 DEF ConnectionsFresh
<1>6. \A i \in 1..Len(backlog') :
          /\ peer'[backlog'[i]] # "away" /\ hook_runs'[backlog'[i]] = 0
          /\ backlog'[i] \notin Held
  BY <1>2 DEF ConnectionsFresh
<1>7. \A c \in Held' : peer'[c] # "away" /\ hook_runs'[c] = 0
  BY <1>1, <1>3 DEF ConnectionsFresh
<1>8. \A c \in Conns : peer'[c] = "away" => hook_runs'[c] = 0
  BY DEF ConnectionsFresh
<1> QED
  BY <1>4, <1>5, <1>6, <1>7, <1>8

\* Asking for the teardown of an active session moves the driver to closing.
LEMMA TeardownCloses ==
    ASSUME Inv, state = "SESSION_ACTIVE", requestTeardown
    PROVE  state' = "SESSION_CLOSING" /\ teardown_pending' = TRUE
  BY InSession, Transitions DEF requestTeardown, transitionTo

-----------------------------------------------------------------------------
(***************************************************************************)
(* Every step of the pass preserves the invariant.                         *)
(***************************************************************************)
LEMMA InitInv == Init => Inv
<1> SUFFICES ASSUME Init PROVE Inv
  OBVIOUS
<1> USE DEF Init, DriverInit
<1>1. IInv /\ critical = <<>> /\ telemetry = <<>>
  BY InitIInv DEF ChannelInit, SchedulerInit
<1>2. PassTypeOK
  <2>1. peer \in [Conns -> {"away", "open", "closing", "closed"}] /\ hook_runs \in [Conns -> Nat]
    OBVIOUS
  <2>2. owed \in [AnswerKind -> Nat]
    BY DEF NothingOwed
  <2>3. backlog \in Seq(Conns) /\ framed \in Seq(Line) /\ Len(framed) <= 2
    OBVIOUS
  <2>4. streak \in 0..TelemetryStreakLimit
    BY StreakAssumption
  <2> QED
    BY <2>1, <2>2, <2>3, <2>4 DEF PassTypeOK, DriverTypeOK, SessionState, Step
<1>3. StateDetermined /\ StepDetermined /\ AcquiredLine /\ LinesBelongToSession
  BY DEF StateDetermined, StepDetermined, AcquiredLine, LinesBelongToSession
<1>4. OutboundBelongsToSession /\ SessionsAccounted /\ RoomForAnswer
  BY <1>1 DEF OutboundBelongsToSession, SessionsAccounted, RoomForAnswer
<1>5. \A k \in AnswerKind : owed[k] = Count(k)
  BY <1>1, CountEmpty DEF Count, KindsAt, NothingOwed
<1>6. ConnectionsFresh
  BY DEF ConnectionsFresh, Held
<1> QED
  BY <1>1, <1>2, <1>3, <1>4, <1>5, <1>6 DEF Inv, DInv, AnswersAccounted

\* The driver looks at its connection: it finds it lost and asks for the
\* teardown, or reads up to two lines of it.
LEMMA ReadStep ==
    ASSUME Inv, state = "SESSION_ACTIVE", detectActiveLoss \/ readAvailable,
           UNCHANGED <<critical, telemetry, candidate, owed>>
    PROVE  /\ DriverTypeOK' /\ StateDetermined' /\ LinesBelongToSession'
           /\ OutboundBelongsToSession' /\ AnswersAccounted' /\ SessionsAccounted'
           /\ ConnectionsFresh'
           /\ UNCHANGED <<active_handle, replacement_handle>>
           /\ (state' = "SESSION_CLOSING" /\ teardown_pending' = TRUE)
                 \/ UNCHANGED <<state, teardown_pending>>
<1> USE DEF Inv, DInv, PassTypeOK
<1>1. active_handle \in Conns /\ active_handle # NoConn /\ ~teardown_pending
  BY InSession
<1>2. CASE detectActiveLoss
  <2>1. /\ state' = "SESSION_CLOSING" /\ teardown_pending' = TRUE
        /\ UNCHANGED <<peer, backlog, link, listening, active_handle, replacement_handle, framed,
                       streak, introduced, hook_runs, sessions_accepted, controller_disconnects>>
    BY <1>2, TeardownCloses DEF detectActiveLoss, netVars, historyVars
  <2>2. DriverTypeOK'
    BY <2>1 DEF DriverTypeOK, SessionState
  <2>3. StateDetermined'
    BY <1>1, <2>1 DEF StateDetermined
  <2> QED
    BY <2>1, <2>2, <2>3, FreshSame, QueueSame, LinesSame, AccountsSame
<1>3. CASE readAvailable
  <2>1. UNCHANGED <<backlog, link, listening, state, active_handle, replacement_handle,
                    teardown_pending, streak, introduced, hook_runs, sessions_accepted,
                    controller_disconnects>>
    BY <1>3 DEF readAvailable, historyVars
  <2>2. framed' \in Seq(Line) /\ Len(framed') <= 2 /\ LinesBelongToSession'
    <3>1. CASE framed' = framed
      BY <2>1, <3>1, LinesSame DEF DriverTypeOK
    <3>2. ASSUME NEW n \in 0..2, NEW ks \in [1..n -> LineKinds],
                 framed' = [i \in 1..n |-> [kind |-> ks[i], conn |-> active_handle]]
          PROVE  framed' \in Seq(Line) /\ Len(framed') <= 2 /\ LinesBelongToSession'
      <4>1. framed' \in [1..n -> Line]
        BY <1>1, <3>2 DEF Line
      <4>2. framed' \in Seq(Line) /\ Len(framed') = n
        BY <4>1
      <4> QED
        BY <2>1, <3>2, <4>2 DEF LinesBelongToSession
    <3> QED
      BY <1>3, <3>1, <3>2 DEF readAvailable
  <2>3. /\ peer' \in [Conns -> {"away", "open", "closing", "closed"}]
        /\ \A c \in Conns : peer'[c] = "away" <=> peer[c] = "away"
    BY <1>1, <1>3 DEF readAvailable, DriverTypeOK, ConnectionsFresh, Held
  <2>4. DriverTypeOK'
    BY <2>1, <2>2, <2>3 DEF DriverTypeOK
  <2>5. StateDetermined'
    BY <2>1 DEF StateDetermined
  <2>6. ConnectionsFresh'
    <3>1. Held' = Held /\ Held \subseteq Conns
      BY <2>1 DEF Held, DriverTypeOK
    <3>2. \A i \in 1..Len(backlog) : backlog[i] \in Conns
      BY DEF DriverTypeOK
    <3> QED
      BY <2>1, <2>3, <3>1, <3>2 DEF ConnectionsFresh
  <2> QED
    BY <2>1, <2>2, <2>4, <2>5, <2>6, QueueSame, AccountsSame
<1> QED
  BY <1>2, <1>3

LEMMA PollPreserves ==
    ASSUME Inv, Poll
    PROVE  DInv'
<1> USE DEF Inv, DInv
<1>1. /\ pc = "idle" /\ pc' = "nextLine" /\ acquired' = FALSE /\ drained' = FALSE
      /\ UNCHANGED <<critical, telemetry, candidate, resume, first_frame_due, owed>>
  BY DEF Poll, channelVars, schedulerVars
<1>2. ~teardown_pending /\ replacement_handle = NoConn /\ candidate = NoConn
  BY <1>1 DEF StepDetermined
<1>3. AcquiredLine' /\ RoomForAnswer'
  BY <1>1 DEF AcquiredLine, RoomForAnswer
<1>4. backlog \in Seq(Conns)
  BY DEF PassTypeOK, DriverTypeOK
<1>5. CASE pumpNetworkStarting
  <2> USE <1>5 DEF pumpNetworkStarting, historyVars
  <2>1. /\ state = "NETWORK_STARTING" /\ state' \in {"NETWORK_STARTING", "LISTENING"}
        /\ listening' \in BOOLEAN
    BY Transitions DEF transitionTo, PassTypeOK, DriverTypeOK
  <2>2. PassTypeOK'
    BY <1>1, <2>1 DEF PassTypeOK, DriverTypeOK, SessionState, Step
  <2>3. StateDetermined' /\ StepDetermined'
    BY <1>1, <1>2, <2>1 DEF StateDetermined, StepDetermined
  <2> QED
    BY <1>1, <1>3, <2>2, <2>3, FreshSame, QueueSame, LinesSame, AccountsSame
<1>6. CASE pumpListening_Idle
  <2> USE <1>6 DEF pumpListening_Idle, historyVars, driverVars
  <2>1. state = "LISTENING" /\ listening' \in BOOLEAN
    BY DEF Relisten, PassTypeOK, DriverTypeOK
  <2>2. PassTypeOK'
    BY <1>1, <2>1 DEF PassTypeOK, DriverTypeOK, Step
  <2>3. StateDetermined' /\ StepDetermined'
    BY <1>1, <1>2, <2>1 DEF StateDetermined, StepDetermined
  <2> QED
    BY <1>1, <1>3, <2>2, <2>3, FreshSame, QueueSame, LinesSame, AccountsSame
<1>7. CASE pumpListening_Reject \/ acceptReplacement_Reject
  <2>1. /\ backlog # <<>> /\ listening' \in BOOLEAN
        /\ RejectPending
    BY <1>7 DEF pumpListening_Reject, acceptReplacement_Reject, Relisten, PassTypeOK,
                DriverTypeOK, hasPendingConnection
  <2>2. /\ backlog' = Tail(backlog) /\ Tail(backlog) \in Seq(Conns)
        /\ UNCHANGED <<peer, link, state, active_handle, replacement_handle, teardown_pending,
                       framed, streak, introduced, hook_runs, sessions_accepted,
                       controller_disconnects>>
    BY <1>4, <2>1, TailProperties DEF RejectPending, driverVars, historyVars
  <2>3. PassTypeOK'
    BY <1>1, <2>1, <2>2 DEF PassTypeOK, DriverTypeOK, Step
  <2>4. StateDetermined' /\ StepDetermined'
    BY <1>1, <1>2, <2>2 DEF StateDetermined, StepDetermined
  <2>5. ConnectionsFresh'
    <3>1. Held' = Held
      BY <1>1, <2>2 DEF Held
    <3> QED
      BY <1>1, <1>2, <1>4, <2>1, <2>2, <3>1, FreshTake DEF ConnectionsFresh
  <2> QED
    BY <1>1, <1>3, <2>2, <2>3, <2>4, <2>5, QueueSame, LinesSame, AccountsSame
<1>8. CASE acceptReplacement
  <2>1. state = "SESSION_ACTIVE"
    BY <1>8 DEF acceptReplacement, StateDetermined
  <2>2. /\ backlog # <<>> /\ backlog' = Tail(backlog)
        /\ sessions_accepted' = sessions_accepted + 1
        /\ replacement_handle' = Head(backlog)
        /\ requestTeardown
        /\ UNCHANGED <<peer, link, listening, active_handle, framed, streak, introduced,
                       hook_runs, controller_disconnects>>
    BY <1>8 DEF acceptReplacement, hasPendingConnection
  <2>3. state' = "SESSION_CLOSING" /\ teardown_pending' = TRUE
    BY <2>1, <2>2, TeardownCloses
  <2>4. Head(backlog) \in Conns /\ Head(backlog) # NoConn /\ Tail(backlog) \in Seq(Conns)
    BY <1>4, <2>2, TailProperties, NoConnAssumption
  <2>5. active_handle # NoConn /\ active_handle \in Conns /\ active_handle # Head(backlog)
    <3>1. active_handle \in Conns /\ active_handle # NoConn
      BY <2>1, InSession
    <3>2. 1 \in 1..Len(backlog) /\ Head(backlog) = backlog[1]
      BY <1>4, <2>2, TailProperties
    <3> QED
      BY <3>1, <3>2 DEF ConnectionsFresh, Held
  <2>6. PassTypeOK'
    <3>1. sessions_accepted' \in Nat /\ replacement_handle' \in Conns \cup {NoConn}
          /\ backlog' \in Seq(Conns) /\ state' \in SessionState /\ teardown_pending' \in BOOLEAN
      BY <2>2, <2>3, <2>4 DEF PassTypeOK, DriverTypeOK, SessionState
    <3> QED
      BY <1>1, <2>2, <3>1 DEF PassTypeOK, DriverTypeOK, Step
  <2>7. StateDetermined' /\ StepDetermined'
    BY <1>1, <1>2, <2>2, <2>3, <2>5 DEF StateDetermined, StepDetermined
  <2>8. SessionsAccounted'
    BY <1>1, <1>2, <2>2, <2>4, <2>5 DEF SessionsAccounted, PassTypeOK, DriverTypeOK
  <2>9. ConnectionsFresh'
    <3>1. Held' \subseteq Held \cup {Head(backlog)}
      BY <1>1, <2>2 DEF Held
    <3> QED
      BY <1>1, <1>2, <1>4, <2>2, <2>4, <2>5, <3>1, FreshTake DEF ConnectionsFresh
  <2> QED
    BY <1>1, <1>3, <2>2, <2>3, <2>6, <2>7, <2>8, <2>9, QueueSame, LinesSame
<1>9. CASE pollSession
  <2>1. state = "SESSION_ACTIVE"
    BY <1>9 DEF pollSession, StateDetermined
  <2>2. detectActiveLoss \/ readAvailable
    BY <1>9 DEF pollSession
  <2>3. PassTypeOK'
    BY <1>1, <2>1, <2>2, ReadStep DEF PassTypeOK, Step
  <2>4. StepDetermined'
    BY <1>1, <1>2, <2>1, <2>2, ReadStep DEF StepDetermined
  <2> QED
    BY <1>1, <1>3, <2>1, <2>2, <2>3, <2>4, ReadStep
<1> QED
  BY <1>5, <1>6, <1>7, <1>8, <1>9 DEF Poll

LEMMA PollAcceptPreserves ==
    ASSUME Inv, PollAccept
    PROVE  DInv'
<1> USE DEF Inv, DInv
<1>1. PICK c \in Conns : pumpListening_Accept(c) /\ candidate' = c
  BY DEF PollAccept
<1>2. /\ pc = "idle" /\ pc' = "promote" /\ resume' = "nextLine"
      /\ acquired' = FALSE /\ drained' = FALSE
      /\ UNCHANGED <<critical, telemetry, first_frame_due, owed>>
  BY DEF PollAccept, channelVars, schedulerVars
<1>3. /\ state = "LISTENING" /\ listening' \in BOOLEAN /\ backlog # <<>>
      /\ c = Head(backlog) /\ backlog' = Tail(backlog)
      /\ sessions_accepted' = sessions_accepted + 1
      /\ UNCHANGED <<peer, link, state, active_handle, replacement_handle, teardown_pending,
                     framed, streak, introduced, hook_runs, controller_disconnects>>
  BY <1>1 DEF pumpListening_Accept, Relisten, driverVars, PassTypeOK, DriverTypeOK
<1>4. /\ ~teardown_pending /\ replacement_handle = NoConn /\ candidate = NoConn
      /\ active_handle = NoConn
  BY <1>2, <1>3 DEF StepDetermined, StateDetermined
<1>5. backlog \in Seq(Conns) /\ Tail(backlog) \in Seq(Conns) /\ c # NoConn
  BY <1>3, TailProperties, NoConnAssumption DEF PassTypeOK, DriverTypeOK
<1>6. PassTypeOK'
  <2>1. sessions_accepted' \in Nat /\ candidate' \in Conns \cup {NoConn}
        /\ backlog' \in Seq(Conns)
    BY <1>1, <1>3, <1>5 DEF PassTypeOK, DriverTypeOK
  <2> QED
    BY <1>2, <1>3, <2>1 DEF PassTypeOK, DriverTypeOK, Step
<1>7. StateDetermined' /\ StepDetermined'
  BY <1>1, <1>2, <1>3, <1>4, <1>5 DEF StateDetermined, StepDetermined
<1>8. AcquiredLine' /\ RoomForAnswer'
  BY <1>2 DEF AcquiredLine, RoomForAnswer
<1>9. SessionsAccounted'
  BY <1>1, <1>3, <1>4, <1>5 DEF SessionsAccounted, PassTypeOK, DriverTypeOK
<1>10. ConnectionsFresh'
  <2>1. Held' \subseteq Held \cup {Head(backlog)}
    BY <1>1, <1>3 DEF Held
  <2> QED
    BY <1>3, <1>4, <1>5, <2>1, FreshTake DEF ConnectionsFresh
<1> QED
  BY <1>2, <1>3, <1>6, <1>7, <1>8, <1>9, <1>10, QueueSame, LinesSame

LEMMA PromotePreserves ==
    ASSUME Inv, Promote
    PROVE  DInv'
<1> USE DEF Inv, DInv
<1>1. PICK sent \in BOOLEAN : /\ promoteAcceptedConnection(candidate, sent)
                              /\ pc' = IF sent THEN resume ELSE "apply"
  BY DEF Promote
<1>2. /\ pc = "promote" /\ candidate' = NoConn
      /\ UNCHANGED <<critical, telemetry, acquired, drained, resume, first_frame_due, owed>>
  BY DEF Promote, channelVars, schedulerVars
<1>3. /\ active_handle' = candidate /\ streak' = 0 /\ framed' = <<>>
      /\ UNCHANGED <<peer, backlog, link, listening, replacement_handle, hook_runs,
                     sessions_accepted, controller_disconnects>>
  BY <1>1 DEF promoteAcceptedConnection, netVars
<1>4. /\ state = "LISTENING" /\ candidate # NoConn /\ ~teardown_pending
      /\ active_handle = NoConn /\ replacement_handle = NoConn
      /\ resume \in {"idle", "nextLine"} /\ candidate \in Conns
  BY <1>2 DEF StateDetermined, StepDetermined, PassTypeOK
<1>5. critical = <<>> /\ telemetry = <<>>
  BY <1>4, OutOfSession
<1>6. \/ /\ sent /\ pc' = resume /\ state' = "SESSION_ACTIVE" /\ UNCHANGED teardown_pending
         /\ introduced' = introduced \cup {candidate}
      \/ /\ ~sent /\ pc' = "apply" /\ state' = "SESSION_CLOSING" /\ teardown_pending' = TRUE
         /\ UNCHANGED introduced
  BY <1>1, <1>4, Transitions DEF promoteAcceptedConnection, promote_Sent, promote_Failed
<1>7. PassTypeOK'
  <2>1. framed' \in Seq(Line) /\ Len(framed') <= 2 /\ streak' \in 0..TelemetryStreakLimit
    BY <1>3, StreakAssumption
  <2>2. introduced' \subseteq Conns /\ state' \in SessionState /\ teardown_pending' \in BOOLEAN
        /\ pc' \in Step
    BY <1>4, <1>6 DEF PassTypeOK, DriverTypeOK, SessionState, Step
  <2> QED
    BY <1>2, <1>3, <1>4, <2>1, <2>2 DEF PassTypeOK, DriverTypeOK
<1>8. StateDetermined'
  BY <1>3, <1>4, <1>6 DEF StateDetermined
<1>9. StepDetermined'
  BY <1>2, <1>3, <1>4, <1>5, <1>6 DEF StepDetermined
<1>10. OutboundBelongsToSession' /\ LinesBelongToSession'
  BY <1>2, <1>3, <1>5 DEF OutboundBelongsToSession, LinesBelongToSession
<1>11. AcquiredLine' /\ RoomForAnswer'
  BY <1>4, <1>6 DEF AcquiredLine, RoomForAnswer
<1>12. AnswersAccounted'
  BY <1>2, <1>4 DEF AnswersAccounted, Count
<1>13. SessionsAccounted'
  BY <1>2, <1>3, <1>4 DEF SessionsAccounted, PassTypeOK, DriverTypeOK
<1>14. ConnectionsFresh'
  <2>1. Held' = Held
    BY <1>2, <1>3, <1>4 DEF Held
  <2> QED
    BY <1>2, <1>3, <1>4, <2>1 DEF ConnectionsFresh
<1> QED
  BY <1>7, <1>8, <1>9, <1>10, <1>11, <1>12, <1>13, <1>14

LEMMA NextLinePreserves ==
    ASSUME Inv, NextLine
    PROVE  DInv'
<1> USE DEF Inv, DInv
<1>1. /\ pc = "nextLine" /\ candidate = NoConn
      /\ acquired' = (sessionActive /\ ~teardown_pending /\ framed' # <<>>)
      /\ pc' = IF teardown_pending' THEN "cancel" ELSE "telemetryDue"
      /\ UNCHANGED <<critical, telemetry, drained, candidate, resume, first_frame_due, owed>>
  BY DEF NextLine, channelVars, schedulerVars, StepDetermined
<1>2. acquired' \in BOOLEAN /\ pc' \in Step /\ pc' \in {"cancel", "telemetryDue"}
  BY <1>1 DEF Step
<1>3. RoomForAnswer'
  BY <1>2 DEF RoomForAnswer
<1>4. CASE UNCHANGED <<netVars, driverVars, historyVars>>
  <2>1. UNCHANGED <<peer, backlog, link, listening, state, active_handle, replacement_handle,
                    teardown_pending, framed, streak, introduced, hook_runs, sessions_accepted,
                    controller_disconnects>>
    BY <1>4 DEF netVars, driverVars, historyVars
  <2>2. PassTypeOK' /\ StateDetermined' /\ StepDetermined'
    BY <1>1, <1>2, <2>1 DEF PassTypeOK, DriverTypeOK, StateDetermined, StepDetermined
  <2>3. AcquiredLine'
    BY <1>1, <2>1 DEF AcquiredLine, sessionActive
  <2> QED
    BY <1>1, <1>3, <2>1, <2>2, <2>3, FreshSame, QueueSame, LinesSame, AccountsSame
<1>5. CASE sessionActive /\ (detectActiveLoss \/ readAvailable)
  <2>1. state = "SESSION_ACTIVE"
    BY <1>5 DEF sessionActive
  <2>2. ~teardown_pending /\ replacement_handle = NoConn
    BY <2>1, InSession
  <2>3. PassTypeOK'
    BY <1>1, <1>2, <1>5, <2>1, ReadStep DEF PassTypeOK
  <2>4. StepDetermined' /\ AcquiredLine'
    BY <1>1, <1>2, <1>5, <2>1, <2>2, ReadStep DEF StepDetermined, AcquiredLine
  <2> QED
    BY <1>1, <1>3, <1>5, <2>1, <2>3, <2>4, ReadStep
<1> QED
  BY <1>4, <1>5 DEF NextLine, nextLine

\* A step that touches neither the network, the driver nor the histories.
LEMMA DriverSame ==
    ASSUME Inv, UNCHANGED <<netVars, driverVars, historyVars>>
    PROVE  DriverTypeOK' /\ StateDetermined' /\ LinesBelongToSession'
  BY DEF Inv, DInv, PassTypeOK, DriverTypeOK, StateDetermined, LinesBelongToSession, netVars,
         driverVars, historyVars

LEMMA TelemetryDuePreserves ==
    ASSUME Inv, TelemetryDue
    PROVE  DInv'
<1> USE DEF Inv, DInv
<1>1. /\ pc = "telemetryDue" /\ pc' = "safetyDue"
      /\ UNCHANGED <<netVars, driverVars, historyVars, acquired, drained, candidate, resume, owed>>
  BY DEF TelemetryDue
<1>2. /\ UNCHANGED critical /\ first_frame_due' \in BOOLEAN
      /\ telemetry' = telemetry \/ telemetry' = <<active_handle>>
  BY DEF TelemetryDue, TelemetryService, buildAndQueue, QueueTelemetry, replaceTelemetry,
         onSessionInactive, channelVars, schedulerVars, PassTypeOK
<1>3. UNCHANGED <<state, active_handle, replacement_handle, teardown_pending, framed, peer,
                  backlog, hook_runs, sessions_accepted, controller_disconnects>>
  BY <1>1 DEF netVars, driverVars, historyVars
<1>4. PassTypeOK'
  BY <1>1, <1>2, DriverSame DEF PassTypeOK, Step
<1>5. StepDetermined' /\ AcquiredLine' /\ RoomForAnswer'
  BY <1>1, <1>3 DEF StepDetermined, AcquiredLine, RoomForAnswer
<1>6. OutboundBelongsToSession' /\ AnswersAccounted'
  BY <1>1, <1>2, <1>3 DEF OutboundBelongsToSession, AnswersAccounted, Count
<1> QED
  BY <1>1, <1>3, <1>4, <1>5, <1>6, DriverSame, FreshSame, AccountsSame

LEMMA SafetyDuePreserves ==
    ASSUME Inv, SafetyDue
    PROVE  DInv'
<1> USE DEF Inv, DInv
<1>1. /\ pc = "safetyDue" /\ ~teardown_pending /\ candidate = NoConn
      /\ replacement_handle = NoConn
      /\ UNCHANGED <<peer, backlog, link, listening, introduced, hook_runs, sessions_accepted,
                     controller_disconnects, acquired, drained, candidate, resume,
                     first_frame_due, owed>>
  BY DEF SafetyDue, StepDetermined, netVars, historyVars
<1>2. critical \in Seq(Entry) /\ reason \in Reasons \cup {NoReason}
  BY DEF IInv, TypeOK, SchedulerTypeOK
<1>3. CASE /\ state = "SESSION_ACTIVE"
           /\ ServiceQueues(active_handle) /\ pc' = "drainFirst" /\ UNCHANGED driverVars
  <2> DEFINE e == [kind |-> "EstopTriggered", conn |-> active_handle, reason |-> reason]
  <2>1. e \in Entry /\ e.kind = "EstopTriggered" /\ e.conn = active_handle
    BY <1>2, <1>3, InSession DEF Entry, CriticalKind
  <2>2. critical' = Append(critical, e) /\ UNCHANGED telemetry
    BY <1>3 DEF ServiceQueues, enqueueCritical
  <2>3. UNCHANGED <<state, active_handle, replacement_handle, teardown_pending, framed, streak>>
    BY <1>3 DEF driverVars
  <2> HIDE DEF e
  <2>4. PassTypeOK' /\ StateDetermined'
    BY <1>1, <1>3, <2>3 DEF PassTypeOK, DriverTypeOK, Step, StateDetermined
  <2>5. StepDetermined' /\ AcquiredLine' /\ RoomForAnswer'
    BY <1>1, <1>3, <2>3 DEF StepDetermined, AcquiredLine, RoomForAnswer
  <2>6. OutboundBelongsToSession'
    BY <1>2, <2>1, <2>2, <2>3, AppendProperties DEF OutboundBelongsToSession
  <2>7. AnswersAccounted'
    <3>1. ASSUME NEW k \in AnswerKind PROVE owed'[k] = Count(k)'
      <4>1. Count(k)' = Count(k) + (IF e.kind = k THEN 1 ELSE 0) /\ Count(k) \in Nat
        <5>1. Count(k) = Cardinality(KindsAt(critical, k))
              /\ Count(k)' = Cardinality(KindsAt(critical', k))
          BY DEF Count, KindsAt
        <5> QED
          BY <1>2, <2>1, <2>2, <5>1, CountAppend, KindsAtFinite
      <4>2. e.kind # k
        BY <2>1 DEF AnswerKind
      <4> QED
        BY <1>1, <4>1, <4>2 DEF AnswersAccounted
    <3> QED
      BY <3>1 DEF AnswersAccounted
  <2> QED
    BY <1>1, <2>3, <2>4, <2>5, <2>6, <2>7, FreshSame, LinesSame, AccountsSame
<1>4. CASE /\ state = "SESSION_ACTIVE"
           /\ ServiceSaturated /\ requestTeardown /\ pc' = "cancel"
           /\ UNCHANGED <<active_handle, replacement_handle, framed, streak>>
  <2>1. state' = "SESSION_CLOSING" /\ teardown_pending' = TRUE
    BY <1>4, TeardownCloses
  <2>2. UNCHANGED <<critical, telemetry>>
    BY <1>4 DEF ServiceSaturated
  <2>3. PassTypeOK'
    BY <1>1, <1>4, <2>1 DEF PassTypeOK, DriverTypeOK, Step, SessionState
  <2>4. StateDetermined' /\ StepDetermined'
    BY <1>1, <1>4, <2>1, InSession DEF StateDetermined, StepDetermined
  <2>5. AcquiredLine' /\ RoomForAnswer'
    BY <1>4 DEF AcquiredLine, RoomForAnswer
  <2> QED
    BY <1>1, <1>4, <2>1, <2>2, <2>3, <2>4, <2>5, FreshSame, QueueSame, LinesSame, AccountsSame
<1>5. CASE pc' = "drainFirst" /\ UNCHANGED <<channelVars, driverVars>>
  <2>1. UNCHANGED <<state, active_handle, replacement_handle, teardown_pending, framed, streak,
                    critical, telemetry>>
    BY <1>5 DEF driverVars, channelVars, schedulerVars
  <2>2. PassTypeOK' /\ StateDetermined'
    BY <1>1, <1>5, <2>1 DEF PassTypeOK, DriverTypeOK, Step, StateDetermined
  <2>3. StepDetermined' /\ AcquiredLine' /\ RoomForAnswer'
    BY <1>1, <1>5, <2>1 DEF StepDetermined, AcquiredLine, RoomForAnswer
  <2> QED
    BY <1>1, <2>1, <2>2, <2>3, FreshSame, QueueSame, LinesSame, AccountsSame
<1> QED
  BY <1>3, <1>4, <1>5 DEF SafetyDue, telemetrySessionActive, sessionActive

\* One message leaves the queue of an active session, and its answer is no
\* longer owed if it was sent; there is room for another afterwards.
LEMMA DrainStep ==
    ASSUME Inv, pc \in {"drainFirst", "drainAfter"}, DrainOne
    PROVE  /\ state = "SESSION_ACTIVE"
           /\ Len(critical') < CriticalCapacity
           /\ OutboundBelongsToSession' /\ AnswersAccounted'
           /\ owed' \in [AnswerKind -> Nat]
           /\ streak' \in 0..TelemetryStreakLimit
           /\ UNCHANGED <<active_handle, replacement_handle, framed>>
           /\ (state' = "SESSION_CLOSING" /\ teardown_pending' = TRUE)
                 \/ UNCHANGED <<state, teardown_pending>>
<1> USE DEF Inv, DInv
<1>1. /\ critical \in Seq(Entry) /\ Len(critical) \in Nat /\ Len(critical) <= CriticalCapacity
      /\ owed \in [AnswerKind -> Nat] /\ streak \in 0..TelemetryStreakLimit
  BY DEF IInv, TypeOK, SchedulerTypeOK, QueueWithinCapacity, PassTypeOK, DriverTypeOK
<1>2. UNCHANGED <<active_handle, replacement_handle, framed>>
  BY DEF DrainOne
<1>3. state = "SESSION_ACTIVE" /\ ~teardown_pending
  <2>1. critical # <<>> \/ telemetry # <<>>
    BY <1>1 DEF DrainOne, DrainTelemetry
  <2>2. active_handle # NoConn
    BY <2>1, OutOfSession
  <2> QED
    BY <2>2 DEF StateDetermined, StepDetermined
<1>4. ASSUME NEW sent \in BOOLEAN, NEW i \in 1..Len(critical),
             DrainCritical(i, sent), sendActiveLine("Critical", sent),
             owed' = IF sent /\ critical[i].kind \in AnswerKind
                     THEN [owed EXCEPT ![critical[i].kind] = @ - 1] ELSE owed
      PROVE  /\ Len(critical') < CriticalCapacity
             /\ OutboundBelongsToSession' /\ AnswersAccounted'
             /\ owed' \in [AnswerKind -> Nat]
             /\ streak' \in 0..TelemetryStreakLimit
             /\ (state' = "SESSION_CLOSING" /\ teardown_pending' = TRUE)
                   \/ UNCHANGED <<state, teardown_pending>>
  <2>1. critical' = Without(critical, i) /\ UNCHANGED telemetry
    BY <1>4 DEF DrainCritical
  <2>2. /\ critical' \in Seq(Entry)
        /\ Len(critical') = Len(critical) - 1
        /\ \A j \in 1..(Len(critical) - 1) :
              critical'[j] = IF j < i THEN critical[j] ELSE critical[j + 1]
    BY <1>1, <2>1, WithoutProperties
  <2>3. Len(critical') < CriticalCapacity
    BY <1>1, <2>2, CapacityAssumption
  <2>4. OutboundBelongsToSession'
    BY <1>1, <1>2, <2>1, <2>2 DEF OutboundBelongsToSession
  <2>5. \A k : /\ Count(k)' = Count(k) - (IF critical[i].kind = k THEN 1 ELSE 0)
               /\ Count(k) \in Nat /\ Count(k)' \in Nat
    <3> TAKE k
    <3>1. Count(k) = Cardinality(KindsAt(critical, k))
          /\ Count(k)' = Cardinality(KindsAt(critical', k))
      BY DEF Count, KindsAt
    <3> QED
      BY <1>1, <2>1, <2>2, <3>1, CountWithout, KindsAtFinite
  <2>6. \A k \in AnswerKind : owed[k] = Count(k)
    BY <1>3 DEF AnswersAccounted
  <2>7. CASE sent
    <3>1. UNCHANGED <<state, teardown_pending, streak>>
      BY <1>4, <2>7 DEF sendActiveLine
    <3>2. \A k \in AnswerKind : owed'[k] = Count(k)'
      BY <1>1, <1>4, <2>5, <2>6, <2>7
    <3>3. owed' \in [AnswerKind -> Nat]
      <4>1. CASE critical[i].kind \in AnswerKind
        <5>1. owed[critical[i].kind] - 1 \in Nat
          BY <2>5, <2>6, <4>1
        <5> QED
          BY <1>1, <1>4, <2>7, <4>1, <5>1
      <4> QED
        BY <1>1, <1>4, <4>1
    <3> QED
      BY <1>1, <2>3, <2>4, <3>1, <3>2, <3>3 DEF AnswersAccounted
  <2>8. CASE ~sent
    <3>1. requestTeardown /\ UNCHANGED streak /\ owed' = owed
      BY <1>4, <2>8 DEF sendActiveLine
    <3>2. state' = "SESSION_CLOSING" /\ teardown_pending' = TRUE
      BY <1>3, <3>1, TeardownCloses
    <3> QED
      BY <1>1, <2>3, <2>4, <3>1, <3>2 DEF AnswersAccounted
  <2> QED
    BY <2>7, <2>8
<1>5. ASSUME NEW sent \in BOOLEAN, DrainTelemetry, sendActiveLine("Telemetry", sent),
             UNCHANGED owed
      PROVE  /\ Len(critical') < CriticalCapacity
             /\ OutboundBelongsToSession' /\ AnswersAccounted'
             /\ owed' \in [AnswerKind -> Nat]
             /\ streak' \in 0..TelemetryStreakLimit
             /\ (state' = "SESSION_CLOSING" /\ teardown_pending' = TRUE)
                   \/ UNCHANGED <<state, teardown_pending>>
  <2>1. critical = <<>> /\ critical' = critical /\ telemetry' = <<>>
    BY <1>5 DEF DrainTelemetry
  <2>2. Len(critical') < CriticalCapacity
    BY <2>1, CapacityAssumption
  <2>3. OutboundBelongsToSession'
    BY <1>2, <2>1 DEF OutboundBelongsToSession
  <2>4. AnswersAccounted'
    BY <1>3, <1>5, <2>1 DEF AnswersAccounted, Count
  <2>5. streak' \in 0..TelemetryStreakLimit
    BY <1>1, <1>5, StreakAssumption DEF sendActiveLine
  <2>6. (state' = "SESSION_CLOSING" /\ teardown_pending' = TRUE)
           \/ UNCHANGED <<state, teardown_pending>>
    BY <1>3, <1>5, TeardownCloses DEF sendActiveLine
  <2> QED
    BY <1>1, <1>5, <2>2, <2>3, <2>4, <2>5, <2>6
<1>6. \/ \E sent \in BOOLEAN : \E i \in 1..Len(critical) :
            /\ DrainCritical(i, sent) /\ sendActiveLine("Critical", sent)
            /\ owed' = IF sent /\ critical[i].kind \in AnswerKind
                       THEN [owed EXCEPT ![critical[i].kind] = @ - 1] ELSE owed
      \/ \E sent \in BOOLEAN :
            DrainTelemetry /\ sendActiveLine("Telemetry", sent) /\ UNCHANGED owed
  BY DEF DrainOne
<1> QED
  BY <1>2, <1>3, <1>4, <1>5, <1>6

\* The parts of the invariant a drain leaves to be shown, whichever of the two
\* drains of a pass it is.
LEMMA DrainPreserves ==
    ASSUME Inv, pc \in {"drainFirst", "drainAfter"}, DrainOne, drained' \in BOOLEAN,
           \/ teardown_pending' /\ pc' = "cancel"
           \/ ~teardown_pending' /\ pc' = "idle"
           \/ ~teardown_pending' /\ pc' = "processLine" /\ acquired /\ pc = "drainFirst",
           UNCHANGED <<netVars, historyVars, acquired, candidate, resume, first_frame_due>>
    PROVE  DInv'
<1> USE DEF Inv, DInv
<1>1. state = "SESSION_ACTIVE" /\ ~teardown_pending /\ candidate = NoConn
      /\ replacement_handle = NoConn /\ active_handle # NoConn /\ active_handle \in introduced
  BY DrainStep, InSession
<1>2. UNCHANGED <<peer, backlog, link, listening, introduced, hook_runs, sessions_accepted,
                  controller_disconnects, active_handle, replacement_handle, framed>>
  BY DrainStep DEF netVars, historyVars
<1>3. PassTypeOK'
  <2>1. state' \in SessionState /\ teardown_pending' \in BOOLEAN /\ pc' \in Step
    BY <1>1, DrainStep DEF SessionState, Step, PassTypeOK, DriverTypeOK
  <2>2. owed' \in [AnswerKind -> Nat] /\ streak' \in 0..TelemetryStreakLimit
    BY DrainStep
  <2> QED
    BY <1>2, <2>1, <2>2 DEF PassTypeOK, DriverTypeOK
<1>4. StateDetermined' /\ StepDetermined'
  BY <1>1, <1>2, DrainStep DEF StateDetermined, StepDetermined
<1>5. AcquiredLine'
  BY <1>1, <1>2, DrainStep DEF AcquiredLine
<1>6. RoomForAnswer'
  BY DrainStep DEF RoomForAnswer, CanEnqueue
<1> QED
  BY <1>2, <1>3, <1>4, <1>5, <1>6, DrainStep, FreshSame, LinesSame, AccountsSame

LEMMA DrainFirstPreserves ==
    ASSUME Inv, DrainFirst
    PROVE  DInv'
<1> USE DEF Inv, DInv
<1>1. /\ pc = "drainFirst"
      /\ pc' = IF teardown_pending' THEN "cancel" ELSE IF acquired THEN "processLine" ELSE "idle"
      /\ UNCHANGED <<netVars, historyVars, acquired, candidate, resume, first_frame_due>>
  BY DEF DrainFirst
<1>2. CASE hasPending
  <2>1. DrainOne /\ drained' = TRUE
    BY <1>2 DEF DrainFirst
  <2>2. teardown_pending' \in BOOLEAN
    BY <1>1, <2>1, DrainStep DEF PassTypeOK, DriverTypeOK
  <2> QED
    BY <1>1, <2>1, <2>2, DrainPreserves
<1>3. CASE ~hasPending
  <2>1. /\ critical = <<>>
        /\ UNCHANGED <<critical, telemetry, state, active_handle, replacement_handle,
                       teardown_pending, framed, streak, owed, drained>>
    BY <1>3 DEF DrainFirst, hasPending, channelVars, schedulerVars, driverVars
  <2>2. UNCHANGED <<peer, backlog, link, listening, introduced, hook_runs, sessions_accepted,
                    controller_disconnects>>
    BY <1>1 DEF netVars, historyVars
  <2>3. ~teardown_pending /\ candidate = NoConn
    BY <1>1 DEF StepDetermined
  <2>4. PassTypeOK' /\ StateDetermined'
    BY <1>1, <2>1, <2>2 DEF PassTypeOK, DriverTypeOK, Step, StateDetermined
  <2>5. StepDetermined' /\ AcquiredLine'
    BY <1>1, <2>1, <2>3 DEF StepDetermined, AcquiredLine
  <2>6. RoomForAnswer'
    BY <2>1, CapacityAssumption DEF RoomForAnswer, CanEnqueue
  <2> QED
    BY <1>1, <2>1, <2>2, <2>4, <2>5, <2>6, FreshSame, QueueSame, LinesSame, AccountsSame
<1> QED
  BY <1>2, <1>3

LEMMA DrainAfterPreserves ==
    ASSUME Inv, DrainAfter
    PROVE  DInv'
<1>1. /\ pc = "drainAfter" /\ DrainOne
      /\ pc' = IF teardown_pending' THEN "cancel" ELSE "idle"
      /\ UNCHANGED <<netVars, historyVars, acquired, drained, candidate, resume, first_frame_due>>
  BY DEF DrainAfter
<1>2. teardown_pending' \in BOOLEAN /\ drained' \in BOOLEAN
  BY <1>1, DrainStep DEF Inv, DInv, PassTypeOK, DriverTypeOK
<1> QED
  BY <1>1, <1>2, DrainPreserves

LEMMA ProcessLinePreserves ==
    ASSUME Inv, ProcessLine
    PROVE  DInv'
<1> USE DEF Inv, DInv
<1>1. /\ pc = "processLine" /\ framed' = Tail(framed) /\ acquired' = FALSE
      /\ pc' = IF teardown_pending' THEN "cancel"
               ELSE IF ~drained /\ hasPending' THEN "drainAfter" ELSE "idle"
      /\ UNCHANGED <<peer, backlog, link, listening, active_handle, replacement_handle, streak,
                     introduced, hook_runs, sessions_accepted, controller_disconnects,
                     drained, candidate, resume, first_frame_due>>
  BY DEF ProcessLine, releaseLine, netVars, historyVars
<1>2. /\ state = "SESSION_ACTIVE" /\ framed # <<>> /\ ~teardown_pending
      /\ active_handle \in Conns /\ replacement_handle = NoConn /\ candidate = NoConn
  BY <1>1, Processing, InSession
<1>3. CanEnqueue
  BY <1>1 DEF RoomForAnswer
<1>4. framed \in Seq(Line) /\ Len(framed) <= 2
  BY DEF PassTypeOK, DriverTypeOK
<1>5. framed' \in Seq(Line) /\ Len(framed') <= 2 /\ LinesBelongToSession'
  <2>1. /\ Tail(framed) \in Seq(Line)
        /\ Len(framed) \in Nat \ {0} /\ Len(Tail(framed)) = Len(framed) - 1
        /\ \A j \in 1..(Len(framed) - 1) : Tail(framed)[j] = framed[j + 1]
    BY <1>2, <1>4, TailProperties
  <2> QED
    BY <1>1, <1>4, <2>1 DEF LinesBelongToSession
<1>6. PICK answer \in Answers(Head(framed).kind) :
         \/ answer = <<>> /\ UNCHANGED <<channelVars, state, teardown_pending, owed>>
         \/ /\ answer # <<>>
            /\ owed' = [owed EXCEPT ![answer[1]] = @ + 1]
            /\ EnqueueAnswer(answer[1], active_handle)
            /\ UNCHANGED <<state, teardown_pending>>
  BY <1>3 DEF ProcessLine
<1>7. UNCHANGED <<state, teardown_pending>> /\ pc' \in {"drainAfter", "idle"}
  BY <1>1, <1>2, <1>6
<1>8. StateDetermined' /\ StepDetermined'
  BY <1>1, <1>2, <1>7 DEF StateDetermined, StepDetermined
<1>9. AcquiredLine' /\ RoomForAnswer'
  BY <1>1, <1>7 DEF AcquiredLine, RoomForAnswer
<1>10. critical \in Seq(Entry) /\ owed \in [AnswerKind -> Nat]
  BY DEF IInv, TypeOK, SchedulerTypeOK, PassTypeOK
<1>11. owed' \in [AnswerKind -> Nat] /\ OutboundBelongsToSession' /\ AnswersAccounted'
  <2>1. CASE answer = <<>> /\ UNCHANGED <<channelVars, owed>>
    BY <1>1, <1>7, <1>10, <2>1, QueueSame DEF channelVars, schedulerVars
  <2>2. CASE /\ answer # <<>>
             /\ owed' = [owed EXCEPT ![answer[1]] = @ + 1]
             /\ EnqueueAnswer(answer[1], active_handle)
    <3> DEFINE e == [kind |-> answer[1], conn |-> active_handle, reason |-> NoReason]
    <3>1. answer[1] \in AnswerKind /\ answer[1] \in CriticalKind
      BY <2>2, AnswerForms
    <3>2. e \in Entry /\ e.kind = answer[1] /\ e.conn = active_handle
      BY <1>2, <3>1 DEF Entry
    <3>3. critical' = Append(critical, e) /\ UNCHANGED telemetry
      BY <2>2 DEF EnqueueAnswer, enqueueCritical
    <3> HIDE DEF e
    <3>4. OutboundBelongsToSession'
      BY <1>1, <1>10, <3>2, <3>3, AppendProperties DEF OutboundBelongsToSession
    <3>5. owed' \in [AnswerKind -> Nat]
      BY <1>10, <2>2, <3>1
    <3>6. ASSUME NEW k \in AnswerKind PROVE owed'[k] = Count(k)'
      <4>1. /\ Count(k) = Cardinality(KindsAt(critical, k))
            /\ Count(k)' = Cardinality(KindsAt(critical', k))
        BY DEF Count, KindsAt
      <4>2. Count(k)' = Count(k) + (IF answer[1] = k THEN 1 ELSE 0) /\ Count(k) \in Nat
        BY <1>10, <3>2, <3>3, <4>1, CountAppend, KindsAtFinite
      <4>3. owed[k] = Count(k)
        BY <1>2 DEF AnswersAccounted
      <4> QED
        BY <1>10, <2>2, <3>1, <4>2, <4>3
    <3> QED
      BY <3>4, <3>5, <3>6 DEF AnswersAccounted
  <2> QED
    BY <1>6, <2>1, <2>2
<1>12. PassTypeOK'
  BY <1>1, <1>5, <1>7, <1>11 DEF PassTypeOK, DriverTypeOK, Step
<1> QED
  BY <1>1, <1>5, <1>8, <1>9, <1>11, <1>12, FreshSame, AccountsSame

LEMMA CancelPreserves ==
    ASSUME Inv, Cancel
    PROVE  DInv'
<1> USE DEF Inv, DInv
<1>1. /\ pc = "cancel" /\ pc' = "apply" /\ resume' = "idle" /\ first_frame_due' = TRUE
      /\ critical' = <<>> /\ telemetry' = <<>>
      /\ UNCHANGED <<netVars, driverVars, historyVars, acquired, drained, candidate, owed>>
  BY DEF Cancel, CancelAll, onSessionInactive
<1>2. UNCHANGED <<state, active_handle, replacement_handle, teardown_pending, framed, peer,
                  backlog, hook_runs, sessions_accepted, controller_disconnects>>
  BY <1>1 DEF netVars, driverVars, historyVars
<1>3. teardown_pending /\ candidate = NoConn
  BY <1>1 DEF StepDetermined
<1>4. PassTypeOK'
  BY <1>1, DriverSame DEF PassTypeOK, Step
<1>5. StepDetermined' /\ AcquiredLine' /\ RoomForAnswer'
  BY <1>1, <1>2, <1>3 DEF StepDetermined, AcquiredLine, RoomForAnswer
<1>6. OutboundBelongsToSession' /\ AnswersAccounted'
  BY <1>1, <1>2, <1>3 DEF OutboundBelongsToSession, AnswersAccounted
<1> QED
  BY <1>1, <1>2, <1>4, <1>5, <1>6, DriverSame, FreshSame, AccountsSame

LEMMA ApplyPreserves ==
    ASSUME Inv, Apply
    PROVE  DInv'
<1> USE DEF Inv, DInv
<1>1. /\ pc = "apply" /\ owed' = NothingOwed /\ acquired' = FALSE
      /\ candidate' = replacement_handle
      /\ pc' = IF replacement_handle # NoConn THEN "promote" ELSE resume
      /\ UNCHANGED <<critical, telemetry, drained, resume, first_frame_due>>
  BY DEF Apply, channelVars, schedulerVars
<1>2. /\ state = "SESSION_CLOSING" /\ active_handle # NoConn /\ active_handle \in Conns
      /\ candidate = NoConn /\ critical = <<>> /\ telemetry = <<>>
      /\ resume \in {"idle", "nextLine"}
  BY <1>1 DEF StateDetermined, StepDetermined, PassTypeOK, DriverTypeOK
<1>3. /\ hook_runs' = [hook_runs EXCEPT ![active_handle] = @ + 1]
      /\ controller_disconnects' = controller_disconnects + 1
      /\ peer' = [peer EXCEPT ![active_handle] = "closed"]
      /\ framed' = <<>> /\ streak' = 0 /\ active_handle' = NoConn
      /\ teardown_pending' = FALSE /\ state' = "LISTENING" /\ replacement_handle' = NoConn
      /\ UNCHANGED <<backlog, link, listening, introduced, sessions_accepted>>
  BY <1>2, Transitions DEF Apply, applyPendingTeardown, transitionTo
<1>4. PassTypeOK'
  <2>1. /\ hook_runs' \in [Conns -> Nat] /\ controller_disconnects' \in Nat
        /\ peer' \in [Conns -> {"away", "open", "closing", "closed"}]
    BY <1>2, <1>3 DEF PassTypeOK, DriverTypeOK
  <2>2. framed' \in Seq(Line) /\ Len(framed') <= 2 /\ streak' \in 0..TelemetryStreakLimit
    BY <1>3, StreakAssumption
  <2>3. pc' \in Step /\ owed' \in [AnswerKind -> Nat] /\ state' \in SessionState
    BY <1>1, <1>2, <1>3 DEF Step, NothingOwed, SessionState
  <2>4. candidate' \in Conns \cup {NoConn}
    BY <1>1 DEF PassTypeOK, DriverTypeOK
  <2> QED
    BY <1>1, <1>3, <2>1, <2>2, <2>3, <2>4 DEF PassTypeOK, DriverTypeOK
<1>5. StateDetermined' /\ StepDetermined'
  BY <1>1, <1>2, <1>3 DEF StateDetermined, StepDetermined
<1>6. AcquiredLine' /\ RoomForAnswer' /\ LinesBelongToSession' /\ OutboundBelongsToSession'
  BY <1>1, <1>2, <1>3
  DEF AcquiredLine, RoomForAnswer, LinesBelongToSession, OutboundBelongsToSession
<1>7. AnswersAccounted'
  <2>1. ASSUME NEW k \in AnswerKind PROVE owed'[k] = Count(k)'
    <3>1. Count(k)' = Cardinality(KindsAt(critical', k))
      BY DEF Count, KindsAt
    <3> QED
      BY <1>1, <1>2, <3>1, CountEmpty DEF NothingOwed
  <2> QED
    BY <2>1 DEF AnswersAccounted
<1>8. SessionsAccounted'
  BY <1>1, <1>2, <1>3 DEF SessionsAccounted, PassTypeOK, DriverTypeOK
<1>9. ConnectionsFresh'
  <2>1. Held' = Held \ {active_handle} /\ active_handle \in Held /\ Held \subseteq Conns
    BY <1>1, <1>2, <1>3 DEF Held, ConnectionsFresh, PassTypeOK, DriverTypeOK
  <2>2. \A c \in Conns : c # active_handle => peer'[c] = peer[c] /\ hook_runs'[c] = hook_runs[c]
    BY <1>3 DEF PassTypeOK, DriverTypeOK
  <2>3. peer'[active_handle] = "closed"
    BY <1>2, <1>3 DEF PassTypeOK, DriverTypeOK
  <2>4. \A i \in 1..Len(backlog) : backlog[i] \in Conns /\ backlog[i] # active_handle
    BY <2>1 DEF ConnectionsFresh, PassTypeOK, DriverTypeOK
  <2>5. \A c \in Conns : peer'[c] = "away" => hook_runs'[c] = 0
    BY <2>2, <2>3 DEF ConnectionsFresh
  <2>6. \A i \in 1..Len(backlog') :
           /\ peer'[backlog'[i]] # "away" /\ hook_runs'[backlog'[i]] = 0
           /\ backlog'[i] \notin Held'
    BY <1>3, <2>1, <2>2, <2>4 DEF ConnectionsFresh
  <2>7. \A c \in Held' : peer'[c] # "away" /\ hook_runs'[c] = 0
    BY <2>1, <2>2 DEF ConnectionsFresh
  <2> QED
    BY <1>3, <2>5, <2>6, <2>7 DEF ConnectionsFresh
<1> QED
  BY <1>4, <1>5, <1>6, <1>7, <1>8, <1>9

LEMMA ApplicationPreserves ==
    ASSUME Inv, Application
    PROVE  DInv'
<1> USE DEF Inv, DInv
<1>1. /\ UNCHANGED <<netVars, driverVars, historyVars, passVars, first_frame_due, owed>>
      /\ UNCHANGED <<critical, telemetry>>
  BY DEF Application, requestEstopTriggered
<1>2. UNCHANGED <<pc, acquired, drained, candidate, resume, state, active_handle,
                  replacement_handle, teardown_pending, framed, peer, backlog, hook_runs,
                  sessions_accepted, controller_disconnects>>
  BY <1>1 DEF passVars, netVars, driverVars, historyVars
<1>3. PassTypeOK'
  BY <1>1, <1>2, DriverSame DEF PassTypeOK
<1>4. StepDetermined' /\ AcquiredLine' /\ RoomForAnswer'
  BY <1>1, <1>2 DEF StepDetermined, AcquiredLine, RoomForAnswer, CanEnqueue
<1> QED
  BY <1>1, <1>2, <1>3, <1>4, DriverSame, FreshSame, QueueSame, AccountsSame

LEMMA NetworkPreserves ==
    ASSUME Inv, Network
    PROVE  DInv'
<1> USE DEF Inv, DInv
<1>1. UNCHANGED <<critical, telemetry, state, active_handle, replacement_handle,
                  teardown_pending, framed, streak, introduced, hook_runs, sessions_accepted,
                  controller_disconnects, pc, acquired, drained, candidate, resume,
                  first_frame_due, owed>>
  BY DEF Network, channelVars, schedulerVars, driverVars, historyVars, passVars
<1>2. /\ backlog \in Seq(Conns) /\ link \in BOOLEAN /\ listening \in BOOLEAN
      /\ peer \in [Conns -> {"away", "open", "closing", "closed"}]
      /\ Len(backlog) \in Nat
  BY DEF PassTypeOK, DriverTypeOK
<1>3. StateDetermined' /\ StepDetermined' /\ AcquiredLine' /\ RoomForAnswer'
  BY <1>1 DEF StateDetermined, StepDetermined, AcquiredLine, RoomForAnswer, CanEnqueue
<1>4. Held' = Held /\ Held \subseteq Conns
  BY <1>1 DEF Held, PassTypeOK, DriverTypeOK
<1>5. SUFFICES /\ backlog' \in Seq(Conns) /\ link' \in BOOLEAN /\ listening' \in BOOLEAN
               /\ peer' \in [Conns -> {"away", "open", "closing", "closed"}]
               /\ ConnectionsFresh'
  <2>1. PassTypeOK'
    BY <1>1, <1>5 DEF PassTypeOK, DriverTypeOK
  <2> QED
    BY <1>1, <1>3, <1>5, <2>1, QueueSame, LinesSame, AccountsSame
<1>6. CASE LinkChanges \/ ListenerDrops
  BY <1>1, <1>2, <1>6, FreshSame DEF LinkChanges, ListenerDrops
<1>7. ASSUME NEW c \in Conns, ControllerConnects(c)
      PROVE  /\ backlog' \in Seq(Conns) /\ link' \in BOOLEAN /\ listening' \in BOOLEAN
             /\ peer' \in [Conns -> {"away", "open", "closing", "closed"}]
             /\ ConnectionsFresh'
  <2>1. /\ peer[c] = "away" /\ peer' = [peer EXCEPT ![c] = "open"]
        /\ backlog' = Append(backlog, c) /\ UNCHANGED <<link, listening>>
    BY <1>7 DEF ControllerConnects
  <2>2. /\ backlog' \in Seq(Conns) /\ Len(backlog') = Len(backlog) + 1
        /\ \A j \in 1..Len(backlog) : backlog'[j] = backlog[j]
        /\ backlog'[Len(backlog) + 1] = c
    BY <1>2, <2>1, AppendProperties
  <2>3. hook_runs[c] = 0 /\ c \notin Held
        /\ \A i \in 1..Len(backlog) : backlog[i] \in Conns /\ backlog[i] # c
    BY <1>2, <2>1 DEF ConnectionsFresh
  <2>4. peer'[c] = "open" /\ \A d \in Conns : d # c => peer'[d] = peer[d]
    BY <1>2, <2>1
  <2>5. \A i \in 1..Len(backlog') :
           i = Len(backlog) + 1 \/ (i \in 1..Len(backlog) /\ backlog'[i] = backlog[i])
    BY <1>2, <2>2
  <2>6. \A i, j \in 1..Len(backlog') : backlog'[i] = backlog'[j] => i = j
    BY <1>2, <2>2, <2>3, <2>5 DEF ConnectionsFresh
  <2>7. \A i \in 1..Len(backlog') :
           /\ peer'[backlog'[i]] # "away" /\ hook_runs'[backlog'[i]] = 0
           /\ backlog'[i] \notin Held'
    BY <1>1, <1>4, <2>2, <2>3, <2>4, <2>5 DEF ConnectionsFresh
  <2>8. /\ \A d \in Conns : peer'[d] = "away" => hook_runs'[d] = 0
        /\ \A d \in Held' : peer'[d] # "away" /\ hook_runs'[d] = 0
    BY <1>1, <1>4, <2>3, <2>4 DEF ConnectionsFresh
  <2>9. ConnectionsFresh'
    BY <1>1, <2>6, <2>7, <2>8 DEF ConnectionsFresh
  <2> QED
    BY <1>2, <2>1, <2>2, <2>9
<1>8. ASSUME NEW c \in Conns, PeerCloses(c)
      PROVE  /\ backlog' \in Seq(Conns) /\ link' \in BOOLEAN /\ listening' \in BOOLEAN
             /\ peer' \in [Conns -> {"away", "open", "closing", "closed"}]
             /\ ConnectionsFresh'
  <2>1. PICK seen \in {"closing", "closed"} : peer' = [peer EXCEPT ![c] = seen]
    BY <1>8 DEF PeerCloses
  <2>2. peer[c] = "open" /\ UNCHANGED <<link, listening>>
    BY <1>8 DEF PeerCloses
  <2>3. \A d \in Conns : peer'[d] = "away" <=> peer[d] = "away"
    BY <1>2, <2>1, <2>2
  <2>4. /\ backlog' \in Seq(Conns)
        /\ \A i \in 1..Len(backlog') : \E k \in 1..Len(backlog) : backlog'[i] = backlog[k]
        /\ \A i, j \in 1..Len(backlog') : backlog'[i] = backlog'[j] => i = j
    <3>1. CASE UNCHANGED backlog
      BY <1>2, <3>1 DEF ConnectionsFresh
    <3>2. ASSUME NEW i \in 1..Len(backlog),
                 backlog' = [j \in 1..(Len(backlog) - 1) |->
                                backlog[IF j < i THEN j ELSE j + 1]]
          PROVE  /\ backlog' \in Seq(Conns)
                 /\ \A j \in 1..Len(backlog') : \E k \in 1..Len(backlog) : backlog'[j] = backlog[k]
                 /\ \A j, k \in 1..Len(backlog') : backlog'[j] = backlog'[k] => j = k
      <4>1. \A j \in 1..(Len(backlog) - 1) : (IF j < i THEN j ELSE j + 1) \in 1..Len(backlog)
        BY <1>2
      <4>2. backlog' \in [1..(Len(backlog) - 1) -> Conns] /\ Len(backlog) - 1 \in Nat
        BY <1>2, <3>2, <4>1
      <4>3. backlog' \in Seq(Conns) /\ Len(backlog') = Len(backlog) - 1
        BY <4>2
      <4> QED
        BY <1>2, <3>2, <4>1, <4>3 DEF ConnectionsFresh
    <3> QED
      BY <1>8, <3>1, <3>2 DEF PeerCloses
  <2>5. \A i \in 1..Len(backlog) : backlog[i] \in Conns
    BY <1>2
  <2>6. ConnectionsFresh'
    BY <1>1, <1>4, <2>3, <2>4, <2>5 DEF ConnectionsFresh
  <2> QED
    BY <1>2, <2>1, <2>2, <2>4, <2>6
<1> QED
  BY <1>6, <1>7, <1>8 DEF Network, NetworkStep

-----------------------------------------------------------------------------
LEMMA StepInv == Inv /\ [Next]_vars => Inv'
<1> SUFFICES ASSUME Inv, [Next]_vars PROVE Inv'
  OBVIOUS
<1>1. IInv'
  BY StepUsesChannel, StepIInv DEF Inv
<1>2. CASE UNCHANGED vars
  <2>1. UNCHANGED <<netVars, driverVars, historyVars, passVars, first_frame_due, owed,
                    critical, telemetry>>
    BY <1>2 DEF vars, channelVars, schedulerVars
  <2>2. UNCHANGED <<pc, acquired, drained, candidate, resume, state, active_handle,
                    replacement_handle, teardown_pending, framed, peer, backlog, hook_runs,
                    sessions_accepted, controller_disconnects, first_frame_due, owed>>
    BY <2>1 DEF passVars, netVars, driverVars, historyVars
  <2>3. PassTypeOK' /\ StepDetermined' /\ AcquiredLine' /\ RoomForAnswer'
    BY <2>1, <2>2, DriverSame
    DEF Inv, DInv, PassTypeOK, StepDetermined, AcquiredLine, RoomForAnswer, CanEnqueue
  <2> QED
    BY <1>1, <2>1, <2>2, <2>3, DriverSame, FreshSame, QueueSame, AccountsSame DEF Inv, DInv
<1>3. CASE Next
  BY <1>1, <1>3, PollPreserves, PollAcceptPreserves, PromotePreserves, NextLinePreserves,
     TelemetryDuePreserves, SafetyDuePreserves, DrainFirstPreserves, DrainAfterPreserves,
     ProcessLinePreserves, CancelPreserves, ApplyPreserves, ApplicationPreserves,
     NetworkPreserves
  DEF Inv, Next, ServicePass
<1> QED
  BY <1>2, <1>3

LEMMA LoopInv == Spec => []Inv
  BY InitInv, StepInv, PTL DEF Spec

-----------------------------------------------------------------------------
(***************************************************************************)
(* The theorems.                                                           *)
(***************************************************************************)

\* The variables of the whole loop keep their types.
THEOREM LoopTypeCorrect == Spec => []LoopTypeOK
<1>1. Inv => LoopTypeOK
  BY DEF Inv, IInv, DInv, PassTypeOK, LoopTypeOK
<1> QED
  BY <1>1, LoopInv, PTL

\* Nothing queued for one controller can reach another: at any point of any
\* pass, everything in the scheduler was produced for the connection being served.
THEOREM OutboundIsolated == Spec => []OutboundBelongsToSession
<1>1. Inv => OutboundBelongsToSession
  BY DEF Inv, DInv
<1> QED
  BY <1>1, LoopInv, PTL

\* A line is acted upon only in the session that delivered it, after its
\* controller was sent the schema and before the teardown begins.
THEOREM InboundIsolated == Spec => []InboundBelongsToSession
<1>1. ASSUME Inv PROVE InboundBelongsToSession
  <2>1. \A i \in 1..Len(framed) : framed[i].conn = active_handle
    BY <1>1 DEF Inv, DInv, LinesBelongToSession
  <2> QED
    BY <1>1, <2>1, Processing, InSession DEF InboundBelongsToSession
<1> QED
  BY <1>1, LoopInv, PTL

\* A teardown requested anywhere in a pass, nested ones included, is carried out
\* before the pass returns.
THEOREM TeardownWithinPass == Spec => []TeardownEndsWithPass
<1>1. Inv => TeardownEndsWithPass
  BY DEF Inv, DInv, StateDetermined, StepDetermined, TeardownEndsWithPass
<1> QED
  BY <1>1, LoopInv, PTL

\* Every connection counted as accepted is served, held, or counted as
\* disconnected: supersession and failed schemas leak none.
THEOREM NoSessionLeaked == Spec => []SessionsAccounted
<1>1. Inv => SessionsAccounted
  BY DEF Inv, DInv
<1> QED
  BY <1>1, LoopInv, PTL

\* While a session lives, what is owed to its controller is what is queued for
\* it, kind by kind: no answer is dropped or queued twice.
THEOREM AnswersKept == Spec => []AnswersAccounted
<1>1. Inv => AnswersAccounted
  BY DEF Inv, DInv
<1> QED
  BY <1>1, LoopInv, PTL

\* A line is processed only when its answer has room: whatever the capacity, the
\* teardown for a full queue never comes from an inbound line.
THEOREM InboundNeverSaturates == Spec => []RoomForAnswer
<1>1. Inv => RoomForAnswer
  BY DEF Inv, DInv
<1> QED
  BY <1>1, LoopInv, PTL

\* The loop makes its calls on the scheduler and the estop handler as the proved
\* e-stop channel allows.
THEOREM LoopUsesChannel == Spec => UsesChannel
<1>1. Init => ChannelInit
  BY DEF Init
<1>2. Inv /\ [Next]_vars => [ChannelNext]_channelVars
  BY StepUsesChannel
<1> QED
  BY <1>1, <1>2, LoopInv, PTL DEF Spec, UsesChannel, ChannelSpec

\* So in the loop the two records of the board-local e-stop agree between calls.
THEOREM LoopRecordsAgree == Spec => []RecordsAgree
  BY LoopUsesChannel, ChannelConsistent, PTL DEF UsesChannel

\* No e-stop accepted by the board is lost, duplicated or reordered by the loop,
\* through failed sends, full queues and superseded sessions.
THEOREM LoopExactlyOnce == Spec => []ExactlyOnceInOrder
  BY LoopUsesChannel, ChannelExactlyOnce, PTL DEF UsesChannel

\* The loop implements the abstract accept-then-deliver promise.
THEOREM LoopImplementsDelivery == Spec => ImplementsDelivery
  BY LoopUsesChannel, ChannelImplementsDelivery, PTL DEF UsesChannel

\* The driver inside the loop implements the abstract controller session: one
\* connection at a time, none served again, one run of the controller-loss hook
\* for each at the moment it is dropped.
THEOREM LoopImplementsSession == Spec => ImplementsControllerSession
<1>1. Init => Sessions!Init
  BY DEF Init, DriverInit, Sessions!Init
<1>2. Inv /\ [Next]_vars => [Sessions!Next]_<<active_handle, hook_runs>>
  <2> SUFFICES ASSUME Inv, [Next]_vars, ~ UNCHANGED <<active_handle, hook_runs>>
               PROVE  Sessions!Next
    OBVIOUS
  <2>1. CASE Promote
    <3>1. /\ candidate # NoConn /\ candidate \in Conns /\ active_handle = NoConn
      BY <2>1 DEF Promote, Inv, DInv, StateDetermined, StepDetermined, PassTypeOK
    <3>2. hook_runs[candidate] = 0
      BY <3>1 DEF Inv, DInv, ConnectionsFresh, Held
    <3>3. active_handle' = candidate /\ UNCHANGED hook_runs
      BY <2>1 DEF Promote, promoteAcceptedConnection
    <3>4. Sessions!Start(candidate)
      BY <3>1, <3>2, <3>3 DEF Sessions!Start
    <3> QED
      BY <3>1, <3>4 DEF Sessions!Next
  <2>2. CASE Apply
    <3>1. active_handle # NoConn /\ active_handle \in Conns
      BY <2>2 DEF Apply, applyPendingTeardown, Inv, DInv, StateDetermined, PassTypeOK,
                  DriverTypeOK
    <3>2. hook_runs[active_handle] = 0 /\ hook_runs \in [Conns -> Nat]
      BY <3>1 DEF Inv, DInv, ConnectionsFresh, Held, PassTypeOK, DriverTypeOK
    <3>3. /\ hook_runs' = [hook_runs EXCEPT ![active_handle] = @ + 1]
          /\ active_handle' = NoConn
      BY <2>2, <3>1 DEF Apply, applyPendingTeardown
    <3>4. hook_runs' = [hook_runs EXCEPT ![active_handle] = 1]
      BY <3>1, <3>2, <3>3
    <3> QED
      BY <3>1, <3>3, <3>4 DEF Sessions!Stop, Sessions!Next
  <2>3. CASE Poll
    BY <2>3
    DEF Poll, pumpNetworkStarting, pumpListening_Idle, pumpListening_Reject, RejectPending,
        acceptReplacement, acceptReplacement_Reject, pollSession, detectActiveLoss,
        readAvailable, driverVars, historyVars
  <2>4. CASE PollAccept \/ NextLine
    BY <2>4
    DEF PollAccept, pumpListening_Accept, NextLine, nextLine, detectActiveLoss, readAvailable,
        driverVars, historyVars
  <2>5. CASE TelemetryDue \/ SafetyDue \/ DrainFirst \/ DrainAfter
    BY <2>5
    DEF TelemetryDue, SafetyDue, DrainFirst, DrainAfter, DrainOne, driverVars, historyVars
  <2>6. CASE ProcessLine \/ Cancel \/ Application \/ Network \/ UNCHANGED vars
    BY <2>6 DEF ProcessLine, Cancel, Application, Network, vars, driverVars, historyVars
  <2> QED
    BY <2>1, <2>2, <2>3, <2>4, <2>5, <2>6 DEF Next, ServicePass
<1> QED
  BY <1>1, <1>2, LoopInv, PTL DEF Spec, ImplementsControllerSession, Sessions!Spec

=============================================================================
