---------------------------- MODULE EstopHandler ----------------------------
(***************************************************************************)
(* The board-local estop_triggered event (core/EstopHandler.h) on top of   *)
(* the outbound scheduler.  The handler and the scheduler each keep a      *)
(* record of where the event stands; the service loop reports every        *)
(* outcome of a drain or of a session end back to the handler, so that the *)
(* two records agree again when the call returns.                          *)
(*                                                                         *)
(* ChannelNext is the use of these two objects by any caller that makes    *)
(* the calls in pairs, as ServiceLoop does, but in any order and at any    *)
(* time.  ServiceLoop implements ChannelSpec (run service_loop), so what   *)
(* is proved about ChannelSpec holds of the firmware's loop.               *)
(***************************************************************************)
EXTENDS OutboundScheduler

CONSTANT MaxRequests   \* bound on accepted requestEstopTriggered calls

ASSUME RequestsAssumption == MaxRequests \in Nat

VARIABLES
    estop_state,   \* EstopHandler::state_
    reason,        \* EstopHandler::reason_
    accepted,      \* history: reasons of the requests answered Ok
    delivered      \* history: reasons of the estop_triggered lines handed whole to TCP

handlerVars == <<estop_state, reason, accepted, delivered>>
channelVars == <<schedulerVars, handlerVars>>

PendingState == {"Empty", "PendingNotQueued", "QueuedAwaitingCompletion"}

TypeOK ==
    /\ SchedulerTypeOK
    /\ estop_state \in PendingState
    /\ reason \in Reasons \cup {NoReason}
    /\ accepted \in Seq(Reasons)
    /\ delivered \in Seq(Reasons)

ChannelInit ==
    /\ SchedulerInit
    /\ estop_state = "Empty"
    /\ reason = NoReason
    /\ accepted = <<>>
    /\ delivered = <<>>

-----------------------------------------------------------------------------
\* Mutant: a request is accepted while another one is pending.
requestEstopTriggered_Overwrites(r) ==
    /\ Len(accepted) < MaxRequests
    /\ estop_state' = "PendingNotQueued"
    /\ reason' = r
    /\ estop_triggered_state' = MarkedPending(estop_triggered_state)
    /\ accepted' = Append(accepted, r)
    /\ UNCHANGED <<critical, telemetry, delivered>>

\* The application reports a board-local e-stop.  A request made while one is
\* pending is refused and changes nothing.
requestEstopTriggered(r) ==
    /\ estop_state = "Empty"
    /\ Len(accepted) < MaxRequests
    /\ estop_state' = "PendingNotQueued"
    /\ reason' = r
    /\ estop_triggered_state' = MarkedPending(estop_triggered_state)
    /\ accepted' = Append(accepted, r)
    /\ UNCHANGED <<critical, telemetry, delivered>>

\* EstopHandler::service, called while session c is active.
ServiceQueues(c) ==
    /\ estop_state = "PendingNotQueued"
    /\ enqueueCritical([kind |-> "EstopTriggered", conn |-> c, reason |-> reason])
    /\ estop_state' = "QueuedAwaitingCompletion"
    /\ UNCHANGED <<reason, accepted, delivered>>

\* The queue is full: the session must be torn down, the event stays pending.
ServiceSaturated ==
    /\ estop_state = "PendingNotQueued"
    /\ ~CanEnqueue
    /\ estop_triggered_state' = MarkedPending(estop_triggered_state)
    /\ UNCHANGED <<critical, telemetry, handlerVars>>

\* handleEstop, handleHeartbeat and dispatch queue their answer.
EnqueueAnswer(kind, c) ==
    /\ kind # "EstopTriggered"
    /\ enqueueCritical([kind |-> kind, conn |-> c, reason |-> NoReason])
    /\ UNCHANGED handlerVars

QueueTelemetry(c) ==
    /\ replaceTelemetry(c)
    /\ UNCHANGED handlerVars

\* drainOne takes the critical entry at index i; routeOutcome hands the
\* outcome to onOutboundOutcome.
DrainCritical(i, sent) ==
    /\ selectCriticalIndex(i)
    /\ critical' = Without(critical, i)
    /\ IF critical[i].kind = "EstopTriggered" /\ estop_state = "QueuedAwaitingCompletion"
       THEN IF sent
            THEN /\ estop_state' = "Empty"
                 /\ reason' = NoReason
                 /\ estop_triggered_state' = StateAfterRemoving(i)
            ELSE /\ estop_state' = "PendingNotQueued"
                 /\ estop_triggered_state' = MarkedPending(StateAfterRemoving(i))
                 /\ UNCHANGED reason
       ELSE /\ estop_triggered_state' = StateAfterRemoving(i)
            /\ UNCHANGED <<estop_state, reason>>
    /\ delivered' = IF sent /\ critical[i].kind = "EstopTriggered"
                    THEN Append(delivered, critical[i].reason) ELSE delivered
    /\ UNCHANGED <<telemetry, accepted>>

\* drainOne takes the telemetry frame: only when no critical message waits.
DrainTelemetry ==
    /\ critical = <<>>
    /\ telemetry # <<>>
    /\ telemetry' = <<>>
    /\ UNCHANGED <<critical, estop_triggered_state, handlerVars>>

\* Mutant: a cancelled event counts as completed.
CancelAll_Completes ==
    /\ critical' = <<>> /\ telemetry' = <<>>
    /\ estop_state' = "Empty" /\ reason' = NoReason
    /\ estop_triggered_state' = "NotPending"
    /\ UNCHANGED <<accepted, delivered>>

\* Mutant: the telemetry slot survives the session end.
CancelAll_KeepsTelemetry ==
    /\ critical' = <<>>
    /\ IF estop_state = "Empty"
       THEN UNCHANGED <<estop_state, estop_triggered_state>>
       ELSE estop_state' = "PendingNotQueued" /\ estop_triggered_state' = "PendingNotQueued"
    /\ UNCHANGED <<telemetry, reason, accepted, delivered>>

\* clearForSessionEnd, then every cancellation is routed to onOutboundOutcome.
CancelAll ==
    /\ critical' = <<>>
    /\ telemetry' = <<>>
    /\ IF /\ \E i \in 1..Len(critical) : critical[i].kind = "EstopTriggered"
          /\ estop_state = "QueuedAwaitingCompletion"
       THEN /\ estop_state' = "PendingNotQueued"
            /\ estop_triggered_state' = MarkedPending(StateAfterClearing)
       ELSE /\ estop_triggered_state' = StateAfterClearing
            /\ UNCHANGED estop_state
    /\ UNCHANGED <<reason, accepted, delivered>>

-----------------------------------------------------------------------------
ChannelNext ==
    \/ \E r \in Reasons : requestEstopTriggered(r)
    \/ \E c \in Conns : ServiceQueues(c)
    \/ ServiceSaturated
    \/ \E k \in CriticalKind, c \in Conns : EnqueueAnswer(k, c)
    \/ \E c \in Conns : QueueTelemetry(c)
    \/ \E i \in 1..CriticalCapacity, sent \in BOOLEAN : DrainCritical(i, sent)
    \/ DrainTelemetry
    \/ CancelAll

ChannelSpec == ChannelInit /\ [][ChannelNext]_channelVars

-----------------------------------------------------------------------------
IsTriggered(i) == i \in 1..Len(critical) /\ critical[i].kind = "EstopTriggered"

\* The critical array never overflows, whatever the callers do: a full queue
\* is reported, not written past (enqueueCritical's capacity test).
QueueWithinCapacity == Len(critical) <= CriticalCapacity

\* The handler's and the scheduler's records of the event agree between calls,
\* and with the queue: queued means exactly one estop_triggered entry, carrying
\* the stored reason; otherwise there is none.
RecordsAgree ==
    /\ estop_state = "Empty" <=> estop_triggered_state = "NotPending"
    /\ estop_state = "QueuedAwaitingCompletion" <=> estop_triggered_state = "Queued"
    /\ estop_state = "QueuedAwaitingCompletion" <=> \E i \in 1..Len(critical) : IsTriggered(i)
    /\ \A i, j \in 1..Len(critical) : IsTriggered(i) /\ IsTriggered(j) => i = j
    /\ \A i \in 1..Len(critical) : IsTriggered(i) => critical[i].reason = reason

\* Every accepted board-local e-stop is delivered exactly once, in order and
\* with the reason it was accepted with, however often the event is requeued
\* after a failed send or a session end; at most one is outstanding.
ExactlyOnceInOrder ==
    accepted = IF estop_state = "Empty" THEN delivered ELSE Append(delivered, reason)

-----------------------------------------------------------------------------
(***************************************************************************)
(* What the channel promises, whatever it does inside.                     *)
(***************************************************************************)
Delivery == INSTANCE EstopDelivery

\* The queueing, failing, cancelling and requeueing of the event implements
\* the two-step promise of EstopDelivery: accept one, deliver that one.
ImplementsDelivery == Delivery!Spec

=============================================================================
