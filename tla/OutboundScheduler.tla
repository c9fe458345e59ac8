------------------------- MODULE OutboundScheduler -------------------------
(***************************************************************************)
(* The board's outbound queue: a bounded array of critical messages, one   *)
(* replaceable telemetry slot, and the scheduler's own record of where the *)
(* board-local estop_triggered event stands (core/OutboundScheduler.h).    *)
(*                                                                         *)
(* A message is abstracted to its kind, the controller connection during   *)
(* which it was produced (which the code does not store: it is what the    *)
(* session-isolation properties are about) and, for estop_triggered, the   *)
(* reason that was copied into it.  The operations are action fragments    *)
(* over the scheduler's three variables; EstopHandler and ServiceLoop      *)
(* conjoin them with the callers' own state.                               *)
(***************************************************************************)
EXTENDS Connection, Naturals, Sequences

CONSTANTS
    Reasons,           \* reasons the application passes to requestEstopTriggered
    NoReason,          \* reason field of every other message
    CriticalCapacity   \* kOutboundCriticalQueueCapacity

ASSUME CapacityAssumption == CriticalCapacity \in Nat \ {0}
ASSUME ReasonAssumption == NoReason \notin Reasons

VARIABLES
    critical,              \* critical_[0 .. critical_count_-1]
    telemetry,             \* the telemetry slot: <<>> or <<c>>, c the producing session
    estop_triggered_state  \* estop_triggered_state_

schedulerVars == <<critical, telemetry, estop_triggered_state>>

CriticalKind == {"CommandResponse", "EstopAck", "EstopTriggered", "HeartbeatAck"}

Entry == [kind : CriticalKind, conn : Conns, reason : Reasons \cup {NoReason}]

\* The telemetry slot holds at most one frame.
TelemetrySlot == {<<>>} \cup {<<c>> : c \in Conns}

EstopTriggeredPendingState == {"NotPending", "PendingNotQueued", "Queued"}

SchedulerTypeOK ==
    /\ critical \in Seq(Entry)
    /\ telemetry \in TelemetrySlot
    /\ estop_triggered_state \in EstopTriggeredPendingState

SchedulerInit ==
    /\ critical = <<>>
    /\ telemetry = <<>>
    /\ estop_triggered_state = "NotPending"

-----------------------------------------------------------------------------
hasPending == critical # <<>> \/ telemetry # <<>>

\* Mutant: the board-local event is sent after everything else.
priorityFor_EventLast(kind) == IF kind = "EstopTriggered" THEN 3 ELSE 1

\* Lower is sent first.
priorityFor(kind) ==
    CASE kind \in {"EstopAck", "EstopTriggered"} -> 0
      [] kind = "HeartbeatAck"                   -> 2
      [] OTHER                                   -> 1

\* The index chosen by the linear scan: the first entry of the best priority.
selectCriticalIndex(i) ==
    /\ i \in 1..Len(critical)
    /\ \A j \in 1..Len(critical) :
          /\ priorityFor(critical[i].kind) <= priorityFor(critical[j].kind)
          /\ j < i => priorityFor(critical[i].kind) < priorityFor(critical[j].kind)

\* The queue after removeCritical's shift of the entries behind index i.
Without(q, i) == [j \in 1..(Len(q) - 1) |-> IF j < i THEN q[j] ELSE q[j + 1]]

-----------------------------------------------------------------------------
\* enqueueCritical succeeds: Queued.
CanEnqueue == Len(critical) < CriticalCapacity

enqueueCritical(entry) ==
    /\ CanEnqueue
    /\ critical' = Append(critical, entry)
    /\ estop_triggered_state' =
          IF entry.kind = "EstopTriggered" THEN "Queued" ELSE estop_triggered_state
    /\ UNCHANGED telemetry

\* The state markEstopTriggeredPending leaves.
MarkedPending(st) == IF st = "NotPending" THEN "PendingNotQueued" ELSE st

\* A frame already in the slot is overwritten (telemetry_coalesced).
replaceTelemetry(c) ==
    /\ telemetry' = <<c>>
    /\ UNCHANGED <<critical, estop_triggered_state>>

\* The state removeCritical leaves after removing the entry at index i.
StateAfterRemoving(i) ==
    IF critical[i].kind = "EstopTriggered" THEN "NotPending" ELSE estop_triggered_state

\* Mutant: the session end forgets the event, as clear() does.
StateAfterClearing_Resets == "NotPending"

\* The state clearForSessionEnd leaves.
StateAfterClearing ==
    IF \E i \in 1..Len(critical) : critical[i].kind = "EstopTriggered"
    THEN "PendingNotQueued" ELSE estop_triggered_state

=============================================================================
