---------------------------- MODULE ServiceLoop ----------------------------
(***************************************************************************)
(* The cooperative service loop (core/ServiceLoop.h) driving the session   *)
(* driver, the outbound scheduler, the estop, heartbeat, command and       *)
(* telemetry handlers: what TeensyCommandServer::service() does on every   *)
(* pass, as wired by the facade.                                           *)
(*                                                                         *)
(* A pass is a sequence of steps, named by pc.  The board is               *)
(* single-threaded, but the network moves between any two steps, and the   *)
(* application's code runs at four places: between passes, in the          *)
(* telemetry provider, in a command handler or e-stop hook, and in the     *)
(* controller-loss hook.  At each of them it may call                      *)
(* requestEstopTriggered.                                                  *)
(***************************************************************************)
EXTENDS EstopHandler, SessionDriver, FiniteSets

VARIABLES
    pc,               \* the next step of the pass
    acquired,         \* service()'s local: a line was acquired by nextLine
    drained,          \* service()'s local drained_outbound
    candidate,        \* the connection about to be promoted
    resume,           \* where the pass goes on after a promotion or a teardown
    first_frame_due,  \* TelemetryScheduler::first_frame_due_ (session_active_ is its negation)
    owed              \* history: answers this session has earned and not yet been sent

passVars == <<pc, acquired, drained, candidate, resume>>
vars == <<channelVars, netVars, driverVars, historyVars, passVars, first_frame_due, owed>>

Step == {"idle", "nextLine", "telemetryDue", "safetyDue", "drainFirst", "processLine",
         "drainAfter", "cancel", "apply", "promote"}

AnswerKind == {"CommandResponse", "EstopAck", "HeartbeatAck"}

NothingOwed == [k \in AnswerKind |-> 0]

LoopTypeOK ==
    /\ TypeOK
    /\ DriverTypeOK
    /\ pc \in Step
    /\ acquired \in BOOLEAN /\ drained \in BOOLEAN
    /\ candidate \in Conns \cup {NoConn}
    /\ resume \in {"idle", "nextLine"}
    /\ first_frame_due \in BOOLEAN
    /\ owed \in [AnswerKind -> Nat]

Init ==
    /\ ChannelInit
    /\ DriverInit
    /\ pc = "idle"
    /\ acquired = FALSE /\ drained = FALSE
    /\ candidate = NoConn
    /\ resume = "idle"
    /\ first_frame_due = TRUE
    /\ owed = NothingOwed

-----------------------------------------------------------------------------
\* poll() moves the driver; the pass goes on to nextLine.
Poll ==
    /\ pc = "idle"
    /\ \/ pumpNetworkStarting
       \/ pumpListening_Idle
       \/ pumpListening_Reject
       \/ acceptReplacement
       \/ acceptReplacement_Reject
       \/ pollSession
    /\ pc' = "nextLine"
    /\ acquired' = FALSE /\ drained' = FALSE
    /\ UNCHANGED <<channelVars, candidate, resume, first_frame_due, owed>>

\* poll() accepts a controller while listening and promotes it in the same call.
PollAccept ==
    /\ pc = "idle"
    /\ \E c \in Conns : pumpListening_Accept(c) /\ candidate' = c
    /\ pc' = "promote" /\ resume' = "nextLine"
    /\ acquired' = FALSE /\ drained' = FALSE
    /\ UNCHANGED <<channelVars, first_frame_due, owed>>

Promote ==
    /\ pc = "promote"
    /\ \E sent \in BOOLEAN :
          /\ promoteAcceptedConnection(candidate, sent)
          /\ pc' = IF sent THEN resume ELSE "apply"
    /\ candidate' = NoConn
    /\ UNCHANGED <<channelVars, acquired, drained, resume, first_frame_due, owed>>

NextLine ==
    /\ pc = "nextLine"
    /\ IF sessionActive /\ ~teardown_pending
       THEN nextLine
       ELSE UNCHANGED <<netVars, driverVars, historyVars>>
    /\ acquired' = (sessionActive /\ ~teardown_pending /\ framed' # <<>>)
    /\ pc' = IF teardown_pending' THEN "cancel" ELSE "telemetryDue"
    /\ UNCHANGED <<channelVars, drained, candidate, resume, first_frame_due, owed>>

-----------------------------------------------------------------------------
telemetrySessionActive == sessionActive /\ ~teardown_pending

\* TelemetryScheduler::buildAndQueue: a provider that fails, or a frame that
\* does not fit its line, drops the frame.
buildAndQueue == QueueTelemetry(active_handle) \/ UNCHANGED channelVars

\* TelemetryScheduler::service: the first frame of a session is due at once, the
\* next ones when the period has elapsed.
TelemetryService ==
    \/ first_frame_due' = FALSE /\ buildAndQueue
    \/ ~first_frame_due /\ UNCHANGED <<first_frame_due, channelVars>>

\* TelemetryScheduler::onSessionInactive.
onSessionInactive == first_frame_due' = TRUE

\* runTelemetryDueCheck.
TelemetryDue ==
    /\ pc = "telemetryDue"
    /\ IF telemetrySessionActive
       THEN TelemetryService
       ELSE onSessionInactive /\ UNCHANGED channelVars
    /\ pc' = "safetyDue"
    /\ UNCHANGED <<netVars, driverVars, historyVars, acquired, drained, candidate, resume, owed>>

\* runSafetyDueCheck: a full queue tears the session down.
SafetyDue ==
    /\ pc = "safetyDue"
    /\ IF telemetrySessionActive /\ estop_state = "PendingNotQueued"
       THEN \/ /\ ServiceQueues(active_handle)
               /\ pc' = "drainFirst"
               /\ UNCHANGED driverVars
            \/ /\ ServiceSaturated
               /\ requestTeardown
               /\ pc' = "cancel"
               /\ UNCHANGED <<active_handle, replacement_handle, framed, streak>>
       ELSE /\ pc' = "drainFirst"
            /\ UNCHANGED <<channelVars, driverVars>>
    /\ UNCHANGED <<netVars, historyVars, acquired, drained, candidate, resume,
                   first_frame_due, owed>>

-----------------------------------------------------------------------------
\* drainRouteAndMaybeTeardown: one message is sent, its outcome routed, and the
\* session torn down when a critical send failed or the writer asked for it.
DrainOne ==
    /\ \E sent \in BOOLEAN :
          \/ \E i \in 1..Len(critical) :
                /\ DrainCritical(i, sent)
                /\ sendActiveLine("Critical", sent)
                /\ owed' = IF sent /\ critical[i].kind \in AnswerKind
                           THEN [owed EXCEPT ![critical[i].kind] = @ - 1] ELSE owed
          \/ /\ DrainTelemetry
             /\ sendActiveLine("Telemetry", sent)
             /\ UNCHANGED owed
    /\ UNCHANGED <<active_handle, replacement_handle, framed>>

\* Mutant: the pass goes on without asking whether the drain ended the session.
DrainFirst_IgnoresTeardown ==
    /\ pc = "drainFirst"
    /\ IF hasPending
       THEN DrainOne /\ drained' = TRUE
       ELSE UNCHANGED <<channelVars, driverVars, owed, drained>>
    /\ pc' = IF acquired THEN "processLine" ELSE "idle"
    /\ UNCHANGED <<netVars, historyVars, acquired, candidate, resume, first_frame_due>>

\* Mutant: the drain is put off while lines keep coming.
DrainFirst_LinesFirst ==
    /\ pc = "drainFirst"
    /\ IF hasPending /\ ~acquired
       THEN DrainOne
       ELSE UNCHANGED <<channelVars, driverVars, owed>>
    /\ drained' = hasPending
    /\ pc' = IF teardown_pending' THEN "cancel"
             ELSE IF acquired THEN "processLine" ELSE "idle"
    /\ UNCHANGED <<netVars, historyVars, acquired, candidate, resume, first_frame_due>>

DrainFirst ==
    /\ pc = "drainFirst"
    /\ IF hasPending
       THEN DrainOne /\ drained' = TRUE
       ELSE UNCHANGED <<channelVars, driverVars, owed, drained>>
    /\ pc' = IF teardown_pending' THEN "cancel"
             ELSE IF acquired THEN "processLine" ELSE "idle"
    /\ UNCHANGED <<netVars, historyVars, acquired, candidate, resume, first_frame_due>>

DrainAfter ==
    /\ pc = "drainAfter"
    /\ DrainOne
    /\ pc' = IF teardown_pending' THEN "cancel" ELSE "idle"
    /\ UNCHANGED <<netVars, historyVars, acquired, drained, candidate, resume, first_frame_due>>

-----------------------------------------------------------------------------
\* CommandDispatcher::dispatch: an unknown command, bad arguments, a failing
\* handler and a result that does not fit all earn an error response.
dispatch == {<<"CommandResponse">>}

\* EstopHandler::handleEstop: an ack only when the application's hook is set and
\* reports a safe state.
handleEstop == {<<"EstopAck">>, <<>>}

handleHeartbeat == {<<"HeartbeatAck">>}

\* routeValid: the answers a line of some kind may earn.  A line that is
\* malformed, of an unknown type or not addressed to this board earns none.
Answers(kind) ==
    CASE kind = "command"   -> dispatch
      [] kind = "heartbeat" -> handleHeartbeat
      [] kind = "estop"     -> handleEstop
      [] OTHER              -> {<<>>}

\* processLine and releaseLine; an answer that finds the queue full tears the
\* session down.
ProcessLine ==
    /\ pc = "processLine"
    /\ \E answer \in Answers(Head(framed).kind) :
          IF answer = <<>>
          THEN UNCHANGED <<channelVars, state, teardown_pending, owed>>
          ELSE /\ owed' = [owed EXCEPT ![answer[1]] = @ + 1]
               /\ \/ /\ EnqueueAnswer(answer[1], active_handle)
                     /\ UNCHANGED <<state, teardown_pending>>
                  \/ /\ ~CanEnqueue
                     /\ requestTeardown
                     /\ UNCHANGED channelVars
    /\ releaseLine
    /\ pc' = IF teardown_pending' THEN "cancel"
             ELSE IF ~drained /\ hasPending' THEN "drainAfter" ELSE "idle"
    /\ acquired' = FALSE
    /\ UNCHANGED <<netVars, active_handle, replacement_handle, streak, historyVars,
                   drained, candidate, resume, first_frame_due>>

-----------------------------------------------------------------------------
\* Mutant: the cancelled messages are not routed to the estop handler.
Cancel_NotRouted ==
    /\ pc = "cancel"
    /\ critical' = <<>> /\ telemetry' = <<>>
    /\ estop_triggered_state' = StateAfterClearing
    /\ first_frame_due' = TRUE
    /\ pc' = "apply" /\ resume' = "idle"
    /\ UNCHANGED <<handlerVars, netVars, driverVars, historyVars, acquired, drained,
                   candidate, owed>>

\* cancelRouteAndApply: everything queued is cancelled before the session ends.
Cancel ==
    /\ pc = "cancel"
    /\ CancelAll
    /\ onSessionInactive
    /\ pc' = "apply" /\ resume' = "idle"
    /\ UNCHANGED <<netVars, driverVars, historyVars, acquired, drained, candidate, owed>>

\* Mutant: the held replacement is forgotten.
Apply_ForgetsReplacement ==
    /\ pc = "apply"
    /\ applyPendingTeardown
    /\ owed' = NothingOwed
    /\ acquired' = FALSE
    /\ pc' = resume
    /\ UNCHANGED <<channelVars, drained, candidate, resume, first_frame_due>>

\* applyPendingTeardown: a held replacement is promoted straight away.
Apply ==
    /\ pc = "apply"
    /\ applyPendingTeardown
    /\ owed' = NothingOwed
    /\ acquired' = FALSE
    /\ candidate' = replacement_handle
    /\ pc' = IF replacement_handle # NoConn THEN "promote" ELSE resume
    /\ UNCHANGED <<channelVars, drained, resume, first_frame_due>>

-----------------------------------------------------------------------------
ServicePass ==
    \/ Poll
    \/ PollAccept
    \/ Promote
    \/ NextLine
    \/ TelemetryDue
    \/ SafetyDue
    \/ DrainFirst
    \/ DrainAfter
    \/ ProcessLine
    \/ Cancel
    \/ Apply

\* The application reports a board-local e-stop, between passes or from one of
\* its callbacks (provider, handler or hook, controller-loss hook).
Application ==
    /\ pc \in {"idle", "telemetryDue", "processLine", "apply"}
    /\ \E r \in Reasons : requestEstopTriggered(r)
    /\ UNCHANGED <<netVars, driverVars, historyVars, passVars, first_frame_due, owed>>

Network ==
    /\ NetworkStep
    /\ UNCHANGED <<channelVars, driverVars, historyVars, passVars, first_frame_due, owed>>

Next == ServicePass \/ Application \/ Network

\* loop() calls service() for ever; nothing is assumed of the network or of
\* the application.
Spec == Init /\ [][Next]_vars /\ WF_vars(ServicePass)

-----------------------------------------------------------------------------
(***************************************************************************)
(* Safety.                                                                 *)
(***************************************************************************)
Count(kind) == Cardinality({i \in 1..Len(critical) : critical[i].kind = kind})

\* No answer, event or telemetry frame queued for one controller can reach
\* another: everything queued was produced for the connection now being
\* served (cancelRouteAndApply empties the scheduler before the session ends).
OutboundBelongsToSession ==
    /\ \A i \in 1..Len(critical) : critical[i].conn = active_handle
    /\ telemetry # <<>> => telemetry[1] = active_handle

\* A line is acted upon only in the session that delivered it, after that
\* controller was sent the schema and before its teardown has begun; a line
\* framed for an earlier controller is never acted upon.
InboundBelongsToSession ==
    /\ \A i \in 1..Len(framed) : framed[i].conn = active_handle
    /\ pc = "processLine" => /\ sessionActive /\ ~teardown_pending
                             /\ active_handle \in introduced
                             /\ framed # <<>>

\* A teardown requested anywhere in a pass is carried out by the same pass:
\* between passes the board is starting, listening, or in an active session
\* with a connection, and holds no connection it does not serve.
TeardownEndsWithPass ==
    pc = "idle" =>
        /\ ~teardown_pending
        /\ replacement_handle = NoConn /\ candidate = NoConn
        /\ state \in {"NETWORK_STARTING", "LISTENING", "SESSION_ACTIVE"}
        /\ state = "SESSION_ACTIVE" <=> active_handle # NoConn

\* No accepted connection is ever leaked: every one counted in
\* sessions_accepted is being served, held for promotion, or counted in
\* controller_disconnects, through supersession and failed schemas alike.
SessionsAccounted ==
    sessions_accepted = controller_disconnects
        + (IF active_handle # NoConn THEN 1 ELSE 0)
        + (IF replacement_handle # NoConn THEN 1 ELSE 0)
        + (IF candidate # NoConn THEN 1 ELSE 0)

\* While a session lives, each executed command, acknowledged e-stop and
\* heartbeat has its answer in the queue or on the wire, once: an answer is
\* given up only together with the session.
AnswersAccounted ==
    ~teardown_pending => \A k \in AnswerKind : owed[k] = Count(k)

\* A line is processed only when its answer has room in the queue, so that a
\* controller cannot lose its session by sending fast: the teardown that the
\* handlers ask for when the queue is full never comes from an inbound line.
RoomForAnswer == pc = "processLine" => CanEnqueue

\* The loop makes its calls on the scheduler and the estop handler in the
\* pairs that ChannelNext describes, so every theorem about ChannelSpec holds
\* of the loop.
UsesChannel == ChannelSpec

\* The driver, with its supersession, failed schemas and nested teardown,
\* serves one controller at a time and runs the loss hook once for each.
Sessions == INSTANCE ControllerSession WITH serving <- active_handle
ImplementsControllerSession == Sessions!Spec

-----------------------------------------------------------------------------
(***************************************************************************)
(* Liveness.                                                               *)
(***************************************************************************)

\* In a session that lasts, a board-local e-stop reaches the controller,
\* however much the controller sends: responses and acks queued meanwhile
\* cannot starve it.
EstopReachesController ==
    <>[]sessionActive => (estop_state # "Empty" ~> estop_state = "Empty")

\* A connection lost by the network is noticed and dropped, and its loss hook
\* run, even when the controller left unread lines behind.
LossNoticed ==
    \A c \in Conns : (active_handle = c /\ peer[c] \in {"closing", "closed"})
                        ~> active_handle # c

\* A controller that connects while another is being served is taken on (or
\* gives up), however busy the session in progress keeps the loop.
NewcomerTakenOn ==
    <>[]listening => \A c \in Conns :
        ((\E i \in 1..Len(backlog) : backlog[i] = c)
            ~> ~(\E i \in 1..Len(backlog) : backlog[i] = c))

\* A queued telemetry frame leaves the board in a session that lasts.
TelemetryReachesController ==
    <>[]sessionActive => (telemetry # <<>> ~> telemetry = <<>>)

=============================================================================
