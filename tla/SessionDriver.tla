--------------------------- MODULE SessionDriver ---------------------------
(***************************************************************************)
(* The session driver: the lifecycle of the one controller session, with   *)
(* the line framer and the outbound writer it owns (core/SessionDriver.h,  *)
(* core/SessionState.h, core/LineFramer.h, core/OutboundWriter.h), over a  *)
(* network that may at any moment offer or lose a connection.              *)
(*                                                                         *)
(* The bytes of the wire are abstracted to complete lines: what arrives on *)
(* a connection is a sequence of lines of some kind, tagged with the       *)
(* connection.  (Modules LineFramer and OutboundWriter look at the bytes.) *)
(* The teardown reason is left out: nothing in the firmware reads it.      *)
(*                                                                         *)
(* Every definition below "Driver steps" describes what one step of a      *)
(* service pass does to the driver; ServiceLoop sequences them.            *)
(***************************************************************************)
EXTENDS Connection, Naturals, Sequences

CONSTANTS
    LineKinds,            \* kinds of inbound line the controller sends
    TelemetryStreakLimit  \* kTelemetryDeadlineFailuresToTeardown

ASSUME StreakAssumption == TelemetryStreakLimit \in Nat \ {0}

VARIABLES
    peer,       \* what the board's TCP stack knows of each connection's far end
    backlog,    \* connections completed by TCP and not yet accepted, oldest first
    link,       \* TRUE while the Ethernet link is up
    listening   \* NetworkServer::isListening()

netVars == <<peer, backlog, link, listening>>

VARIABLES
    state,               \* state_
    active_handle,       \* active_handle_
    replacement_handle,  \* replacement_handle_
    teardown_pending,    \* teardown_pending_
    framed,              \* complete lines in the framer: active line, then pending line
    streak               \* OutboundWriter::consecutive_telemetry_failures_

driverVars == <<state, active_handle, replacement_handle, teardown_pending, framed, streak>>

VARIABLES
    introduced,              \* history: connections that were sent the schema
    hook_runs,               \* history: controller-loss hook runs, per connection
    sessions_accepted,       \* Counters::sessions_accepted
    controller_disconnects   \* Counters::controller_disconnects

historyVars == <<introduced, hook_runs, sessions_accepted, controller_disconnects>>

SessionState == {"BOOT_SAFE", "NETWORK_STARTING", "LISTENING", "SESSION_CONNECTED",
                 "SESSION_ACTIVE", "SESSION_CLOSING"}

Line == [kind : LineKinds, conn : Conns]

DriverTypeOK ==
    /\ peer \in [Conns -> {"away", "open", "closing", "closed"}]
    /\ backlog \in Seq(Conns)
    /\ link \in BOOLEAN /\ listening \in BOOLEAN
    /\ state \in SessionState
    /\ active_handle \in Conns \cup {NoConn}
    /\ replacement_handle \in Conns \cup {NoConn}
    /\ teardown_pending \in BOOLEAN
    /\ framed \in Seq(Line) /\ Len(framed) <= 2
    /\ streak \in 0..TelemetryStreakLimit
    /\ introduced \subseteq Conns
    /\ hook_runs \in [Conns -> Nat]
    /\ sessions_accepted \in Nat /\ controller_disconnects \in Nat

\* The driver as start() leaves it: begin() has moved it out of BOOT_SAFE.
DriverInit ==
    /\ peer = [c \in Conns |-> "away"]
    /\ backlog = <<>>
    /\ link \in BOOLEAN
    /\ listening = FALSE
    /\ state = "NETWORK_STARTING"
    /\ active_handle = NoConn
    /\ replacement_handle = NoConn
    /\ teardown_pending = FALSE
    /\ framed = <<>>
    /\ streak = 0
    /\ introduced = {}
    /\ hook_runs = [c \in Conns |-> 0]
    /\ sessions_accepted = 0
    /\ controller_disconnects = 0

-----------------------------------------------------------------------------
(***************************************************************************)
(* The network around the board.                                           *)
(***************************************************************************)

\* A controller completes a TCP connection to the listening board.
ControllerConnects(c) ==
    /\ link /\ listening
    /\ peer[c] = "away"
    /\ peer' = [peer EXCEPT ![c] = "open"]
    /\ backlog' = Append(backlog, c)
    /\ UNCHANGED <<link, listening>>

\* The far end closes or resets.  Received bytes may still be unread
\* ("closing"); a connection that was still waiting may be dropped by the
\* server before it is ever accepted.
PeerCloses(c) ==
    /\ link
    /\ peer[c] = "open"
    /\ \E seen \in {"closing", "closed"} : peer' = [peer EXCEPT ![c] = seen]
    /\ \/ UNCHANGED backlog
       \/ \E i \in 1..Len(backlog) :
             /\ backlog[i] = c
             /\ backlog' = [j \in 1..(Len(backlog) - 1) |->
                               backlog[IF j < i THEN j ELSE j + 1]]
    /\ UNCHANGED <<link, listening>>

LinkChanges ==
    /\ link' = ~link
    /\ UNCHANGED <<peer, backlog, listening>>

\* The listening socket goes away under the driver (pumpListening reopens it).
ListenerDrops ==
    /\ listening
    /\ listening' = FALSE
    /\ UNCHANGED <<peer, backlog, link>>

NetworkStep ==
    \/ \E c \in Conns : ControllerConnects(c) \/ PeerCloses(c)
    \/ LinkChanges
    \/ ListenerDrops

\* Mutant: no newcomer is looked for while a session is active.
hasPendingConnection_NotInSession ==
    listening /\ backlog # <<>> /\ state # "SESSION_ACTIVE"

hasPendingConnection == listening /\ backlog # <<>>

-----------------------------------------------------------------------------
(***************************************************************************)
(* The driver's state machine.                                             *)
(***************************************************************************)
isValidTransition(from, to) ==
    <<from, to>> \in {<<"BOOT_SAFE", "NETWORK_STARTING">>,
                      <<"NETWORK_STARTING", "LISTENING">>,
                      <<"LISTENING", "SESSION_CONNECTED">>,
                      <<"SESSION_CONNECTED", "SESSION_ACTIVE">>,
                      <<"SESSION_CONNECTED", "SESSION_CLOSING">>,
                      <<"SESSION_ACTIVE", "SESSION_CLOSING">>,
                      <<"SESSION_CLOSING", "LISTENING">>}

\* The state transitionTo(to) leaves: an invalid transition is ignored silently.
After(from, to) == IF isValidTransition(from, to) THEN to ELSE from

transitionTo(to) == state' = After(state, to)

sessionActive == state = "SESSION_ACTIVE" /\ active_handle # NoConn

requestTeardown ==
    /\ teardown_pending' = TRUE
    /\ IF ~teardown_pending /\ state \in {"SESSION_CONNECTED", "SESSION_ACTIVE"}
       THEN transitionTo("SESSION_CLOSING")
       ELSE UNCHANGED state

-----------------------------------------------------------------------------
(***************************************************************************)
(* Driver steps.                                                           *)
(***************************************************************************)

\* availability() is Ready (an interface without an address counts as no link).
Ready == link

\* poll() in NETWORK_STARTING: begin may fail and is retried by a later pass.
pumpNetworkStarting ==
    /\ state = "NETWORK_STARTING"
    /\ \/ /\ Ready
          /\ listening' = TRUE
          /\ transitionTo("LISTENING")
       \/ UNCHANGED <<listening, state>>
    /\ UNCHANGED <<peer, backlog, link, active_handle, replacement_handle,
                   teardown_pending, framed, streak, historyVars>>

\* poll() in LISTENING: the listening socket is reopened if it is gone.
Relisten ==
    \/ listening' = listening
    \/ ~listening /\ Ready /\ listening' = TRUE

\* No connection to accept.
pumpListening_Idle ==
    /\ state = "LISTENING"
    /\ Relisten
    /\ ~(listening' /\ backlog # <<>>)
    /\ UNCHANGED <<peer, backlog, link, driverVars, historyVars>>

\* accept() yields no usable connection (it was reset meanwhile): rejected.
RejectPending ==
    /\ peer[Head(backlog)] = "closed"
    /\ backlog' = Tail(backlog)
    /\ UNCHANGED <<peer, link, driverVars, historyVars>>

pumpListening_Reject ==
    /\ state = "LISTENING"
    /\ Relisten
    /\ listening' /\ backlog # <<>>
    /\ RejectPending

\* The oldest waiting connection is accepted; promoteAcceptedConnection(c) follows.
pumpListening_Accept(c) ==
    /\ state = "LISTENING"
    /\ Relisten
    /\ listening' /\ backlog # <<>> /\ c = Head(backlog)
    /\ backlog' = Tail(backlog)
    /\ sessions_accepted' = sessions_accepted + 1
    /\ UNCHANGED <<peer, link, driverVars, introduced, hook_runs, controller_disconnects>>

\* poll() while a session is up and another controller has connected: the new
\* connection is held and the session in progress is superseded.
acceptReplacement ==
    /\ state \in {"SESSION_CONNECTED", "SESSION_ACTIVE"}
    /\ hasPendingConnection
    /\ backlog' = Tail(backlog)
    /\ sessions_accepted' = sessions_accepted + 1
    /\ replacement_handle' = Head(backlog)
    /\ requestTeardown
    /\ UNCHANGED <<peer, link, listening, active_handle, framed, streak,
                   introduced, hook_runs, controller_disconnects>>

acceptReplacement_Reject ==
    /\ state \in {"SESSION_CONNECTED", "SESSION_ACTIVE"}
    /\ hasPendingConnection
    /\ RejectPending
    /\ UNCHANGED listening

\* Mutant: a connection closed by its peer is taken for a quiet one.
Lost_LinkOnly == ~link

\* transport->connectionState() of the active connection is Closed or LinkDown.
Lost == ~link \/ peer[active_handle] = "closed"

detectActiveLoss ==
    /\ Lost
    /\ requestTeardown
    /\ UNCHANGED <<netVars, active_handle, replacement_handle, framed, streak, historyVars>>

\* readAvailable(): the framer takes at most two complete lines, and bytes are
\* only read while it holds none.  Closing the session is left to Lost.
readAvailable ==
    /\ ~Lost
    /\ IF framed # <<>> THEN UNCHANGED <<framed, peer>>
       ELSE /\ \E n \in 0..2 : \E ks \in [1..n -> LineKinds] :
                  framed' = [i \in 1..n |-> [kind |-> ks[i], conn |-> active_handle]]
            /\ peer' = IF peer[active_handle] = "closing"
                       THEN [peer EXCEPT ![active_handle] = "closed"] ELSE peer
    /\ UNCHANGED <<backlog, link, listening, state, active_handle, replacement_handle,
                   teardown_pending, streak, historyVars>>

\* poll() while a session is up and no other controller waits.
pollSession ==
    /\ state \in {"SESSION_CONNECTED", "SESSION_ACTIVE"}
    /\ ~hasPendingConnection
    /\ detectActiveLoss \/ readAvailable

\* nextLine() in an active session: one more read when no line is ready.
nextLine ==
    /\ sessionActive /\ ~teardown_pending
    /\ IF framed # <<>> THEN UNCHANGED <<netVars, driverVars, historyVars>>
       ELSE detectActiveLoss \/ readAvailable

\* releaseLine(): the pending line, if any, becomes the active one.
releaseLine == framed' = Tail(framed)

-----------------------------------------------------------------------------
\* The transmit deadline lets a line through only on a connection that is up.
CanSend == link /\ peer[active_handle] \in {"open", "closing"}

\* Mutant: the telemetry streak is compared with > instead of >=.
sendActiveLine_LateTeardown(class, sent) ==
    \/ /\ sent
       /\ sessionActive /\ ~teardown_pending /\ CanSend
       /\ streak' = IF class = "Telemetry" THEN 0 ELSE streak
       /\ UNCHANGED <<state, teardown_pending>>
    \/ /\ ~sent
       /\ streak' = IF class = "Telemetry" THEN streak + 1 ELSE streak
       /\ IF class = "Critical" \/ streak' > TelemetryStreakLimit
          THEN requestTeardown
          ELSE UNCHANGED <<state, teardown_pending>>

\* Mutant: a critical line that could not be sent is dropped like telemetry.
sendActiveLine_ToleratesFailure(class, sent) ==
    /\ sent => sessionActive /\ ~teardown_pending /\ CanSend
    /\ UNCHANGED <<state, teardown_pending, streak>>

\* What sending a line of the given class does to the writer and the driver,
\* the service loop's reaction to a failed critical send included.
sendActiveLine(class, sent) ==
    \/ /\ sent
       /\ sessionActive /\ ~teardown_pending /\ CanSend
       /\ streak' = IF class = "Telemetry" THEN 0 ELSE streak
       /\ UNCHANGED <<state, teardown_pending>>
    \/ /\ ~sent /\ class = "Critical"
       /\ requestTeardown
       /\ UNCHANGED streak
    \/ /\ ~sent /\ class = "Telemetry"
       /\ streak' = IF streak < TelemetryStreakLimit THEN streak + 1 ELSE streak
       /\ IF streak < TelemetryStreakLimit /\ streak' >= TelemetryStreakLimit
          THEN requestTeardown
          ELSE UNCHANGED <<state, teardown_pending>>

-----------------------------------------------------------------------------
\* Mutant: the framer is not closed with the session.
applyPendingTeardown_KeepsLines ==
    /\ teardown_pending
    /\ hook_runs' = [hook_runs EXCEPT ![active_handle] = @ + 1]
    /\ controller_disconnects' = controller_disconnects + 1
    /\ peer' = [peer EXCEPT ![active_handle] = "closed"]
    /\ streak' = 0
    /\ active_handle' = NoConn /\ replacement_handle' = NoConn
    /\ teardown_pending' = FALSE
    /\ transitionTo("LISTENING")
    /\ UNCHANGED <<framed, backlog, link, listening, introduced, sessions_accepted>>

\* Mutant: the loss hook runs only for a connection that got its schema.
applyPendingTeardown_HookIfIntroduced ==
    /\ teardown_pending
    /\ IF active_handle \in introduced
       THEN hook_runs' = [hook_runs EXCEPT ![active_handle] = @ + 1]
       ELSE UNCHANGED hook_runs
    /\ controller_disconnects' = controller_disconnects + 1
    /\ peer' = [peer EXCEPT ![active_handle] = "closed"]
    /\ framed' = <<>> /\ streak' = 0
    /\ active_handle' = NoConn /\ replacement_handle' = NoConn
    /\ teardown_pending' = FALSE
    /\ transitionTo("LISTENING")
    /\ UNCHANGED <<backlog, link, listening, introduced, sessions_accepted>>

\* applyPendingTeardown() up to its return to LISTENING: the application's
\* controller-loss hook runs first, then the connection is dropped.
applyPendingTeardown ==
    /\ teardown_pending
    /\ IF active_handle # NoConn
       THEN /\ hook_runs' = [hook_runs EXCEPT ![active_handle] = @ + 1]
            /\ controller_disconnects' = controller_disconnects + 1
            /\ peer' = [peer EXCEPT ![active_handle] = "closed"]
       ELSE UNCHANGED <<hook_runs, controller_disconnects, peer>>
    /\ framed' = <<>>
    /\ streak' = 0
    /\ active_handle' = NoConn
    /\ teardown_pending' = FALSE
    /\ transitionTo("LISTENING")
    /\ replacement_handle' = NoConn
    /\ UNCHANGED <<backlog, link, listening, introduced, sessions_accepted>>

\* promoteAcceptedConnection(c): the schema must go out before the session is
\* active.
promote_Sent(c) ==
    /\ link /\ peer[c] \in {"open", "closing"}
    /\ state' = After(After(state, "SESSION_CONNECTED"), "SESSION_ACTIVE")
    /\ introduced' = introduced \cup {c}
    /\ UNCHANGED teardown_pending

promote_Failed ==
    /\ teardown_pending' = TRUE
    /\ state' = After(After(state, "SESSION_CONNECTED"), "SESSION_CLOSING")
    /\ UNCHANGED introduced

promoteAcceptedConnection(c, sent) ==
    /\ active_handle' = c
    /\ streak' = 0
    /\ framed' = <<>>
    /\ IF sent THEN promote_Sent(c) ELSE promote_Failed
    /\ UNCHANGED <<netVars, replacement_handle, hook_runs, sessions_accepted,
                   controller_disconnects>>

=============================================================================
