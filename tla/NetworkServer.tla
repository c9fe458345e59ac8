--------------------------- MODULE NetworkServer ---------------------------
(***************************************************************************)
(* The board on the network: bringing the interface up, opening the        *)
(* listening socket (platform/qnethernet/QNEthernetNetworkServer.cpp), and *)
(* the one user of the connection table of module ConnectionSlots, the     *)
(* session driver's poll() and teardown (core/SessionDriver.h).            *)
(*                                                                         *)
(* Here a connection is a slot and a generation; what is said over it is   *)
(* the business of modules SessionDriver and ServiceLoop.  A pass is cut   *)
(* where the TCP stack runs inside it, so each step does at most one thing *)
(* to the table: "at" is the place in the pass.                            *)
(*                                                                         *)
(* A millisecond counter of 32 bits, widened to 64, paces the attempts to  *)
(* listen; ClockModulus stands for 2^32.  Nothing reads it once the board  *)
(* has listened, so it stands still from then on.                          *)
(***************************************************************************)
EXTENDS ConnectionSlots

CONSTANTS
    RetryTicks,     \* kNetworkInitRetryMs
    ClockModulus,   \* 2^32
    NoHandle        \* kInvalidConnection

ASSUME ClockAssumption ==
    RetryTicks \in Nat \ {0} /\ ClockModulus \in Nat /\ RetryTicks < ClockModulus
\* kInvalidConnection has generation 0, which accept() never hands out.
ASSUME NoHandleAssumption == NoHandle \notin Handle

VARIABLES
    interface,   \* interface_begin_attempted_, interface_started_
    link,        \* Ethernet.linkStatus() is not LinkOFF
    address,     \* hasAddress(Ethernet.localIP())
    now,         \* monotonicMilliseconds()
    state,       \* SessionDriver::state_ (SESSION_CONNECTED lasts one step)
    network_init_attempted,
    next_network_init_ms,
    active_handle,
    replacement_handle,
    at           \* the step of service() that comes next

tableVars == vars
bringUpVars == <<interface, link, address, now, network_init_attempted, next_network_init_ms>>
sessionVars == <<state, active_handle, replacement_handle, at>>
allVars == <<tableVars, bringUpVars, sessionVars>>

NetInit ==
    /\ Init
    /\ interface = "untried"
    /\ link \in BOOLEAN /\ address \in BOOLEAN
    /\ now \in 0..(ClockModulus - 1)
    /\ state = "NETWORK_STARTING"
    /\ network_init_attempted = FALSE
    /\ next_network_init_ms = now
    /\ active_handle = NoHandle /\ replacement_handle = NoHandle
    /\ at = "poll"

-----------------------------------------------------------------------------
(***************************************************************************)
(* Outside the firmware.                                                   *)
(***************************************************************************)
LinkChanges ==
    /\ link' = ~link
    /\ UNCHANGED <<tableVars, interface, address, now, network_init_attempted,
                   next_network_init_ms, sessionVars>>

\* A DHCP lease is obtained or lost.
AddressChanges ==
    /\ interface = "started"
    /\ address' = ~address
    /\ UNCHANGED <<tableVars, interface, link, now, network_init_attempted,
                   next_network_init_ms, sessionVars>>

\* The TCP stack closes the listening socket, or a client waiting to be accepted.
StackDrops ==
    /\ \/ listening /\ Begin /\ ~listening'
       \/ PendingDropped
    /\ UNCHANGED <<bringUpVars, sessionVars>>

Tick ==
    /\ state = "NETWORK_STARTING"
    /\ now' = (now + 1) % ClockModulus
    /\ UNCHANGED <<tableVars, interface, link, address, network_init_attempted,
                   next_network_init_ms, sessionVars>>

-----------------------------------------------------------------------------
\* availability() = Ready.
Ready == interface = "started" /\ link /\ address

\* progress() starts the interface on the first pass, whatever comes of it.
beginInterfaceIfNeeded ==
    IF interface = "untried" THEN interface' \in {"started", "failed"} ELSE UNCHANGED interface

\* availability() after progress().
ReadyNow == interface' = "started" /\ link /\ address

\* Mutant: the time of the next attempt is an absolute reading of the counter.
RetryDue_Absolute ==
    ~network_init_attempted \/ now >= next_network_init_ms + RetryTicks

\* The elapsed time is a difference of 64 bits: behind a wrapped counter it is
\* huge, and the attempt is made early.
RetryDue ==
    ~network_init_attempted \/ now < next_network_init_ms \/
        now - next_network_init_ms >= RetryTicks

\* poll() in NETWORK_STARTING; begin() may fail to open the socket.
pumpNetworkStarting ==
    /\ at = "poll" /\ state = "NETWORK_STARTING"
    /\ beginInterfaceIfNeeded
    /\ IF ReadyNow /\ RetryDue
       THEN /\ Begin
            /\ network_init_attempted' = TRUE
            /\ IF listening'
               THEN state' = "LISTENING" /\ UNCHANGED next_network_init_ms
               ELSE next_network_init_ms' = now /\ UNCHANGED state
       ELSE UNCHANGED <<tableVars, network_init_attempted, next_network_init_ms, state>>
    /\ UNCHANGED <<link, address, now, active_handle, replacement_handle, at>>

\* poll() in LISTENING opens the socket again if it is gone; in a session it
\* goes straight to the clients that wait.
pollOpen ==
    /\ at = "poll" /\ state # "NETWORK_STARTING"
    /\ IF state = "LISTENING" /\ Ready /\ ~listening THEN Begin ELSE UNCHANGED tableVars
    /\ at' = "pending"
    /\ UNCHANGED <<bringUpVars, state, active_handle, replacement_handle>>

\* Mutant: a client is cached also while no slot is free to receive it.
hasPendingConnection_NoSlot ==
    /\ at = "pending"
    /\ \/ /\ listening /\ waiting' = TRUE /\ at' = "accept"
          /\ UNCHANGED <<generation, active, retired, client, listening, clients,
                         issued, released>>
       \/ UNCHANGED tableVars /\ at' = "rest"
    /\ UNCHANGED <<bringUpVars, state, active_handle, replacement_handle>>

\* hasPendingConnection(): the stack may have a client to cache.
hasPendingConnection ==
    /\ at = "pending"
    /\ \/ CachePending /\ at' = "accept"
       \/ /\ UNCHANGED tableVars
          /\ at' = IF listening /\ waiting /\ \E s \in Slots : Reusable(s)
                   THEN "accept" ELSE "rest"
    /\ UNCHANGED <<bringUpVars, state, active_handle, replacement_handle>>

\* The handle accept() makes of slot s.
Issued(s) ==
    [slot |-> s, generation |-> generation'[s], client |-> client'[s]]

\* accept(): in LISTENING the connection is promoted, in a session it is held
\* and the session superseded.
acceptConnection ==
    /\ at = "accept"
    /\ \E s \in Slots :
          /\ accept(s)
          /\ IF state = "LISTENING"
             THEN /\ active_handle' = Issued(s) /\ at' = "promote"
                  /\ UNCHANGED <<replacement_handle, state>>
             ELSE /\ replacement_handle' = Issued(s) /\ at' = "rest"
                  /\ state' = "SESSION_CLOSING"
                  /\ UNCHANGED active_handle
    /\ UNCHANGED bringUpVars

\* The cached client is gone by the time accept() looks again: another one is
\* cached in its place, or the session is rejected.
acceptRetries ==
    /\ at = "accept" /\ ~(listening /\ waiting)
    /\ \/ CachePending /\ UNCHANGED at
       \/ UNCHANGED tableVars /\ at' = "rest"
    /\ UNCHANGED <<bringUpVars, state, active_handle, replacement_handle>>

\* promoteAcceptedConnection(): sending the schema succeeds or ends the session
\* at once.
promote ==
    /\ at = "promote"
    /\ \/ state' = "SESSION_ACTIVE" /\ at' = "rest"
       \/ state' = "SESSION_CLOSING" /\ at' = "teardown"
    /\ UNCHANGED <<tableVars, bringUpVars, active_handle, replacement_handle>>

\* The rest of the pass: a session may end (loss, failed send), and one that
\* has is torn down.
restOfPass ==
    /\ at = "rest"
    /\ \/ state = "SESSION_ACTIVE" /\ state' = "SESSION_CLOSING"
       \/ UNCHANGED state
    /\ at' = IF state' = "SESSION_CLOSING" THEN "teardown" ELSE "poll"
    /\ UNCHANGED <<tableVars, bringUpVars, active_handle, replacement_handle>>

\* Mutant: a replacement waiting at the teardown is forgotten.
applyPendingTeardown_ForgetsReplacement ==
    /\ at = "teardown"
    /\ IF lookup(active_handle) THEN abort(active_handle) ELSE UNCHANGED tableVars
    /\ active_handle' = NoHandle /\ replacement_handle' = NoHandle
    /\ state' = "LISTENING" /\ at' = "poll"
    /\ UNCHANGED bringUpVars

\* applyPendingTeardown(): the session's connection is aborted; a replacement
\* is promoted.
applyPendingTeardown ==
    /\ at = "teardown"
    /\ IF lookup(active_handle) THEN abort(active_handle) ELSE UNCHANGED tableVars
    /\ active_handle' = replacement_handle /\ replacement_handle' = NoHandle
    /\ state' = "LISTENING"
    /\ at' = IF replacement_handle # NoHandle THEN "promote" ELSE "poll"
    /\ UNCHANGED bringUpVars

Pass ==
    \/ pumpNetworkStarting \/ pollOpen \/ hasPendingConnection
    \/ acceptConnection \/ acceptRetries \/ promote \/ restOfPass
    \/ applyPendingTeardown

NetNext == Pass \/ LinkChanges \/ AddressChanges \/ StackDrops \/ Tick

\* loop() keeps calling service(), the clock runs, and a listen that is tried
\* again and again succeeds some time.
ListenSucceeds == Pass /\ ~listening /\ listening'

NetFairness ==
    WF_allVars(Pass) /\ WF_allVars(Tick) /\ SF_allVars(ListenSucceeds)

NetSpec == NetInit /\ [][NetNext]_allVars /\ NetFairness

-----------------------------------------------------------------------------
\* The driver uses the table only in ways module ConnectionSlots allows, so
\* what is proved there about every user holds of the board: accept() and
\* abort(), called from poll() and from nested teardowns, are its steps.
UsesTable == Spec

\* No connection leaks: a slot of the two is in use exactly for the session's
\* connection or for the one that will take over.  A slot in use for neither
\* would be lost until reset, and after two such the board could not be reached.
NoSlotLeaked ==
    \A s \in Slots :
        active[s] <=> \E h \in {active_handle, replacement_handle} \ {NoHandle} :
                          h.slot = s /\ lookup(h)

\* Once the interface has started and link and address stay, the board does not
\* stop listening for good, whenever the millisecond counter wraps and whenever
\* the listening socket is lost: pumpNetworkStarting tries again after a failed
\* begin() and pumpListening opens a lost socket again.
KeepsListening ==
    <>[]Ready => []<>(listening \/ active_handle # NoHandle)

=============================================================================
