-------------------------- MODULE ConnectionSlots --------------------------
(***************************************************************************)
(* The platform's connection table                                         *)
(* (platform/qnethernet/QNEthernetNetworkServer.cpp): accepted TCP clients *)
(* live in a few slots that are reused, and a handle is a slot and the     *)
(* generation the slot had when the client was accepted.  A generation is  *)
(* a 32-bit counter; a slot that has used the last one is retired.         *)
(*                                                                         *)
(* A client is known by the number of its acceptance.  Handles are kept in *)
(* "issued" for ever, so that stale ones can be presented again at any     *)
(* time.  MaxGeneration is UINT32_MAX in the code.                         *)
(***************************************************************************)
EXTENDS Naturals

CONSTANTS
    SlotCount,       \* kConnectionSlotCount
    MaxGeneration    \* UINT32_MAX

ASSUME SlotAssumption == SlotCount \in Nat \ {0}
ASSUME GenerationAssumption == MaxGeneration \in Nat \ {0}

VARIABLES
    generation,  \* Slot::generation
    active,      \* Slot::active
    retired,     \* Slot::retired
    client,      \* the client Slot::transport wraps (0 before the first)
    waiting,     \* pending_client_ holds a live client
    listening,   \* listening_ && server_
    clients,     \* history: number of clients accepted so far
    issued,      \* history: every handle accept() returned, with its client
    released     \* history: clients whose connection was closed or aborted

vars == <<generation, active, retired, client, waiting, listening, clients, issued, released>>

Slots == 0..(SlotCount - 1)

Handle == [slot : Slots, generation : 1..MaxGeneration, client : Nat]

SlotsTypeOK ==
    /\ generation \in [Slots -> 0..MaxGeneration]
    /\ active \in [Slots -> BOOLEAN]
    /\ retired \in [Slots -> BOOLEAN]
    /\ client \in [Slots -> Nat]
    /\ waiting \in BOOLEAN /\ listening \in BOOLEAN
    /\ clients \in Nat
    /\ issued \subseteq Handle
    /\ released \subseteq Nat

Init ==
    /\ generation = [s \in Slots |-> 0]
    /\ active = [s \in Slots |-> FALSE]
    /\ retired = [s \in Slots |-> FALSE]
    /\ client = [s \in Slots |-> 0]
    /\ waiting = FALSE /\ listening = FALSE
    /\ clients = 0
    /\ issued = {}
    /\ released = {}

-----------------------------------------------------------------------------
\* begin() opens the listening socket, or fails to, once the link and the
\* address are there.
Begin ==
    /\ listening' \in BOOLEAN
    /\ UNCHANGED <<generation, active, retired, client, waiting, clients, issued, released>>

Reusable(s) == ~active[s] /\ ~retired[s]

\* The slot accept() takes: the first one free.
firstReusableSlot(s) ==
    /\ s \in Slots
    /\ Reusable(s)
    /\ \A t \in Slots : t < s => ~Reusable(t)

\* hasPendingConnection() caches the next client of the TCP server, but only
\* while a slot is free to receive it.
CachePending ==
    /\ listening /\ \E s \in Slots : Reusable(s)
    /\ ~waiting
    /\ waiting' = TRUE
    /\ UNCHANGED <<generation, active, retired, client, listening, clients, issued, released>>

\* The cached client is reset by its peer before it is accepted.
PendingDropped ==
    /\ waiting
    /\ waiting' = FALSE
    /\ UNCHANGED <<generation, active, retired, client, listening, clients, issued, released>>

\* Mutant: the handle is made before a new slot's generation becomes 1.
accept_HandleFirst(s) ==
    /\ listening /\ waiting
    /\ firstReusableSlot(s)
    /\ issued' = issued \cup
          {[slot |-> s, generation |-> generation[s], client |-> clients + 1]}
    /\ generation' = [generation EXCEPT ![s] = IF @ = 0 THEN 1 ELSE @]
    /\ client' = [client EXCEPT ![s] = clients + 1]
    /\ active' = [active EXCEPT ![s] = TRUE]
    /\ waiting' = FALSE
    /\ clients' = clients + 1
    /\ UNCHANGED <<retired, listening, released>>

\* accept(): generation 0 marks a slot never used and becomes 1.
accept(s) ==
    /\ listening /\ waiting
    /\ firstReusableSlot(s)
    /\ LET g == IF generation[s] = 0 THEN 1 ELSE generation[s]
           h == [slot |-> s, generation |-> g, client |-> clients + 1]
       IN  /\ generation' = [generation EXCEPT ![s] = g]
           /\ issued' = issued \cup {h}
    /\ client' = [client EXCEPT ![s] = clients + 1]
    /\ active' = [active EXCEPT ![s] = TRUE]
    /\ waiting' = FALSE
    /\ clients' = clients + 1
    /\ UNCHANGED <<retired, listening, released>>

-----------------------------------------------------------------------------
\* Mutant: the generation is not compared.
lookup_AnyGeneration(h) == active[h.slot] /\ ~retired[h.slot]

\* lookup() finds a slot for the handle; transport() returns that slot's client.
lookup(h) ==
    /\ active[h.slot] /\ ~retired[h.slot]
    /\ generation[h.slot] = h.generation

\* Mutant: the limit is not tested before the generation is incremented.
invalidate_NoLimit(s) ==
    /\ active' = [active EXCEPT ![s] = FALSE]
    /\ generation' = [generation EXCEPT ![s] = @ + 1]
    /\ UNCHANGED retired

\* invalidate(): the slot's handle dies; the last generation retires the slot.
invalidate(s) ==
    /\ active' = [active EXCEPT ![s] = FALSE]
    /\ IF generation[s] = MaxGeneration
       THEN /\ generation' = [generation EXCEPT ![s] = 0]
            /\ retired' = [retired EXCEPT ![s] = TRUE]
       ELSE /\ generation' = [generation EXCEPT ![s] = @ + 1]
            /\ UNCHANGED retired

\* close() or abort() of any handle ever issued; a stale one is ignored.
abort(h) ==
    /\ h \in issued
    /\ lookup(h)
    /\ invalidate(h.slot)
    /\ released' = released \cup {client[h.slot]}
    /\ UNCHANGED <<client, waiting, listening, clients, issued>>

Next ==
    \/ Begin
    \/ CachePending
    \/ PendingDropped
    \/ \E s \in Slots : accept(s)
    \/ \E h \in issued : abort(h)

Spec == Init /\ [][Next]_vars

-----------------------------------------------------------------------------
\* A handle resolves to the connection it was issued for or to nothing: a
\* handle kept across a teardown never reaches the connection that took over
\* its slot, even after the 32-bit generation has run out.
HandleNamesItsConnection ==
    \A h \in issued : lookup(h) => client[h.slot] = h.client /\ h.client \notin released

\* Until its connection is dropped, a handle keeps resolving, whatever happens
\* to the other slots: accept() never takes a slot that is in use.
LiveHandleResolves ==
    \A h \in issued : h.client \notin released => lookup(h)

\* No two connections are ever given the same handle.
HandlesUnique ==
    \A h, k \in issued :
        h.slot = k.slot /\ h.generation = k.generation => h.client = k.client

=============================================================================
