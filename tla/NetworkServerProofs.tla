------------------------ MODULE NetworkServerProofs ------------------------
(***************************************************************************)
(* The connection table, and the session driver on it, for every number of *)
(* slots and every generation width, the 32 bits of the firmware included, *)
(* which no model checker can reach.  Handles are safe under every use of  *)
(* the table; the driver uses it only as module ConnectionSlots allows,    *)
(* the handles it keeps are always live, and no slot is ever lost to a     *)
(* connection nobody holds.                                                *)
(***************************************************************************)
EXTENDS NetworkServer, TLAPS

-----------------------------------------------------------------------------
(* The connection table, under any use of it. *)

\* The handles of a slot in service are of its past generations, and of its
\* present one only while the slot is active.
GenerationsPast ==
    \A h \in issued : ~retired[h.slot] =>
        /\ h.generation <= generation[h.slot]
        /\ h.generation = generation[h.slot] => active[h.slot]

\* Clients are numbered in the order of acceptance and given one handle each.
ClientsNumbered ==
    /\ \A h \in issued : h.client \in 1..clients
    /\ \A h, k \in issued : h.client = k.client => h = k
    /\ released \subseteq 1..clients

\* The inductive invariant of the table.
SInv ==
    /\ SlotsTypeOK
    /\ GenerationsPast
    /\ ClientsNumbered
    /\ HandleNamesItsConnection
    /\ LiveHandleResolves
    /\ HandlesUnique

-----------------------------------------------------------------------------
LEMMA InitSInv == Init => SInv
<1> SUFFICES ASSUME Init PROVE SInv
  OBVIOUS
<1>1. 0 \in 0..MaxGeneration
  BY GenerationAssumption
<1> QED
  BY <1>1 DEF Init, SInv, SlotsTypeOK, GenerationsPast, ClientsNumbered,
              HandleNamesItsConnection, LiveHandleResolves, HandlesUnique

\* accept() gives the slot's first unused generation to a fresh client.
LEMMA AcceptPreserves ==
    ASSUME SInv, NEW s \in Slots, accept(s)
    PROVE  SInv'
<1> DEFINE g == IF generation[s] = 0 THEN 1 ELSE generation[s]
           n == [slot |-> s, generation |-> g, client |-> clients + 1]
<1> USE DEF SInv
<1>1. /\ ~active[s] /\ ~retired[s]
      /\ generation' = [generation EXCEPT ![s] = g]
      /\ issued' = issued \cup {n}
      /\ client' = [client EXCEPT ![s] = clients + 1]
      /\ active' = [active EXCEPT ![s] = TRUE]
      /\ waiting' = FALSE
      /\ clients' = clients + 1
      /\ UNCHANGED <<retired, listening, released>>
  BY DEF accept, firstReusableSlot, Reusable
<1>2. /\ generation \in [Slots -> 0..MaxGeneration] /\ active \in [Slots -> BOOLEAN]
      /\ client \in [Slots -> Nat] /\ clients \in Nat /\ issued \subseteq Handle
  BY DEF SlotsTypeOK
<1>3. g \in 1..MaxGeneration /\ g >= generation[s]
  BY <1>2, GenerationAssumption
<1>4. n \in Handle /\ n.slot = s /\ n.generation = g /\ n.client = clients + 1
  BY <1>2, <1>3 DEF Handle
<1>5. \A h \in issued : h \in Handle /\ h.slot \in Slots /\ h.generation \in 1..MaxGeneration
                        /\ h.client \in 1..clients
  BY <1>2 DEF Handle, ClientsNumbered
<1>6. \A h \in issued : h.slot = s => h.generation < g /\ h.generation < generation[s]
  BY <1>1, <1>2, <1>3, <1>5 DEF GenerationsPast
<1> HIDE DEF n, g
<1>7. SlotsTypeOK'
  <2>1. generation' \in [Slots -> 0..MaxGeneration]
    BY <1>1, <1>2, <1>3
  <2>2. active' \in [Slots -> BOOLEAN] /\ client' \in [Slots -> Nat] /\ clients' \in Nat
    BY <1>1, <1>2
  <2>3. issued' \subseteq Handle
    BY <1>1, <1>2, <1>4
  <2> QED
    BY <1>1, <2>1, <2>2, <2>3 DEF SlotsTypeOK
<1>8. /\ generation'[s] = g /\ active'[s] = TRUE /\ client'[s] = clients + 1
      /\ \A t \in Slots : t # s => /\ generation'[t] = generation[t]
                                   /\ active'[t] = active[t] /\ client'[t] = client[t]
  BY <1>1, <1>2
<1>9. GenerationsPast'
  BY <1>1, <1>3, <1>4, <1>5, <1>6, <1>8 DEF GenerationsPast
<1>10. ClientsNumbered'
  <2>1. \A h \in issued' : h.client \in 1..clients'
    BY <1>1, <1>2, <1>4, <1>5
  <2>2. \A h, k \in issued' : h.client = k.client => h = k
    BY <1>1, <1>2, <1>4, <1>5 DEF ClientsNumbered
  <2>3. released' \subseteq 1..clients'
    BY <1>1, <1>2 DEF ClientsNumbered
  <2> QED
    BY <2>1, <2>2, <2>3 DEF ClientsNumbered
<1>11. clients + 1 \notin released
  BY <1>2 DEF ClientsNumbered
<1>12. \A h \in issued : lookup(h)' <=> lookup(h)
  BY <1>1, <1>5, <1>6, <1>8 DEF lookup
<1>13. \A h \in issued' : h = n => lookup(h)'
  BY <1>1, <1>4, <1>8 DEF lookup
<1>14. \A h \in issued : lookup(h) => h.slot # s
  BY <1>1 DEF lookup
<1>15. HandleNamesItsConnection'
  <2>1. ASSUME NEW h \in issued', lookup(h)'
        PROVE  client'[h.slot] = h.client /\ h.client \notin released'
    <3>1. CASE h = n
      BY <1>1, <1>4, <1>8, <1>11, <3>1
    <3>2. CASE h \in issued
      BY <1>1, <1>5, <1>8, <1>12, <1>14, <2>1, <3>2 DEF HandleNamesItsConnection
    <3> QED
      BY <1>1, <2>1, <3>1, <3>2
  <2> QED
    BY <2>1 DEF HandleNamesItsConnection
<1>16. LiveHandleResolves'
  <2>1. ASSUME NEW h \in issued', h.client \notin released'
        PROVE  lookup(h)'
    <3>1. CASE h = n
      BY <1>13, <2>1, <3>1
    <3>2. CASE h \in issued
      BY <1>1, <1>12, <2>1, <3>2 DEF LiveHandleResolves
    <3> QED
      BY <1>1, <2>1, <3>1, <3>2
  <2> QED
    BY <2>1 DEF LiveHandleResolves
<1>17. HandlesUnique'
  BY <1>1, <1>2, <1>3, <1>4, <1>5, <1>6 DEF HandlesUnique
<1> QED
  BY <1>7, <1>9, <1>10, <1>15, <1>16, <1>17

\* Dropping a connection kills its handle and no other.
LEMMA AbortPreserves ==
    ASSUME SInv, NEW h \in issued, abort(h)
    PROVE  SInv'
<1> DEFINE s == h.slot
<1> USE DEF SInv
<1>1. /\ lookup(h)
      /\ active' = [active EXCEPT ![s] = FALSE]
      /\ \/ /\ generation[s] = MaxGeneration
            /\ generation' = [generation EXCEPT ![s] = 0]
            /\ retired' = [retired EXCEPT ![s] = TRUE]
         \/ /\ generation[s] # MaxGeneration
            /\ generation' = [generation EXCEPT ![s] = @ + 1]
            /\ UNCHANGED retired
      /\ released' = released \cup {client[s]}
      /\ UNCHANGED <<client, waiting, listening, clients, issued>>
  BY DEF abort, invalidate
<1>2. /\ generation \in [Slots -> 0..MaxGeneration] /\ active \in [Slots -> BOOLEAN]
      /\ retired \in [Slots -> BOOLEAN] /\ client \in [Slots -> Nat]
      /\ clients \in Nat /\ issued \subseteq Handle /\ released \subseteq Nat
  BY DEF SlotsTypeOK
<1>3. \A k \in issued : k.slot \in Slots /\ k.generation \in 1..MaxGeneration
                        /\ k.client \in 1..clients
  BY <1>2 DEF Handle, ClientsNumbered
<1>4. s \in Slots /\ client[s] = h.client /\ h.client \in 1..clients
  BY <1>1, <1>3 DEF HandleNamesItsConnection
<1> HIDE DEF s
<1>5. /\ active'[s] = FALSE
      /\ \/ retired'[s] = TRUE
         \/ retired'[s] = retired[s] /\ generation'[s] = generation[s] + 1
      /\ \A t \in Slots : t # s => /\ generation'[t] = generation[t]
                                   /\ active'[t] = active[t] /\ retired'[t] = retired[t]
  BY <1>1, <1>2, <1>4
<1>6. SlotsTypeOK'
  <2>1. generation' \in [Slots -> 0..MaxGeneration]
    BY <1>1, <1>2, <1>4, GenerationAssumption
  <2>2. active' \in [Slots -> BOOLEAN] /\ retired' \in [Slots -> BOOLEAN]
    BY <1>1, <1>2
  <2>3. released' \subseteq Nat
    BY <1>1, <1>2, <1>4
  <2> QED
    BY <1>1, <2>1, <2>2, <2>3 DEF SlotsTypeOK
<1>7. GenerationsPast'
  <2>1. ASSUME NEW k \in issued', ~retired'[k.slot]
        PROVE  /\ k.generation <= generation'[k.slot]
               /\ k.generation = generation'[k.slot] => active'[k.slot]
    <3>1. k \in issued /\ k.slot \in Slots /\ k.generation \in Nat
      BY <1>1, <1>3, <2>1
    <3>2. CASE k.slot # s
      BY <1>5, <2>1, <3>1, <3>2 DEF GenerationsPast
    <3>3. CASE k.slot = s
      <4>1. ~retired[s] /\ generation'[s] = generation[s] + 1
        BY <1>5, <2>1, <3>3
      <4>2. k.generation <= generation[s] /\ generation[s] \in Nat
        BY <1>2, <1>4, <3>1, <3>3, <4>1 DEF GenerationsPast
      <4> QED
        BY <3>1, <3>3, <4>1, <4>2
    <3> QED
      BY <3>2, <3>3
  <2> QED
    BY <2>1 DEF GenerationsPast
<1>8. ClientsNumbered'
  BY <1>1, <1>4 DEF ClientsNumbered
<1>9. \A k \in issued : lookup(k)' <=> (k.slot # s /\ lookup(k))
  BY <1>1, <1>3, <1>4, <1>5 DEF lookup
<1>10. \A k \in issued : k.slot # s => k.client # h.client
  BY DEF ClientsNumbered, s
<1>11. \A k \in issued : k.slot = s /\ lookup(k) => k.client = h.client
  BY <1>1 DEF HandleNamesItsConnection, s
<1>12. HandleNamesItsConnection'
  BY <1>1, <1>4, <1>9, <1>10 DEF HandleNamesItsConnection
<1>13. LiveHandleResolves'
  BY <1>1, <1>4, <1>9, <1>11 DEF LiveHandleResolves
<1>14. HandlesUnique'
  BY <1>1 DEF HandlesUnique
<1> QED
  BY <1>6, <1>7, <1>8, <1>12, <1>13, <1>14

\* The listening socket and the cached client take no part in the invariant.
LEMMA OthersPreserve ==
    ASSUME SInv, waiting' \in BOOLEAN, listening' \in BOOLEAN,
           UNCHANGED <<generation, active, retired, client, clients, issued, released>>
    PROVE  SInv'
  BY DEF SInv, SlotsTypeOK, GenerationsPast, ClientsNumbered, HandleNamesItsConnection,
         LiveHandleResolves, HandlesUnique, lookup

LEMMA StepSInv == SInv /\ [Next]_vars => SInv'
<1> SUFFICES ASSUME SInv, [Next]_vars PROVE SInv'
  OBVIOUS
<1>1. waiting \in BOOLEAN /\ listening \in BOOLEAN
  BY DEF SInv, SlotsTypeOK
<1>2. CASE Begin \/ CachePending \/ PendingDropped \/ UNCHANGED vars
  BY <1>1, <1>2, OthersPreserve DEF Begin, CachePending, PendingDropped, vars
<1>3. ASSUME NEW s \in Slots, accept(s) PROVE SInv'
  BY <1>3, AcceptPreserves
<1>4. ASSUME NEW h \in issued, abort(h) PROVE SInv'
  BY <1>4, AbortPreserves
<1> QED
  BY <1>2, <1>3, <1>4 DEF Next

LEMMA SlotsSInv == Spec => []SInv
  BY InitSInv, StepSInv, PTL DEF Spec

\* The table's variables keep their types: a generation never exceeds its width.
THEOREM SlotsTypeCorrect == Spec => []SlotsTypeOK
<1>1. SInv => SlotsTypeOK
  BY DEF SInv
<1> QED
  BY <1>1, SlotsSInv, PTL

\* A stale handle never reaches another connection, a live one always reaches
\* its own, and no handle is issued twice, for every slot count and width.
THEOREM HandlesSafe ==
    Spec => [](HandleNamesItsConnection /\ LiveHandleResolves /\ HandlesUnique)
<1>1. SInv => HandleNamesItsConnection /\ LiveHandleResolves /\ HandlesUnique
  BY DEF SInv
<1> QED
  BY <1>1, SlotsSInv, PTL

\* Until its connection is dropped, a handle resolves, whatever happens to the
\* other slots: accept() never takes a slot in use.
THEOREM LiveHandlesResolve == Spec => []LiveHandleResolves
<1>1. SInv => LiveHandleResolves
  BY DEF SInv
<1> QED
  BY <1>1, SlotsSInv, PTL

-----------------------------------------------------------------------------
(* The session driver on the table. *)

\* Where in a pass the driver holds which connection.
PassDetermined ==
    /\ at \in {"poll", "pending", "accept", "promote", "rest", "teardown"}
    /\ state \in {"NETWORK_STARTING", "LISTENING", "SESSION_ACTIVE", "SESSION_CLOSING"}
    /\ state = "NETWORK_STARTING" => at = "poll"
    /\ state = "SESSION_CLOSING" => at \in {"rest", "teardown"}
    /\ at = "teardown" => state = "SESSION_CLOSING"
    /\ at = "promote" => state = "LISTENING"
    /\ active_handle # NoHandle <=>
          state \in {"SESSION_ACTIVE", "SESSION_CLOSING"} \/ at = "promote"
    /\ replacement_handle # NoHandle => state = "SESSION_CLOSING"

\* A handle the driver keeps was issued and still resolves, so that every
\* teardown finds the connection it has to abort; the session's connection is
\* never also the one waiting to replace it.
HeldHandlesLive ==
    /\ \A h \in {active_handle, replacement_handle} \ {NoHandle} : h \in issued /\ lookup(h)
    /\ active_handle # NoHandle => active_handle # replacement_handle

\* The inductive invariant of the board.
NInv ==
    /\ SInv
    /\ PassDetermined
    /\ HeldHandlesLive
    /\ NoSlotLeaked

-----------------------------------------------------------------------------
\* Two live handles of one slot are one handle.
LEMMA LiveHandleOfSlot ==
    ASSUME SInv, NEW h \in issued, NEW k \in issued, lookup(h), lookup(k), h.slot = k.slot
    PROVE  h = k
  BY DEF SInv, lookup, HandlesUnique, ClientsNumbered

\* The two handles the driver may hold, as a set.
Holding == {active_handle, replacement_handle} \ {NoHandle}

\* Steps that change neither the slots nor what the driver holds.
LEMMA TableSame ==
    ASSUME HeldHandlesLive, NoSlotLeaked,
           UNCHANGED <<generation, active, retired, issued, active_handle, replacement_handle>>
    PROVE  HeldHandlesLive' /\ NoSlotLeaked'
  BY DEF HeldHandlesLive, NoSlotLeaked, lookup

LEMMA InitNInv == NetInit => NInv
<1> SUFFICES ASSUME NetInit PROVE NInv
  OBVIOUS
<1>1. SInv
  BY InitSInv DEF NetInit
<1>2. PassDetermined /\ HeldHandlesLive
  BY DEF NetInit, PassDetermined, HeldHandlesLive
<1>3. NoSlotLeaked
  BY DEF NetInit, Init, NoSlotLeaked
<1> QED
  BY <1>1, <1>2, <1>3 DEF NInv

\* What the driver does to the table is a step of the table.
LEMMA StepUsesTable == [NetNext]_allVars => [Next]_vars
<1> SUFFICES ASSUME [NetNext]_allVars PROVE [Next]_vars
  OBVIOUS
<1> USE DEF tableVars
<1>1. CASE pumpNetworkStarting \/ pollOpen
  BY <1>1 DEF pumpNetworkStarting, pollOpen, Next
<1>2. CASE hasPendingConnection \/ acceptRetries
  BY <1>2 DEF hasPendingConnection, acceptRetries, Next
<1>3. CASE acceptConnection
  BY <1>3 DEF acceptConnection, Next
<1>4. CASE promote \/ restOfPass
  BY <1>4 DEF promote, restOfPass
<1>5. CASE applyPendingTeardown
  BY <1>5 DEF applyPendingTeardown, abort, Next
<1>6. CASE LinkChanges \/ AddressChanges \/ Tick \/ UNCHANGED allVars
  BY <1>6 DEF LinkChanges, AddressChanges, Tick, allVars
<1>7. CASE StackDrops
  BY <1>7 DEF StackDrops, Next
<1> QED
  BY <1>1, <1>2, <1>3, <1>4, <1>5, <1>6, <1>7 DEF NetNext, Pass

\* accept() puts the new connection in a slot that was free, under a handle the
\* driver then holds.
LEMMA AcceptConnectionPreserves ==
    ASSUME NInv, acceptConnection
    PROVE  PassDetermined' /\ HeldHandlesLive' /\ NoSlotLeaked'
<1> USE DEF NInv
<1>1. PICK s \in Slots :
         /\ accept(s)
         /\ IF state = "LISTENING"
            THEN /\ active_handle' = Issued(s) /\ at' = "promote"
                 /\ UNCHANGED <<replacement_handle, state>>
            ELSE /\ replacement_handle' = Issued(s) /\ at' = "rest"
                 /\ state' = "SESSION_CLOSING"
                 /\ UNCHANGED active_handle
  BY DEF acceptConnection
<1> DEFINE g == IF generation[s] = 0 THEN 1 ELSE generation[s]
<1>0. PICK n : n = [slot |-> s, generation |-> g, client |-> clients + 1]
  OBVIOUS
<1>2. /\ ~active[s] /\ ~retired[s]
      /\ generation' = [generation EXCEPT ![s] = g]
      /\ issued' = issued \cup {n}
      /\ client' = [client EXCEPT ![s] = clients + 1]
      /\ active' = [active EXCEPT ![s] = TRUE]
      /\ UNCHANGED retired
  BY <1>0, <1>1 DEF accept, firstReusableSlot, Reusable
<1>3. /\ generation \in [Slots -> 0..MaxGeneration] /\ active \in [Slots -> BOOLEAN]
      /\ client \in [Slots -> Nat] /\ issued \subseteq Handle
  BY DEF SInv, SlotsTypeOK
<1>4. /\ generation'[s] = g /\ active'[s] = TRUE /\ client'[s] = clients + 1
      /\ \A t \in Slots : t # s => /\ generation'[t] = generation[t]
                                   /\ active'[t] = active[t]
  BY <1>2, <1>3
<1>5. Issued(s) = n
  BY <1>0, <1>4 DEF Issued
<1>6. n.slot = s /\ n.generation = g
  BY <1>0
<1>7. n \in issued' /\ lookup(n)'
  BY <1>2, <1>4, <1>6 DEF lookup
<1>8. n # NoHandle
  <2>1. issued' \subseteq Handle
    BY <1>1, AcceptPreserves DEF SInv, SlotsTypeOK
  <2> QED
    BY <1>7, <2>1, NoHandleAssumption
<1> HIDE DEF g
<1>9. at = "accept" /\ state \in {"LISTENING", "SESSION_ACTIVE"} /\ replacement_handle = NoHandle
  BY DEF acceptConnection, PassDetermined
<1>10. \A h \in Holding : h \in issued /\ h.slot \in Slots /\ h.slot # s /\ lookup(h)
  BY <1>2, <1>3 DEF HeldHandlesLive, Holding, lookup, Handle
<1>11. \A h \in Holding : h \in issued' /\ lookup(h)' /\ h # n
  BY <1>2, <1>4, <1>6, <1>10 DEF lookup
<1>12. Holding' = Holding \cup {n} /\ PassDetermined'
  <2>1. CASE state = "LISTENING"
    BY <1>1, <1>5, <1>8, <1>9, <2>1 DEF Holding, PassDetermined
  <2>2. CASE state = "SESSION_ACTIVE"
    BY <1>1, <1>5, <1>8, <1>9, <2>2 DEF Holding, PassDetermined
  <2> QED
    BY <1>9, <2>1, <2>2
<1>13. HeldHandlesLive'
  <2>1. \A h \in Holding' : h \in issued' /\ lookup(h)'
    BY <1>7, <1>11, <1>12
  <2>2. active_handle' # NoHandle => active_handle' # replacement_handle'
    BY <1>1, <1>5, <1>8, <1>9, <1>11 DEF Holding
  <2> QED
    BY <2>1, <2>2 DEF HeldHandlesLive, Holding
<1>14. NoSlotLeaked'
  <2> SUFFICES ASSUME NEW t \in Slots
               PROVE  active'[t] <=> \E h \in Holding' : h.slot = t /\ lookup(h)'
    BY DEF NoSlotLeaked, Holding
  <2>1. CASE t = s
    BY <1>4, <1>6, <1>7, <1>12, <2>1
  <2>2. CASE t # s
    <3>1. active[t] <=> \E h \in Holding : h.slot = t /\ lookup(h)
      BY DEF NoSlotLeaked, Holding
    <3> QED
      BY <1>4, <1>6, <1>10, <1>11, <1>12, <2>2, <3>1
  <2> QED
    BY <2>1, <2>2
<1> QED
  BY <1>12, <1>13, <1>14

\* The teardown frees the session's slot and keeps the replacement's.
LEMMA TeardownPreserves ==
    ASSUME NInv, applyPendingTeardown
    PROVE  PassDetermined' /\ HeldHandlesLive' /\ NoSlotLeaked'
<1> USE DEF NInv
<1>1. /\ at = "teardown" /\ state = "SESSION_CLOSING"
      /\ active_handle # NoHandle /\ active_handle \in issued /\ lookup(active_handle)
  BY DEF applyPendingTeardown, PassDetermined, HeldHandlesLive
<1>2. /\ abort(active_handle)
      /\ active_handle' = replacement_handle /\ replacement_handle' = NoHandle
      /\ state' = "LISTENING"
      /\ at' = IF replacement_handle # NoHandle THEN "promote" ELSE "poll"
  BY <1>1 DEF applyPendingTeardown
<1> DEFINE s == active_handle.slot
<1>3. /\ generation \in [Slots -> 0..MaxGeneration] /\ active \in [Slots -> BOOLEAN]
      /\ retired \in [Slots -> BOOLEAN] /\ issued \subseteq Handle
  BY DEF SInv, SlotsTypeOK
<1>4. s \in Slots
  BY <1>1, <1>3 DEF Handle
<1>5. /\ active'[s] = FALSE /\ issued' = issued
      /\ \A t \in Slots : t # s => /\ generation'[t] = generation[t]
                                   /\ active'[t] = active[t] /\ retired'[t] = retired[t]
  BY <1>2, <1>3, <1>4 DEF abort, invalidate
<1>6. PassDetermined'
  BY <1>2 DEF PassDetermined
<1>7. replacement_handle # NoHandle =>
         /\ replacement_handle \in issued /\ lookup(replacement_handle)
         /\ replacement_handle.slot \in Slots /\ replacement_handle.slot # s
  BY <1>1, <1>3, LiveHandleOfSlot DEF HeldHandlesLive, Handle
<1> HIDE DEF s
<1>8. \A h : h = replacement_handle /\ h # NoHandle => lookup(h)'
  BY <1>5, <1>7 DEF lookup
<1>9. HeldHandlesLive'
  BY <1>2, <1>5, <1>7, <1>8 DEF HeldHandlesLive
<1>10. NoSlotLeaked'
  <2> SUFFICES ASSUME NEW t \in Slots
               PROVE  active'[t] <=> \E h \in {replacement_handle} \ {NoHandle} :
                                         h.slot = t /\ lookup(h)'
    BY <1>2 DEF NoSlotLeaked
  <2>1. CASE t = s
    BY <1>5, <1>7, <2>1
  <2>2. CASE t # s
    <3>1. active[t] <=> \E h \in {active_handle, replacement_handle} \ {NoHandle} :
                            h.slot = t /\ lookup(h)
      BY DEF NoSlotLeaked
    <3>2. active[t] <=> replacement_handle # NoHandle /\ replacement_handle.slot = t
      BY <1>7, <2>2, <3>1 DEF s
    <3> QED
      BY <1>5, <1>8, <2>2, <3>2
  <2> QED
    BY <2>1, <2>2
<1> QED
  BY <1>6, <1>9, <1>10

LEMMA StepNInv == NInv /\ [NetNext]_allVars => NInv'
<1> SUFFICES ASSUME NInv, [NetNext]_allVars PROVE NInv'
  OBVIOUS
<1> USE DEF NInv
<1>1. SInv'
  BY StepUsesTable, StepSInv
<1>2. CASE acceptConnection
  BY <1>1, <1>2, AcceptConnectionPreserves
<1>3. CASE applyPendingTeardown
  BY <1>1, <1>3, TeardownPreserves
<1>4. CASE pumpNetworkStarting \/ pollOpen \/ hasPendingConnection \/ acceptRetries
  <2>1. UNCHANGED <<generation, active, retired, issued, active_handle, replacement_handle>>
    BY <1>4 DEF pumpNetworkStarting, pollOpen, hasPendingConnection, acceptRetries, Begin,
                CachePending, tableVars, vars
  <2>2. PassDetermined'
    BY <1>4, <2>1 DEF pumpNetworkStarting, pollOpen, hasPendingConnection, acceptRetries,
                      PassDetermined
  <2> QED
    BY <1>1, <2>1, <2>2, TableSame
<1>5. CASE promote \/ restOfPass
  <2>1. UNCHANGED <<generation, active, retired, issued, active_handle, replacement_handle>>
    BY <1>5 DEF promote, restOfPass, tableVars, vars
  <2>2. PassDetermined'
    BY <1>5, <2>1 DEF promote, restOfPass, PassDetermined
  <2> QED
    BY <1>1, <2>1, <2>2, TableSame
<1>6. CASE LinkChanges \/ AddressChanges \/ StackDrops \/ Tick \/ UNCHANGED allVars
  <2>1. UNCHANGED <<generation, active, retired, issued, active_handle, replacement_handle,
                    at, state>>
    BY <1>6 DEF LinkChanges, AddressChanges, StackDrops, Tick, Begin, PendingDropped,
                tableVars, sessionVars, allVars, vars
  <2>2. PassDetermined'
    BY <2>1 DEF PassDetermined
  <2> QED
    BY <1>1, <2>1, <2>2, TableSame
<1> QED
  BY <1>2, <1>3, <1>4, <1>5, <1>6 DEF NetNext, Pass

LEMMA BoardNInv == NetSpec => []NInv
  BY InitNInv, StepNInv, PTL DEF NetSpec

-----------------------------------------------------------------------------
\* The board is a user of the connection table: every step of its service pass
\* does to the slots what one call of the table does, or nothing.
THEOREM BoardUsesTable == NetSpec => UsesTable
<1>1. NetInit => Init
  BY DEF NetInit
<1> QED
  BY <1>1, StepUsesTable, PTL DEF NetSpec, UsesTable, Spec

\* So a handle the driver kept across a teardown never reaches the connection
\* that took over its slot.
THEOREM BoardHandlesSafe == NetSpec => []HandleNamesItsConnection
<1>1. NInv => HandleNamesItsConnection
  BY DEF NInv, SInv
<1> QED
  BY <1>1, BoardNInv, PTL

\* A slot is in use exactly while the driver holds its connection, as the
\* session's or as the replacement's: no sequence of supersessions, failed
\* schemas and losses costs the board a slot.
THEOREM BoardLeaksNoSlot == NetSpec => []NoSlotLeaked
<1>1. NInv => NoSlotLeaked
  BY DEF NInv
<1> QED
  BY <1>1, BoardNInv, PTL

\* The handles the driver keeps always resolve: teardown and promotion act on
\* the connection they were meant for, never on nothing.
THEOREM BoardHoldsLiveHandles == NetSpec => []HeldHandlesLive
<1>1. NInv => HeldHandlesLive
  BY DEF NInv
<1> QED
  BY <1>1, BoardNInv, PTL

=============================================================================
