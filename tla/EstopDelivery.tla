--------------------------- MODULE EstopDelivery ---------------------------
(***************************************************************************)
(* The promise of the board-local e-stop event to the application: a       *)
(* request is accepted only when no other is outstanding, and the accepted *)
(* request is delivered before the next one is accepted.  Queues, sends    *)
(* that fail and sessions that end are invisible here.                     *)
(***************************************************************************)
EXTENDS Naturals, Sequences

CONSTANTS Reasons, MaxRequests

VARIABLES accepted, delivered

Init == accepted = <<>> /\ delivered = <<>>

Accept(r) ==
    /\ accepted = delivered
    /\ Len(accepted) < MaxRequests
    /\ accepted' = Append(accepted, r)
    /\ UNCHANGED delivered

Deliver ==
    /\ accepted # delivered
    /\ delivered' = accepted
    /\ UNCHANGED accepted

Next == (\E r \in Reasons : Accept(r)) \/ Deliver

Spec == Init /\ [][Next]_<<accepted, delivered>>

=============================================================================
