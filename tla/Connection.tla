----------------------------- MODULE Connection -----------------------------
(***************************************************************************)
(* Connection identities, as the core sees them through NetworkServer.h: a *)
(* handle names one accepted connection for ever, and kInvalidConnection   *)
(* names none.  The platform's slot-and-generation handles are refined     *)
(* away here; they are never reused (module ConnectionSlots).              *)
(***************************************************************************)
CONSTANTS
    Conns,    \* the controller connections of one run of the board
    NoConn    \* kInvalidConnection

ASSUME NoConnAssumption == NoConn \notin Conns

=============================================================================
