------------------------- MODULE ControllerSession -------------------------
(***************************************************************************)
(* What the board promises about its controller session: it serves one     *)
(* connection at a time, never returns to one it has dropped, and runs the *)
(* application's controller-loss hook exactly once for each connection it  *)
(* stops serving, at the moment it stops.                                  *)
(***************************************************************************)
EXTENDS Connection, Naturals

VARIABLES
    serving,    \* the connection being served, or NoConn
    hook_runs   \* controller-loss hook runs, per connection

Init ==
    /\ serving = NoConn
    /\ hook_runs = [c \in Conns |-> 0]

Start(c) ==
    /\ serving = NoConn
    /\ hook_runs[c] = 0
    /\ serving' = c
    /\ UNCHANGED hook_runs

Stop ==
    /\ serving # NoConn
    /\ hook_runs' = [hook_runs EXCEPT ![serving] = 1]
    /\ serving' = NoConn

Next == (\E c \in Conns : Start(c)) \/ Stop

Spec == Init /\ [][Next]_<<serving, hook_runs>>

=============================================================================
