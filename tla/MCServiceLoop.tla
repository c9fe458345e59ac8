--------------------------- MODULE MCServiceLoop ---------------------------
(***************************************************************************)
(* The service loop for TLC: connections and reasons are interchangeable   *)
(* model values.                                                           *)
(***************************************************************************)
EXTENDS ServiceLoop, TLC

Symmetry == Permutations(Conns) \cup Permutations(Reasons)

=============================================================================
