---------------------------- MODULE MCResultCache ----------------------------
(* A small instance of ResultCache for TLC. *)
EXTENDS ResultCache, TLC

CONSTANTS k1, k2, k3, small, medium, large

\* Three small values fit, or a small and a medium one; a large one never does.
Sizes == (small :> 1) @@ (medium :> 2) @@ (large :> 4)

Symmetry == Permutations(Keys)
=============================================================================
