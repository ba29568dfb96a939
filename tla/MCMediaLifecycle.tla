-------------------------- MODULE MCMediaLifecycle --------------------------
(* Small instances of MediaLifecycle for TLC. *)
EXTENDS MediaLifecycle, TLC

CONSTANTS p1, p2, v1, s1, s2, d1, d2

\* Requests and instances of one kind are interchangeable; photos are not once
\* one of them is uploaded for a preview.
Symmetry == Permutations(Pollers) \cup Permutations(Deleters)
=============================================================================
