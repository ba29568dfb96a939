----------------------------- MODULE MCDelivery -----------------------------
(* Small instances of Delivery for TLC. *)
EXTENDS Delivery, TLC

CONSTANTS r1, r2, c1, c2, c3

Symmetry == Permutations(Deliveries) \cup Permutations(Calls)
=============================================================================
