--------------------------- MODULE MCAuthSessions ---------------------------
(* Small instances of AuthSessions for TLC. *)
EXTENDS AuthSessions, TLC

CONSTANTS l1, l2, q1, q2, q3, c1

Symmetry == Permutations(Logins) \cup Permutations(Requests)
=============================================================================
