-------------------------- MODULE MCAnalysisSidecar --------------------------
(* Small instances of AnalysisSidecar for TLC. *)
EXTENDS AnalysisSidecar

CONSTANTS r1, r2, r3, r4, k1, k2
=============================================================================
