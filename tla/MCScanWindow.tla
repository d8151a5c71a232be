---------------------------- MODULE MCScanWindow ----------------------------
(* Small instances of ScanWindow for TLC. *)
EXTENDS ScanWindow, TLC

CONSTANTS r1, r2, t1, t2, t3, d1, d2
Symmetry == Permutations({t1, t2, t3}) \cup Permutations({d1, d2})
=============================================================================
