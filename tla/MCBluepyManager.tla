-------------------------- MODULE MCBluepyManager --------------------------
(* Small instances of BluepyManager for TLC. *)
EXTENDS BluepyManager, TLC

CONSTANTS a1, p1, p2, p3, w1, w2, w3, c1, c2, c3
Symmetry == Permutations({p1, p2, p3}) \cup Permutations({w1, w2, w3}) \cup Permutations({c1, c2, c3})
=============================================================================
