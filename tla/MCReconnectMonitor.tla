------------------------ MODULE MCReconnectMonitor -------------------------
(* Small instances of ReconnectMonitor for TLC. *)
EXTENDS ReconnectMonitor, TLC

CONSTANTS a1, a2
Symmetry == Permutations({a1, a2})
=============================================================================
