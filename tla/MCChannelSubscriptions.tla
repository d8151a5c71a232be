----------------------- MODULE MCChannelSubscriptions -----------------------
(* Small instances of ChannelSubscriptions for TLC. *)
EXTENDS ChannelSubscriptions, TLC

CONSTANTS r1, r2, u1, u2
Symmetry == Permutations({r1, r2}) \cup Permutations({u1, u2})
=============================================================================
