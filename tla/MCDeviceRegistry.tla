-------------------------- MODULE MCDeviceRegistry --------------------------
(* Small instances of DeviceRegistry for TLC. *)
EXTENDS DeviceRegistry, TLC

CONSTANTS r1, r2, lower, upper

\* A static random address and one of any other kind.
MCInferred == (lower :> "random") @@ (upper :> "public")

Symmetry == Permutations({r1, r2})
=============================================================================
