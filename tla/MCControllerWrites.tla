------------------------- MODULE MCControllerWrites -------------------------
(* Small instances of ControllerWrites for TLC. *)
EXTENDS ControllerWrites, TLC

CONSTANTS r1, r2, r3
Symmetry == Permutations({r1, r2, r3})

\* -0.5, -128.5, 255.5 and 65535.5: each format with one or two bytes takes some
\* of them, at the very end of its range, and refuses others.
Halves == {-1, -257, 511, 131071}
Small  == {"uint8", "int8", "uint16_le", "int16_le", "uint16_be", "int16_be"}
=============================================================================
