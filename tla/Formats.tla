------------------------------ MODULE Formats ------------------------------
(***************************************************************************)
(* The binary formats of the characteristics (ble/parser.py): how a value  *)
(* becomes the bytes that are written and how notified bytes become a      *)
(* value.  A value is what a user may type, a multiple of one half, and is *)
(* counted in halves: 3 is 1.5.  The two float formats, which keep what is *)
(* behind the point, are left out.                                         *)
(***************************************************************************)
EXTENDS Integers, Sequences

Kind(size, signed, big) == [size |-> size, signed |-> signed, big |-> big]

FORMATS == [uint8     |-> Kind(1, FALSE, FALSE), int8     |-> Kind(1, TRUE, FALSE),
            uint16_le |-> Kind(2, FALSE, FALSE), int16_le |-> Kind(2, TRUE, FALSE),
            uint16_be |-> Kind(2, FALSE, TRUE),  int16_be |-> Kind(2, TRUE, TRUE),
            uint32_le |-> Kind(4, FALSE, FALSE), int32_le |-> Kind(4, TRUE, FALSE)]

Weight == <<1, 256, 65536, 16777216>>      \* of a byte, the least significant first

\* How many numbers a format has, and which.
Span(f)      == CASE f.size = 1 -> 256 [] f.size = 2 -> 65536 [] f.size = 4 -> 65536 * 65536
Lowest(f)    == IF f.signed THEN -(Span(f) \div 2) ELSE 0
Representable(n, f) == Lowest(f) <= n /\ n < Lowest(f) + Span(f)

\* int(): towards zero.
Truncated(v) == IF v >= 0 THEN v \div 2 ELSE -((-v) \div 2)

Place(i, f) == IF f.big THEN f.size + 1 - i ELSE i       \* where byte i has its weight

\* struct.pack of a number the format has.
Pack(n, f) == LET u == IF n < 0 THEN n + Span(f) ELSE n
              IN  [i \in 1 .. f.size |-> (u \div Weight[Place(i, f)]) % 256]

Refused == <<>>                            \* ParseError: no bytes, no command

\* Mutant: the value wraps around.
encode_Wraps(v, f) == Pack(Truncated(v) % Span(f), f)

encode(v, f) ==
    IF Representable(Truncated(v), f) THEN Pack(Truncated(v), f) ELSE Refused

\* struct.unpack of the first `size` bytes.
decode(bytes, f) ==
    LET b(i) == bytes[Place(i, f)] * Weight[i]
        u == CASE f.size = 1 -> b(1)
               [] f.size = 2 -> b(1) + b(2)
               [] f.size = 4 -> b(1) + b(2) + b(3) + b(4)
    IN  IF f.signed /\ u >= Span(f) \div 2 THEN u - Span(f) ELSE u
=============================================================================
