------------------------------ MODULE Base64Ops ------------------------------
(***************************************************************************)
(* The characters of the texts that the server writes and reads back, and  *)
(* base64_encode().                                                        *)
(*                                                                         *)
(* A character is a byte, renumbered: 0..63 are the characters of the      *)
(* base64 alphabet, by their place in it, so that alphabet[] is the        *)
(* identity on them; up to 127 are the others of ASCII; from 128 on are    *)
(* the bytes that are negative where char is signed.                       *)
(***************************************************************************)
EXTENDS Integers, Sequences

Digit == 0..63
Pad == 64       \* '='
Byte == 0..255
Wide == 128..255
-----------------------------------------------------------------------------
\* The padding behind the digits that stand for n bytes.
get_padding(n) == IF n % 3 = 0 THEN 0 ELSE 3 - (n % 3)

encoded_size(n) == 4 * ((n + 2) \div 3)

\* Mutant: room for the full groups only.
decoded_size_of_groups(n) == 3 * (n \div 4)

\* The size of the buffer that n characters are decoded into.
decoded_size(n) == 3 * ((n + 4) \div 4)

\* The four digits of three bytes.
Digits(x, y, z) ==
  <<x \div 4, 16 * (x % 4) + y \div 16, 4 * (y % 16) + z \div 64, z % 64>>

\* The three bytes of four digits; of values that are none as well, which an
\* unsigned char holds.
Bytes(c) ==
  <<(4 * c[1] + (c[2] % 64) \div 16) % 256,
    16 * (c[2] % 16) + (c[3] % 64) \div 4,
    (64 * (c[3] % 4) + c[4]) % 256>>

\* A group that is not full is encoded as if zeros followed.
ByteOrZero(b, j) == IF j <= Len(b) THEN b[j] ELSE 0

DigitAt(b, d) ==
  LET g == 3 * ((d - 1) \div 4)
  IN  Digits(ByteOrZero(b, g + 1), ByteOrZero(b, g + 2), ByteOrZero(b, g + 3))
        [((d - 1) % 4) + 1]

\* n bytes take the digits that 8 * n bits need, and the padding if wanted.
DigitCount(n) == (4 * n + 2) \div 3

base64_encode(b, with_padding) ==
  [d \in 1..(DigitCount(Len(b)) + IF with_padding THEN get_padding(Len(b)) ELSE 0)
     |-> IF d <= DigitCount(Len(b)) THEN DigitAt(b, d) ELSE Pad]
=============================================================================
