---------------------------- MODULE FormatsProofs ----------------------------
(***************************************************************************)
(* The readers of texts, for every text.  base64_decode(): its inductive   *)
(* invariant, that it stays within its buffer, and that it inverts         *)
(* base64_encode().  cookie_list: that it reads the grammar of its         *)
(* comment, and finds the session's cookie among those of a client.        *)
(* verify_password(): that a match is one of the whole hash.               *)
(***************************************************************************)
EXTENDS Base64, Cookies, PasswordHash, TLAPS, WellFoundedInduction

\* Bytes are numbers, and the characters of an encoding are of ASCII.
LEMMA Characters ==
  /\ \A x \in Byte : x \in Nat
  /\ \A x \in Digit : x \notin Wide
  /\ Pad \notin Wide
<1>1. \A x \in Byte : x \in Nat
  BY DEF Byte
<1>2. \A x \in Digit : x \notin Wide
  BY DEF Digit, Wide
<1>3. Pad \notin Wide
  BY DEF Pad, Wide
<1>4. QED
  BY <1>1, <1>2, <1>3

\* What fits into an unsigned char.
LEMMA UnsignedChars ==
  ASSUME NEW x \in 0..255, NEW y \in 0..255
  PROVE  /\ (4 * x + (y % 64) \div 16) % 256 \in 0..255
         /\ 16 * (x % 16) + (y % 64) \div 4 \in 0..255
         /\ (64 * (x % 4) + y) % 256 \in 0..255
<1>1. \A n \in Nat : n % 256 \in 0..255
  OBVIOUS
<1>2. y % 64 \in 0..63 /\ x % 16 \in 0..15 /\ x % 4 \in 0..3
  OBVIOUS
<1>3. (y % 64) \div 16 \in 0..3 /\ (y % 64) \div 4 \in 0..15
  BY <1>2
<1>4. /\ 4 * x + (y % 64) \div 16 \in Nat
      /\ 16 * (x % 16) + (y % 64) \div 4 \in 0..255
      /\ 64 * (x % 4) + y \in Nat
  BY <1>2, <1>3
<1>5. QED
  BY <1>1, <1>4

\* The three bytes of a group.
LEMMA BytesOfDigits ==
  ASSUME NEW c \in [1..4 -> Byte]
  PROVE  /\ Bytes(c) \in Seq(Byte)
         /\ Len(Bytes(c)) = 3
         /\ Bytes(c)[1] = (4 * c[1] + (c[2] % 64) \div 16) % 256
         /\ Bytes(c)[2] = 16 * (c[2] % 16) + (c[3] % 64) \div 4
         /\ Bytes(c)[3] = (64 * (c[3] % 4) + c[4]) % 256
<1>1. /\ c[1] \in 0..255 /\ c[2] \in 0..255 /\ c[3] \in 0..255 /\ c[4] \in 0..255
  BY DEF Byte
<1>2. /\ (4 * c[1] + (c[2] % 64) \div 16) % 256 \in Byte
      /\ 16 * (c[2] % 16) + (c[3] % 64) \div 4 \in Byte
      /\ (64 * (c[3] % 4) + c[4]) % 256 \in Byte
  <2>1. (4 * c[1] + (c[2] % 64) \div 16) % 256 \in 0..255
    BY <1>1, UnsignedChars
  <2>2. 16 * (c[2] % 16) + (c[3] % 64) \div 4 \in 0..255
    BY <1>1, UnsignedChars
  <2>3. (64 * (c[3] % 4) + c[4]) % 256 \in 0..255
    BY <1>1, UnsignedChars
  <2>4. QED
    BY <2>1, <2>2, <2>3 DEF Byte
<1>3. QED
  BY <1>2 DEF Bytes

\* What a character is taken for.
LEMMA InverseOf ==
  ASSUME NEW c \in Byte
  PROVE  /\ inverse(c) % 256 \in Byte
         /\ c \in Digit => inverse(c) = c /\ inverse(c) % 256 = c
         /\ c \notin Digit /\ c \notin Wide => inverse(c) = -1
<1>1. c \in Wide => wide_tab[c] \in (-128)..127
  BY Base64Assumption
<1>2. inverse(c) \in (-128)..127
  BY <1>1 DEF inverse, Digit
<1>3. inverse(c) % 256 \in 0..255
  BY <1>2
<1>4. c \in Digit => inverse(c) = c
  BY DEF inverse
<1>5. c \in Digit => c % 256 = c
  BY DEF Digit
<1>6. c \notin Digit /\ c \notin Wide => inverse(c) = -1
  BY DEF inverse
<1>7. QED
  BY <1>3, <1>4, <1>5, <1>6 DEF Byte

\* Joining and cutting strings of bytes.
LEMMA JoinBytes ==
  ASSUME NEW s \in Seq(Byte), NEW t \in Seq(Byte)
  PROVE  /\ s \o t \in Seq(Byte)
         /\ Len(s \o t) = Len(s) + Len(t)
         /\ \A j \in 1..(Len(s) + Len(t)) :
              (s \o t)[j] = IF j <= Len(s) THEN s[j] ELSE t[j - Len(s)]
  OBVIOUS

LEMMA CutBytes ==
  ASSUME NEW s \in Seq(Byte), NEW n \in 0..Len(s)
  PROVE  /\ SubSeq(s, 1, n) \in Seq(Byte)
         /\ Len(SubSeq(s, 1, n)) = n
         /\ \A j \in 1..n : SubSeq(s, 1, n)[j] = s[j]
  OBVIOUS

\* What is encoded is a text of digits, with padding behind them.
LEMMA EncodedText ==
  ASSUME NEW b \in Seq(Byte), NEW with_padding \in BOOLEAN
  PROVE  LET e == base64_encode(b, with_padding)
         IN  /\ e \in Seq(Byte) /\ e \in Seq(Nat)
             /\ Len(e) = DigitCount(Len(b))
                           + IF with_padding THEN get_padding(Len(b)) ELSE 0
             /\ \A d \in 1..DigitCount(Len(b)) : e[d] = DigitAt(b, d) /\ e[d] \in Digit
             /\ \A d \in (DigitCount(Len(b)) + 1)..Len(e) : e[d] = Pad
<1> DEFINE n == Len(b)
           size == DigitCount(n) + IF with_padding THEN get_padding(n) ELSE 0
           e == base64_encode(b, with_padding)
<1>1. DigitCount(n) \in Nat /\ get_padding(n) \in Nat
  BY DEF DigitCount, get_padding
<1>2. size \in Nat
  BY <1>1
<1>3. ASSUME NEW d \in 1..DigitCount(n)
      PROVE  DigitAt(b, d) \in Digit
  <2> DEFINE g == 3 * ((d - 1) \div 4)
             x == ByteOrZero(b, g + 1)
             y == ByteOrZero(b, g + 2)
             z == ByteOrZero(b, g + 3)
  <2>1. d \in Nat /\ g \in Nat
    BY <1>1
  <2>2. x \in 0..255 /\ y \in 0..255 /\ z \in 0..255
    <3>1. \A j \in Nat \ {0} : ByteOrZero(b, j) \in 0..255
      <4>1. TAKE j \in Nat \ {0}
      <4>2. j <= Len(b) => b[j] \in Byte
        OBVIOUS
      <4>3. 0 \in Byte /\ Byte = 0..255
        BY DEF Byte
      <4>4. QED
        BY <4>2, <4>3 DEF ByteOrZero
    <3>2. g + 1 \in Nat \ {0} /\ g + 2 \in Nat \ {0} /\ g + 3 \in Nat \ {0}
      BY <2>1
    <3> HIDE DEF g
    <3>3. QED
      BY <3>1, <3>2
  <2>3. Digits(x, y, z) \in [1..4 -> Digit]
    <3> HIDE DEF x, y, z
    <3>1. /\ x \div 4 \in Digit
          /\ 16 * (x % 4) + y \div 16 \in Digit
          /\ 4 * (y % 16) + z \div 64 \in Digit
          /\ z % 64 \in Digit
      BY <2>2 DEF Digit
    <3>2. QED
      BY <3>1 DEF Digits
  <2>4. ((d - 1) % 4) + 1 \in 1..4
    BY <2>1
  <2>5. QED
    BY <2>3, <2>4 DEF DigitAt
<1>4. e = [d \in 1..size |-> IF d <= DigitCount(n) THEN DigitAt(b, d) ELSE Pad]
  BY DEF base64_encode
<1> HIDE DEF e, n, size
<1>5. \A d \in 1..size : (IF d <= DigitCount(n) THEN DigitAt(b, d) ELSE Pad) \in Byte
  <2>1. SUFFICES ASSUME NEW d \in 1..size
                 PROVE  d <= DigitCount(n) => DigitAt(b, d) \in Byte
    BY DEF Pad, Byte
  <2>2. d <= DigitCount(n) => d \in 1..DigitCount(n)
    BY <1>1, <1>2
  <2>3. \A v \in Digit : v \in Byte
    BY DEF Digit, Byte
  <2>4. QED
    BY <1>3, <2>2, <2>3
<1>6. e \in Seq(Byte) /\ e \in Seq(Nat) /\ Len(e) = size
  <2>1. e \in Seq(Byte) /\ Len(e) = size
    BY <1>2, <1>4, <1>5
  <2>2. \A d \in 1..size : (IF d <= DigitCount(n) THEN DigitAt(b, d) ELSE Pad) \in Nat
    BY <1>5, Characters
  <2>3. e \in Seq(Nat)
    BY <1>2, <1>4, <2>2
  <2>4. QED
    BY <2>1, <2>3
<1>7. DigitCount(n) <= size
  BY <1>1 DEF size
<1>8. \A d \in 1..DigitCount(n) : e[d] = DigitAt(b, d) /\ e[d] \in Digit
  BY <1>1, <1>2, <1>3, <1>4, <1>7
<1>9. \A d \in (DigitCount(n) + 1)..size : e[d] = Pad
  BY <1>1, <1>2, <1>4
<1>10. QED
  BY <1>6, <1>8, <1>9 DEF e, n, size
-----------------------------------------------------------------------------
\* The invariant of base64_decode() holds at the start.
LEMMA DecodeInitIInv == DecodeInit => DecodeIInv
<1>1. SUFFICES ASSUME DecodeInit
               PROVE  DecodeIInv
  OBVIOUS
<1>2. padded \in BOOLEAN
  BY <1>1 DEF DecodeInit
<1>3. /\ \/ source = << >>
         \/ \E m \in Messages : source = <<m>> /\ text = base64_encode(m, padded)
      /\ text \in Seq(Byte)
  <2>1. CASE source = << >> /\ text \in Texts
    BY <2>1, Base64Assumption
  <2>2. CASE \E m \in Messages : source = <<m>> /\ text = base64_encode(m, padded)
    BY <2>2, <1>2, EncodedText, Base64Assumption
  <2>3. QED
    BY <1>1, <2>1, <2>2 DEF DecodeInit
<1>4. /\ decoded = "running" /\ src = 0 /\ i = 0 /\ out = << >>
      /\ c4 = <<0, 0, 0, 0>>
  BY <1>1 DEF DecodeInit
<1>5. c4 \in [1..4 -> Byte]
  BY <1>4 DEF Byte
<1>6. Len(out) = 0 /\ out \in Seq(Byte) /\ i = src % 4 /\ src \in 0..Len(text)
  BY <1>3, <1>4
<1>7. Len(out) = 3 * (src \div 4)
  BY <1>4, <1>6
<1>8. QED
  BY <1>2, <1>3, <1>4, <1>5, <1>6, <1>7 DEF DecodeIInv

\* Where a byte is in its group of three.
LEMMA Thirds ==
  ASSUME NEW k \in Nat
  PROVE  /\ (3 * k + 1) % 3 = 1 /\ (3 * k + 2) % 3 = 2 /\ (3 * k + 3) % 3 = 0
         /\ (3 * k + 1 - 1) \div 3 = k
         /\ (3 * k + 2 - 1) \div 3 = k
         /\ (3 * k + 3 - 1) \div 3 = k
  OBVIOUS

LEMMA WhichThird ==
  ASSUME NEW k \in Nat, NEW n \in 0..3, NEW j \in 1..(3 * k + n)
  PROVE  \/ j <= 3 * k
         \/ j = 3 * k + 1 /\ n >= 1
         \/ j = 3 * k + 2 /\ n >= 2
         \/ j = 3 * k + 3 /\ n = 3
  OBVIOUS

\* The first byte of group k.
LEMMA FirstByteOf ==
  ASSUME NEW t, NEW k \in Nat
  PROVE  ByteOf(t, 3 * k + 1) = (4 * t[4 * k + 1] + (t[4 * k + 2] % 64) \div 16) % 256
<1> DEFINE j == 3 * k + 1
           g == 4 * ((j - 1) \div 3)
<1>1. j % 3 = 1 /\ g = 4 * k
  BY Thirds
<1>2. ByteOf(t, j) = (4 * t[g + 1] + (t[g + 2] % 64) \div 16) % 256
  BY <1>1 DEF ByteOf
<1>3. QED
  BY <1>1, <1>2

\* The bytes behind the full groups, of which n are written, are those of the
\* text when the group's digits are.
LEMMA GroupIsOfText ==
  ASSUME NEW t, NEW k \in Nat, NEW n \in 0..3,
         NEW c \in [1..4 -> Byte], NEW s \in Seq(Byte),
         Len(s) = 3 * k,
         \A j \in 1..Len(s) : s[j] = ByteOf(t, j),
         \A d \in 1..4 : n > 0 /\ d <= n + 1 => c[d] = t[4 * k + d]
  PROVE  LET o == s \o SubSeq(Bytes(c), 1, n)
         IN  /\ o \in Seq(Byte)
             /\ Len(o) = 3 * k + n
             /\ \A j \in 1..Len(o) : o[j] = ByteOf(t, j)
<1> DEFINE b == SubSeq(Bytes(c), 1, n)
           o == s \o b
<1>1. n \in 0..Len(Bytes(c)) /\ Bytes(c) \in Seq(Byte)
  BY BytesOfDigits
<1>2. /\ b \in Seq(Byte) /\ Len(b) = n
      /\ \A j \in 1..n : b[j] = Bytes(c)[j]
  BY <1>1, CutBytes
<1> HIDE DEF b
<1>3. /\ o \in Seq(Byte) /\ Len(o) = 3 * k + n
      /\ \A j \in 1..(3 * k + n) :
           o[j] = IF j <= 3 * k THEN s[j] ELSE b[j - 3 * k]
  <2>1. /\ o \in Seq(Byte)
        /\ Len(o) = Len(s) + Len(b)
        /\ \A j \in 1..(Len(s) + Len(b)) :
             o[j] = IF j <= Len(s) THEN s[j] ELSE b[j - Len(s)]
    BY <1>2, JoinBytes
  <2> HIDE DEF o
  <2>2. QED
    BY <1>2, <2>1
<1> HIDE DEF o
<1>4. ASSUME NEW j \in 1..(3 * k + n)
      PROVE  o[j] = ByteOf(t, j)
  <2>1. CASE j <= 3 * k
    BY <2>1, <1>3
  <2>2. CASE j = 3 * k + 1 /\ n >= 1
    <3>1. /\ n >= 1 /\ c[1] = t[4 * k + 1] /\ c[2] = t[4 * k + 2]
          /\ o[j] = Bytes(c)[1]
      <4>1. n >= 1
        BY <2>2
      <4>2. o[j] = b[1]
        <5>1. ~ (j <= 3 * k) /\ j - 3 * k = 1
          BY <2>2
        <5>2. QED
          BY <5>1, <1>3
      <4>3. n > 0 /\ 1 \in 1..n /\ 1 \in 1..4 /\ 2 \in 1..4 /\ 1 <= n + 1 /\ 2 <= n + 1
        BY <4>1
      <4>4. QED
        BY <1>2, <4>1, <4>2, <4>3
    <3>2. j % 3 = 1 /\ 4 * ((j - 1) \div 3) = 4 * k
      BY <2>2, Thirds
    <3>3. ByteOf(t, j) = (4 * t[4 * k + 1] + (t[4 * k + 2] % 64) \div 16) % 256
      BY <2>2, FirstByteOf
    <3>4. QED
      BY <3>1, <3>3, BytesOfDigits
  <2>3. CASE j = 3 * k + 2 /\ n >= 2
    <3>1. /\ n >= 2 /\ c[2] = t[4 * k + 2] /\ c[3] = t[4 * k + 3]
          /\ o[j] = Bytes(c)[2]
      <4>1. n >= 2
        BY <2>3
      <4>2. o[j] = b[2]
        <5>1. ~ (j <= 3 * k) /\ j - 3 * k = 2
          BY <2>3
        <5>2. QED
          BY <5>1, <1>3
      <4>3. n > 0 /\ 2 \in 1..n /\ 2 \in 1..4 /\ 3 \in 1..4 /\ 2 <= n + 1 /\ 3 <= n + 1
        BY <4>1
      <4>4. QED
        BY <1>2, <4>1, <4>2, <4>3
    <3>2. j % 3 = 2 /\ 4 * ((j - 1) \div 3) = 4 * k
      BY <2>3, Thirds
    <3>3. ByteOf(t, j) = 16 * (t[4 * k + 2] % 16) + (t[4 * k + 3] % 64) \div 4
      BY <3>2 DEF ByteOf
    <3>4. QED
      BY <3>1, <3>3, BytesOfDigits
  <2>4. CASE j = 3 * k + 3 /\ n = 3
    <3>1. /\ n = 3 /\ c[3] = t[4 * k + 3] /\ c[4] = t[4 * k + 4]
          /\ o[j] = Bytes(c)[3]
      <4>1. n = 3
        BY <2>4
      <4>2. o[j] = b[3]
        <5>1. ~ (j <= 3 * k) /\ j - 3 * k = 3
          BY <2>4
        <5>2. QED
          BY <5>1, <1>3
      <4>3. n > 0 /\ 3 \in 1..n /\ 3 \in 1..4 /\ 4 \in 1..4 /\ 3 <= n + 1 /\ 4 <= n + 1
        BY <4>1
      <4>4. QED
        BY <1>2, <4>1, <4>2, <4>3
    <3>2. j % 3 = 0 /\ 4 * ((j - 1) \div 3) = 4 * k
      BY <2>4, Thirds
    <3>3. ByteOf(t, j) = (64 * (t[4 * k + 3] % 4) + t[4 * k + 4]) % 256
      BY <3>2 DEF ByteOf
    <3>4. QED
      BY <3>1, <3>3, BytesOfDigits
  <2>5. QED
    BY <2>1, <2>2, <2>3, <2>4, WhichThird
<1>5. QED
  BY <1>3, <1>4 DEF o, b

\* Where a digit is in its group of four.
LEMMA Quarters ==
  ASSUME NEW k \in Nat, NEW r \in 0..3
  PROVE  (4 * k + r) % 4 = r /\ (4 * k + r) \div 4 = k
  OBVIOUS

\* A digit keeps the invariant.
LEMMA ReadDigitIInv == DecodeIInv /\ ReadDigit => DecodeIInv'
<1>1. SUFFICES ASSUME DecodeIInv, ReadDigit
               PROVE  DecodeIInv'
  OBVIOUS
<1> DEFINE k == src \div 4
           v == inverse(text[src + 1]) % 256
<1>2. /\ UNCHANGED <<source, text, padded, decoded>>
      /\ decoded = "running" /\ inverse(text[src + 1]) # -1 /\ src < Len(text)
      /\ src' = src + 1 /\ c4' = [c4 EXCEPT ![i + 1] = v]
  BY <1>1 DEF ReadDigit, AtDigits
<1>3. /\ text \in Seq(Byte) /\ src \in 0..Len(text) /\ i = src % 4
      /\ c4 \in [1..4 -> Byte] /\ out \in Seq(Byte)
      /\ \A d \in 1..src : inverse(text[d]) # -1
      /\ \A d \in 1..i : c4[d] = Taken[src - i + d]
      /\ Len(out) = 3 * k
      /\ \A j \in 1..Len(out) : out[j] = ByteOf(Taken, j)
  BY <1>1, <1>2 DEF DecodeIInv
<1>4. k \in Nat /\ i \in 0..3 /\ src = 4 * k + i /\ src \div 4 = k
  BY <1>3
<1>11. v \in Byte /\ v = Taken[src + 1] /\ Taken' = Taken
  <2>1. src + 1 \in 1..Len(text) /\ text[src + 1] \in Byte
    BY <1>2, <1>3
  <2>2. QED
    BY <1>2, <2>1, InverseOf DEF Taken
<1> HIDE DEF k, v
<1>5. c4' \in [1..4 -> Byte]
  BY <1>2, <1>3, <1>4, <1>11
<1>6. \A d \in 1..(i + 1) : c4'[d] = Taken[4 * k + d]
  <2>1. TAKE d \in 1..(i + 1)
  <2>2. CASE d = i + 1
    <3>1. c4'[d] = v
      BY <2>2, <1>2, <1>3, <1>4
    <3>2. 4 * k + d = src + 1
      BY <2>2, <1>4
    <3>3. QED
      BY <3>1, <3>2, <1>11
  <2>3. CASE d # i + 1
    <3>1. d \in 1..i
      BY <2>3, <1>4
    <3>2. c4'[d] = c4[d]
      BY <2>3, <3>1, <1>2, <1>3, <1>4
    <3>3. src - i + d = 4 * k + d
      BY <1>4, <3>1
    <3>4. QED
      BY <3>1, <3>2, <3>3, <1>3
  <2>4. QED
    BY <2>2, <2>3
<1>7. (\A d \in 1..src : inverse(text[d]) # -1)' /\ (src \in 0..Len(text))'
  <2>1. inverse(text[src + 1]) # -1
    BY <1>2
  <2>2. \A d \in 1..(src + 1) : inverse(text[d]) # -1
    BY <1>3, <2>1
  <2>3. src + 1 \in 0..Len(text)
    BY <1>2, <1>3
  <2>4. QED
    BY <1>2, <2>2, <2>3 DEF inverse
<1>8. CASE i + 1 = 4
  <2>1. i' = 0 /\ out' = out \o Bytes(c4')
    BY <1>1, <1>8 DEF ReadDigit
  <2>2. src' = 4 * k + 4 /\ src' % 4 = 0 /\ src' \div 4 = k + 1
    <3>1. src' = 4 * k + 4 /\ src' = 4 * (k + 1) + 0 /\ k + 1 \in Nat
      BY <1>2, <1>4, <1>8
    <3>2. QED
      BY <3>1, Quarters
  <2>3. SubSeq(Bytes(c4'), 1, 3) = Bytes(c4')
    BY <1>5, BytesOfDigits
  <2>4. \A d \in 1..4 : d <= 3 + 1 => c4'[d] = Taken[4 * k + d]
    BY <1>6, <1>8
  <2>5. LET o == out \o SubSeq(Bytes(c4'), 1, 3)
        IN  /\ o \in Seq(Byte)
            /\ Len(o) = 3 * k + 3
            /\ \A j \in 1..Len(o) : o[j] = ByteOf(Taken, j)
    <3> DEFINE c == c4'
    <3>1. c \in [1..4 -> Byte] /\ \A d \in 1..4 : 3 > 0 /\ d <= 3 + 1 => c[d] = Taken[4 * k + d]
      BY <1>5, <2>4
    <3> HIDE DEF c
    <3>2. /\ k \in Nat /\ 3 \in 0..3 /\ out \in Seq(Byte)
          /\ Len(out) = 3 * k
          /\ \A j \in 1..Len(out) : out[j] = ByteOf(Taken, j)
      BY <1>3, <1>4
    <3>3. LET o == out \o SubSeq(Bytes(c), 1, 3)
          IN  /\ o \in Seq(Byte)
              /\ Len(o) = 3 * k + 3
              /\ \A j \in 1..Len(o) : o[j] = ByteOf(Taken, j)
      BY <3>1, <3>2, GroupIsOfText
    <3>4. QED
      BY <3>3 DEF c
  <2>6. /\ out' \in Seq(Byte)
        /\ Len(out') = 3 * (src' \div 4)
        /\ (\A j \in 1..Len(out) : out[j] = ByteOf(Taken, j))'
    <3>1. 3 * k + 3 = 3 * (k + 1)
      BY <1>4
    <3>2. /\ out' \in Seq(Byte) /\ Len(out') = 3 * k + 3
          /\ \A j \in 1..Len(out') : out'[j] = ByteOf(Taken, j)
      BY <2>1, <2>3, <2>5
    <3>3. QED
      BY <3>1, <3>2, <2>2, <1>2, <1>11
  <2>7. (i = src % 4)' /\ (\A d \in 1..i : c4[d] = Taken[src - i + d])'
    BY <2>1, <2>2
  <2>8. QED
    BY <1>1, <1>2, <1>3, <1>5, <1>7, <2>6, <2>7 DEF DecodeIInv
<1>9. CASE i + 1 # 4
  <2>1. i' = i + 1 /\ out' = out
    BY <1>1, <1>9 DEF ReadDigit
  <2>2. src' % 4 = i + 1 /\ src' \div 4 = k /\ src' - i' = 4 * k
    <3>1. src' = 4 * k + (i + 1) /\ i + 1 \in 0..3
      BY <1>2, <1>4, <1>9
    <3>2. QED
      BY <1>4, <2>1, <3>1, Quarters
  <2>3. (\A d \in 1..i : c4[d] = Taken[src - i + d])'
    BY <1>2, <1>4, <1>6, <1>11, <2>1, <2>2
  <2>4. (Len(out) = 3 * (src \div 4))' /\ (i = src % 4)'
    BY <1>3, <2>1, <2>2
  <2>5. (\A j \in 1..Len(out) : out[j] = ByteOf(Taken, j))'
    BY <1>2, <1>3, <1>11, <2>1
  <2>6. QED
    BY <1>1, <1>2, <1>3, <1>5, <1>7, <2>1, <2>3, <2>4, <2>5 DEF DecodeIInv
<1>10. QED
  BY <1>8, <1>9

\* What Finish leaves in the buffer.
LEMMA FinishWrites ==
  ASSUME DecodeIInv, Finish
  PROVE  /\ out' \in Seq(Byte)
         /\ Len(out') = 3 * (src \div 4) + IF i > 0 THEN i - 1 ELSE 0
         /\ \A j \in 1..Len(out') : out'[j] = ByteOf(Taken, j)
<1> DEFINE k == src \div 4
           n == IF i > 0 THEN i - 1 ELSE 0
<1>2. /\ UNCHANGED <<source, text, padded, src, c4, i>>
      /\ decoded = "running" /\ decoded' \in {"ok", "invalid"}
      /\ out' = out \o SubSeq(Bytes(c4), 1, i - 1)
  BY DEF Finish
<1>3. /\ text \in Seq(Byte) /\ src \in 0..Len(text) /\ i = src % 4
      /\ c4 \in [1..4 -> Byte] /\ out \in Seq(Byte)
      /\ \A d \in 1..i : c4[d] = Taken[src - i + d]
      /\ Len(out) = 3 * k
      /\ \A j \in 1..Len(out) : out[j] = ByteOf(Taken, j)
  BY <1>2 DEF DecodeIInv
<1>4. k \in Nat /\ i \in 0..3 /\ src = 4 * k + i /\ src \div 4 = k /\ n \in 0..3
  BY <1>3
<1>5. SubSeq(Bytes(c4), 1, i - 1) = SubSeq(Bytes(c4), 1, n)
  <2>1. CASE i > 0
    BY <2>1
  <2>2. CASE i = 0
    <3>1. SubSeq(Bytes(c4), 1, 0) = << >> /\ SubSeq(Bytes(c4), 1, 0 - 1) = << >>
      BY <1>3, BytesOfDigits
    <3>2. QED
      BY <2>2, <3>1
  <2>3. QED
    BY <1>4, <2>1, <2>2
<1> HIDE DEF k
<1>6. \A d \in 1..4 : n > 0 /\ d <= n + 1 => c4[d] = Taken[4 * k + d]
  <2>1. SUFFICES ASSUME NEW d \in 1..4, n > 0, d <= n + 1
                 PROVE  c4[d] = Taken[4 * k + d]
    OBVIOUS
  <2>2. d \in 1..i /\ src - i + d = 4 * k + d
    BY <1>4, <2>1
  <2>3. QED
    BY <1>3, <2>2
<1>7. /\ out' \in Seq(Byte)
      /\ Len(out') = 3 * k + n
      /\ \A j \in 1..Len(out') : out'[j] = ByteOf(Taken, j)
  <2>1. /\ k \in Nat /\ n \in 0..3 /\ c4 \in [1..4 -> Byte] /\ out \in Seq(Byte)
        /\ Len(out) = 3 * k
        /\ \A j \in 1..Len(out) : out[j] = ByteOf(Taken, j)
    BY <1>3, <1>4
  <2> HIDE DEF n
  <2>2. LET o == out \o SubSeq(Bytes(c4), 1, n)
        IN  /\ o \in Seq(Byte)
            /\ Len(o) = 3 * k + n
            /\ \A j \in 1..Len(o) : o[j] = ByteOf(Taken, j)
    BY <1>6, <2>1, GroupIsOfText
  <2>3. QED
    BY <1>2, <1>5, <2>2
<1>8. QED
  BY <1>4, <1>7

\* The end of the text keeps the invariant.
LEMMA FinishIInv == DecodeIInv /\ Finish => DecodeIInv'
<1>1. SUFFICES ASSUME DecodeIInv, Finish
               PROVE  DecodeIInv'
  OBVIOUS
<1> DEFINE k == src \div 4
           n == IF i > 0 THEN i - 1 ELSE 0
<1>2. /\ UNCHANGED <<source, text, padded, src, c4, i>>
      /\ decoded = "running" /\ decoded' \in {"ok", "invalid"}
  BY <1>1 DEF Finish
<1>3. src \in 0..Len(text) /\ text \in Seq(Byte) /\ i = src % 4
  BY <1>1 DEF DecodeIInv
<1>4. k \in Nat /\ i \in 0..3 /\ src = 4 * k + i /\ src \div 4 = k /\ n \in 0..3
  BY <1>3
<1>7. /\ out' \in Seq(Byte)
      /\ Len(out') = 3 * k + n
      /\ \A j \in 1..Len(out') : out'[j] = ByteOf(Taken, j)
  BY <1>1, FinishWrites
<1> HIDE DEF k
<1>8. \/ (Len(out) = 3 * (src \div 4))'
      \/ (decoded # "running" /\ i > 0 /\ Len(out) = 3 * (src \div 4) + i - 1)'
  <2>1. CASE i = 0
    BY <2>1, <1>2, <1>4, <1>7
  <2>2. CASE i > 0
    BY <2>2, <1>2, <1>4, <1>7
  <2>3. QED
    BY <1>4, <2>1, <2>2
<1>9. (decoded = "ok" =>
         /\ Len(out) = IF i > 0 THEN 3 * (src \div 4) + i - 1 ELSE 3 * (src \div 4)
         /\ Len(text) = src + IF padded THEN get_padding(Len(out)) ELSE 0
         /\ \A d \in (src + 1)..Len(text) : text[d] = Pad)'
  <2>1. SUFFICES ASSUME decoded' = "ok"
                 PROVE  /\ Len(out') = IF i > 0 THEN 3 * k + i - 1 ELSE 3 * k
                        /\ Len(text) = src + IF padded THEN get_padding(Len(out')) ELSE 0
                        /\ \A d \in (src + 1)..Len(text) : text[d] = Pad
    BY <1>2, <1>4
  <2>2. Len(out') = IF i > 0 THEN 3 * k + i - 1 ELSE 3 * k
    BY <1>4, <1>7
  <2>3. LET padding == IF padded THEN get_padding(Len(out')) ELSE 0
        IN  src + padding = Len(text) /\ \A d \in (src + 1)..Len(text) : text[d] = Pad
    BY <1>1, <2>1 DEF Finish
  <2>4. QED
    BY <2>2, <2>3
<1>5. Taken' = Taken
  BY <1>2 DEF Taken, inverse
<1>10. /\ (i = src % 4)' /\ (src \in 0..Len(text))'
       /\ (\A d \in 1..src : inverse(text[d]) # -1)'
       /\ (\A d \in 1..i : c4[d] = Taken[src - i + d])'
       /\ (\A j \in 1..Len(out) : out[j] = ByteOf(Taken, j))'
  BY <1>1, <1>2, <1>7, <1>5 DEF DecodeIInv, inverse
<1>11. QED
  BY <1>1, <1>2, <1>7, <1>8, <1>9, <1>10 DEF DecodeIInv

\* DecodeIInv is inductive: while base64_decode() runs, and when it returns,
\* the buffer holds the bytes of what the characters read so far were taken for,
\* and of no stale ones; for every text, and whatever lies beyond inverse_tab[].
THEOREM DecodeIInvHolds == DecodeSpec => []DecodeIInv
<1>1. DecodeIInv /\ [DecodeStep]_decodeVars => DecodeIInv'
  <2>1. SUFFICES ASSUME DecodeIInv, [DecodeStep]_decodeVars
                 PROVE  DecodeIInv'
    OBVIOUS
  <2>2. CASE ReadDigit
    BY <2>1, <2>2, ReadDigitIInv
  <2>3. CASE ReadOther
    <3>1. /\ UNCHANGED <<source, text, padded, src, c4, i, out>>
          /\ decoded = "running" /\ decoded' = "invalid"
      BY <2>3 DEF ReadOther
    <3>2. QED
      BY <2>1, <3>1 DEF DecodeIInv, Taken, inverse
  <2>4. CASE Finish
    BY <2>1, <2>4, FinishIInv
  <2>5. CASE UNCHANGED decodeVars
    BY <2>1, <2>5 DEF DecodeIInv, decodeVars, Taken, inverse
  <2>6. QED
    BY <2>1, <2>2, <2>3, <2>4, <2>5 DEF DecodeStep
<1>2. QED
  BY <1>1, DecodeInitIInv, PTL DEF DecodeSpec

\* The buffer of base64_decode() is large enough for every text, a last group
\* of one to three digits included.
THEOREM WritesFitHolds == DecodeSpec => []WritesFit
<1>1. DecodeIInv => WritesFit
  <2>1. SUFFICES ASSUME DecodeIInv
                 PROVE  Len(out) <= 3 * ((Len(text) + 4) \div 4)
    BY DEF WritesFit, decoded_size
  <2>2. /\ src \in 0..Len(text) /\ text \in Seq(Byte) /\ i = src % 4
        /\ \/ Len(out) = 3 * (src \div 4)
           \/ Len(out) = 3 * (src \div 4) + i - 1
    BY <2>1 DEF DecodeIInv
  <2>3. Len(text) \in Nat /\ i <= 3 /\ src <= Len(text) /\ src \in Nat
    BY <2>2
  <2>4. src \div 4 + 1 <= (Len(text) + 4) \div 4
    BY <2>3
  <2>5. QED
    BY <2>2, <2>3, <2>4
<1>2. QED
  BY <1>1, DecodeIInvHolds, PTL
-----------------------------------------------------------------------------
\* The digits of group q + 1, and the bytes of group q + 1.
LEMMA DigitsOfGroup ==
  ASSUME NEW b, NEW q \in Nat
  PROVE  LET x == ByteOrZero(b, 3 * q + 1)
             y == ByteOrZero(b, 3 * q + 2)
             z == ByteOrZero(b, 3 * q + 3)
         IN  /\ DigitAt(b, 4 * q + 1) = x \div 4
             /\ DigitAt(b, 4 * q + 2) = 16 * (x % 4) + y \div 16
             /\ DigitAt(b, 4 * q + 3) = 4 * (y % 16) + z \div 64
             /\ DigitAt(b, 4 * q + 4) = z % 64
<1> DEFINE c == Digits(ByteOrZero(b, 3 * q + 1), ByteOrZero(b, 3 * q + 2),
                       ByteOrZero(b, 3 * q + 3))
<1>1. ASSUME NEW r \in 0..3
      PROVE  DigitAt(b, 4 * q + r + 1) = c[r + 1]
  <2>1. (4 * q + r + 1) - 1 = 4 * q + r
    OBVIOUS
  <2>2. ((4 * q + r + 1) - 1) \div 4 = q /\ ((4 * q + r + 1) - 1) % 4 = r
    BY <2>1, Quarters
  <2>3. QED
    BY <2>2 DEF DigitAt
<1>2. /\ DigitAt(b, 4 * q + 1) = c[1]
      /\ DigitAt(b, 4 * q + 2) = c[2]
      /\ DigitAt(b, 4 * q + 3) = c[3]
      /\ DigitAt(b, 4 * q + 4) = c[4]
  <2>1. /\ 4 * q + 0 + 1 = 4 * q + 1 /\ 4 * q + 1 + 1 = 4 * q + 2
        /\ 4 * q + 2 + 1 = 4 * q + 3 /\ 4 * q + 3 + 1 = 4 * q + 4
    OBVIOUS
  <2>2. /\ DigitAt(b, 4 * q + 0 + 1) = c[0 + 1]
        /\ DigitAt(b, 4 * q + 1 + 1) = c[1 + 1]
        /\ DigitAt(b, 4 * q + 2 + 1) = c[2 + 1]
        /\ DigitAt(b, 4 * q + 3 + 1) = c[3 + 1]
    <3> HIDE DEF c
    <3>1. QED
      BY <1>1
  <2> HIDE DEF c
  <2>3. QED
    BY <2>1, <2>2
<1>3. QED
  BY <1>2 DEF Digits

\* Byte j of what a text of digits stands for: what ByteOf is of digits.
PlainByteOf(t, j) ==
  LET g == 4 * ((j - 1) \div 3)
  IN  CASE j % 3 = 1 -> 4 * t[g + 1] + t[g + 2] \div 16
        [] j % 3 = 2 -> 16 * (t[g + 2] % 16) + t[g + 3] \div 4
        [] j % 3 = 0 -> 64 * (t[g + 3] % 4) + t[g + 4]

\* The three bytes of group q.
LEMMA BytesOfGroup ==
  ASSUME NEW t, NEW q \in Nat
  PROVE  /\ PlainByteOf(t, 3 * q + 1) = 4 * t[4 * q + 1] + t[4 * q + 2] \div 16
         /\ PlainByteOf(t, 3 * q + 2) = 16 * (t[4 * q + 2] % 16) + t[4 * q + 3] \div 4
         /\ PlainByteOf(t, 3 * q + 3) = 64 * (t[4 * q + 3] % 4) + t[4 * q + 4]
<1>1. PlainByteOf(t, 3 * q + 1) = 4 * t[4 * q + 1] + t[4 * q + 2] \div 16
  <2> DEFINE j == 3 * q + 1
             g == 4 * ((j - 1) \div 3)
  <2>1. j % 3 = 1 /\ g = 4 * q
    BY Thirds
  <2>2. PlainByteOf(t, j) = 4 * t[g + 1] + t[g + 2] \div 16
    BY <2>1 DEF PlainByteOf
  <2>3. QED
    BY <2>1, <2>2
<1>2. PlainByteOf(t, 3 * q + 2) = 16 * (t[4 * q + 2] % 16) + t[4 * q + 3] \div 4
  <2> DEFINE j == 3 * q + 2
             g == 4 * ((j - 1) \div 3)
  <2>1. j % 3 = 2 /\ g = 4 * q
    BY Thirds
  <2>2. PlainByteOf(t, j) = 16 * (t[g + 2] % 16) + t[g + 3] \div 4
    BY <2>1 DEF PlainByteOf
  <2>3. QED
    BY <2>1, <2>2
<1>3. PlainByteOf(t, 3 * q + 3) = 64 * (t[4 * q + 3] % 4) + t[4 * q + 4]
  <2> DEFINE j == 3 * q + 3
             g == 4 * ((j - 1) \div 3)
  <2>1. j % 3 = 0 /\ g = 4 * q
    BY Thirds
  <2>2. PlainByteOf(t, j) = 64 * (t[g + 3] % 4) + t[g + 4]
    BY <2>1 DEF PlainByteOf
  <2>3. QED
    BY <2>1, <2>2
<1>4. QED
  BY <1>1, <1>2, <1>3

\* The arithmetic of unsigned char does nothing to digits.
LEMMA BytesArePlain ==
  ASSUME NEW a \in 0..63, NEW b \in 0..63
  PROVE  /\ (4 * a + (b % 64) \div 16) % 256 = 4 * a + b \div 16
         /\ 16 * (a % 16) + (b % 64) \div 4 = 16 * (a % 16) + b \div 4
         /\ (64 * (a % 4) + b) % 256 = 64 * (a % 4) + b
<1>1. b % 64 = b
  OBVIOUS
<1>2. 4 * a + b \div 16 \in 0..255 /\ 64 * (a % 4) + b \in 0..255
  OBVIOUS
<1>3. \A x \in 0..255 : x % 256 = x
  OBVIOUS
<1>4. QED
  BY <1>1, <1>2, <1>3

\* The bytes of n digits, of which the last group may be short.
LEMMA PlainBytes ==
  ASSUME NEW t, NEW k \in Nat, NEW n \in 0..3,
         \A d \in 1..(4 * k + n) : t[d] \in 0..63,
         NEW j \in 1..(3 * k + IF n > 0 THEN n - 1 ELSE 0)
  PROVE  ByteOf(t, j) = PlainByteOf(t, j)
<1> DEFINE q == (j - 1) \div 3
           g == 4 * q
<1>1. j \in Nat /\ q \in Nat /\ j % 3 \in 0..2
  OBVIOUS
<1>2. /\ j % 3 = 1 => g + 1 \in 1..(4 * k + n) /\ g + 2 \in 1..(4 * k + n)
      /\ j % 3 = 2 => g + 2 \in 1..(4 * k + n) /\ g + 3 \in 1..(4 * k + n)
      /\ j % 3 = 0 => g + 3 \in 1..(4 * k + n) /\ g + 4 \in 1..(4 * k + n)
  OBVIOUS
<1> HIDE DEF q
<1>3. CASE j % 3 = 1
  <2>1. t[g + 1] \in 0..63 /\ t[g + 2] \in 0..63
    BY <1>2, <1>3
  <2>2. (4 * t[g + 1] + (t[g + 2] % 64) \div 16) % 256 = 4 * t[g + 1] + t[g + 2] \div 16
    BY <2>1, BytesArePlain
  <2>3. QED
    BY <1>3, <2>2 DEF ByteOf, PlainByteOf, q
<1>4. CASE j % 3 = 2
  <2>1. t[g + 2] \in 0..63 /\ t[g + 3] \in 0..63
    BY <1>2, <1>4
  <2>2. 16 * (t[g + 2] % 16) + (t[g + 3] % 64) \div 4
          = 16 * (t[g + 2] % 16) + t[g + 3] \div 4
    BY <2>1, BytesArePlain
  <2>3. QED
    BY <1>4, <2>2 DEF ByteOf, PlainByteOf, q
<1>5. CASE j % 3 = 0
  <2>1. t[g + 3] \in 0..63 /\ t[g + 4] \in 0..63
    BY <1>2, <1>5
  <2>2. (64 * (t[g + 3] % 4) + t[g + 4]) % 256 = 64 * (t[g + 3] % 4) + t[g + 4]
    BY <2>1, BytesArePlain
  <2>3. QED
    BY <1>5, <2>2 DEF ByteOf, PlainByteOf, q
<1>6. QED
  BY <1>1, <1>3, <1>4, <1>5

\* A byte depends on the digits of its group only.
LEMMA PlainByteDepends ==
  ASSUME NEW t, NEW u, NEW k \in Nat, NEW n \in 0..3,
         \A d \in 1..(4 * k + n) : t[d] = u[d],
         NEW j \in 1..(3 * k + IF n > 0 THEN n - 1 ELSE 0)
  PROVE  PlainByteOf(t, j) = PlainByteOf(u, j)
<1> DEFINE q == (j - 1) \div 3
           g == 4 * q
<1>1. j \in Nat /\ q \in Nat /\ j % 3 \in 0..2
  OBVIOUS
<1>2. /\ j % 3 = 1 => g + 1 \in 1..(4 * k + n) /\ g + 2 \in 1..(4 * k + n)
      /\ j % 3 = 2 => g + 2 \in 1..(4 * k + n) /\ g + 3 \in 1..(4 * k + n)
      /\ j % 3 = 0 => g + 3 \in 1..(4 * k + n) /\ g + 4 \in 1..(4 * k + n)
  OBVIOUS
<1> HIDE DEF q
<1>3. CASE j % 3 = 1
  BY <1>2, <1>3 DEF PlainByteOf, q
<1>4. CASE j % 3 = 2
  BY <1>2, <1>4 DEF PlainByteOf, q
<1>5. CASE j % 3 = 0
  BY <1>2, <1>5 DEF PlainByteOf, q
<1>6. QED
  BY <1>1, <1>3, <1>4, <1>5

\* Digits and bytes are each other's inverses.
LEMMA FirstByte ==
  ASSUME NEW x \in 0..255, NEW y \in 0..255
  PROVE  4 * (x \div 4) + (16 * (x % 4) + y \div 16) \div 16 = x
  OBVIOUS

LEMMA SecondByteHigh ==
  ASSUME NEW x \in 0..255, NEW y \in 0..255
  PROVE  (16 * (x % 4) + y \div 16) % 16 = y \div 16
  OBVIOUS

LEMMA SecondByteLow ==
  ASSUME NEW y \in 0..255, NEW z \in 0..255
  PROVE  (4 * (y % 16) + z \div 64) \div 4 = y % 16
  OBVIOUS

LEMMA ThirdByte ==
  ASSUME NEW y \in 0..255, NEW z \in 0..255
  PROVE  64 * ((4 * (y % 16) + z \div 64) % 4) + (z % 64) = z
  OBVIOUS

LEMMA FirstDigit ==
  ASSUME NEW a \in 0..63, NEW b \in 0..63
  PROVE  /\ (4 * a + b \div 16) \div 4 = a
         /\ (16 * ((4 * a + b \div 16) % 4) + 0 \div 16) \div 16 = b \div 16
  OBVIOUS

LEMMA SecondDigit ==
  ASSUME NEW a \in 0..63, NEW b \in 0..63, NEW c \in 0..63
  PROVE  16 * ((4 * a + b \div 16) % 4) + (16 * (b % 16) + c \div 4) \div 16 = b
  OBVIOUS

LEMMA ThirdDigit ==
  ASSUME NEW b \in 0..63, NEW c \in 0..63, NEW d \in 0..63
  PROVE  /\ 4 * ((16 * (b % 16) + c \div 4) % 16) + (64 * (c % 4) + d) \div 64 = c
         /\ (4 * ((16 * (b % 16) + c \div 4) % 16) + 0 \div 64) \div 4 = c \div 4
  OBVIOUS

LEMMA FourthDigit ==
  ASSUME NEW c \in 0..63, NEW d \in 0..63
  PROVE  (64 * (c % 4) + d) % 64 = d
  OBVIOUS

\* A text of ASCII that was accepted, by its digits and its bytes.
LEMMA AcceptedText ==
  ASSUME DecodeIInv, decoded = "ok", IsAscii(text)
  PROVE  /\ text \in Seq(Byte) /\ out \in Seq(Byte) /\ padded \in BOOLEAN
         /\ src \in Nat /\ src \div 4 \in Nat /\ i \in 0..3 /\ i = src % 4
         /\ src = 4 * (src \div 4) + i
         /\ Len(out) = 3 * (src \div 4) + IF i > 0 THEN i - 1 ELSE 0
         /\ Len(text) = src + IF padded THEN get_padding(Len(out)) ELSE 0
         /\ \A d \in 1..src : text[d] \in 0..63
         /\ \A d \in (src + 1)..Len(text) : text[d] = Pad
         /\ \A j \in 1..Len(out) : out[j] = PlainByteOf(text, j)
<1>1. /\ text \in Seq(Byte) /\ out \in Seq(Byte) /\ padded \in BOOLEAN
      /\ src \in 0..Len(text) /\ i = src % 4
      /\ Len(out) = IF i > 0 THEN 3 * (src \div 4) + i - 1 ELSE 3 * (src \div 4)
      /\ Len(text) = src + IF padded THEN get_padding(Len(out)) ELSE 0
      /\ \A d \in 1..src : inverse(text[d]) # -1
      /\ \A d \in (src + 1)..Len(text) : text[d] = Pad
      /\ \A j \in 1..Len(out) : out[j] = ByteOf(Taken, j)
  BY DEF DecodeIInv
<1>2. src \in Nat /\ src \div 4 \in Nat /\ i \in 0..3 /\ src = 4 * (src \div 4) + i
  BY <1>1
<1>3. \A d \in 1..src : text[d] \in Digit /\ Taken[d] = text[d]
  <2>1. TAKE d \in 1..src
  <2>2. d \in 1..Len(text) /\ text[d] \in Byte
    BY <1>1
  <2>3. text[d] \notin Wide
    BY <1>1, <2>2 DEF IsAscii
  <2>4. text[d] \in Digit
    BY <1>1, <2>2, <2>3, InverseOf
  <2>5. QED
    BY <2>2, <2>4, InverseOf DEF Taken
<1>4. Len(out) = 3 * (src \div 4) + IF i > 0 THEN i - 1 ELSE 0
  BY <1>1, <1>2
<1>5. \A d \in 1..src : text[d] \in 0..63
  BY <1>3 DEF Digit
<1>6. ASSUME NEW j \in 1..Len(out)
      PROVE  out[j] = PlainByteOf(text, j)
  <2>1. PICK k \in Nat : k = src \div 4
    BY <1>2
  <2>2. /\ \A d \in 1..(4 * k + i) : Taken[d] \in 0..63 /\ Taken[d] = text[d]
        /\ j \in 1..(3 * k + IF i > 0 THEN i - 1 ELSE 0)
    BY <1>2, <1>3, <1>4, <1>5, <2>1
  <2>3. ByteOf(Taken, j) = PlainByteOf(Taken, j)
    BY <1>2, <2>2, PlainBytes
  <2>4. PlainByteOf(Taken, j) = PlainByteOf(text, j)
    <3>1. \A d \in 1..(4 * k + i) : Taken[d] = text[d]
      BY <2>2
    <3>2. j \in 1..(3 * k + IF i > 0 THEN i - 1 ELSE 0) /\ k \in Nat /\ i \in 0..3
      BY <1>2, <2>2
    <3>3. PICK t : t = Taken
      OBVIOUS
    <3>4. PlainByteOf(t, j) = PlainByteOf(text, j)
      BY <3>1, <3>2, <3>3, PlainByteDepends
    <3>5. QED
      BY <3>3, <3>4
  <2>5. QED
    BY <1>1, <2>3, <2>4
<1>7. QED
  BY <1>1, <1>2, <1>4, <1>5, <1>6

\* The number of digits that the bytes of k full groups and of one with i
\* digits are encoded with.
LEMMA DigitsAgain ==
  ASSUME NEW k \in Nat, NEW n \in 0..3
  PROVE  LET m == 3 * k + IF n > 0 THEN n - 1 ELSE 0
         IN  /\ m \in Nat
             /\ n # 1 => DigitCount(m) = 4 * k + n
             /\ n = 1 => DigitCount(m) = 4 * k /\ get_padding(m) = 0
<1>1. CASE n = 0
  BY <1>1 DEF DigitCount
<1>2. CASE n = 1
  BY <1>2 DEF DigitCount, get_padding
<1>3. CASE n = 2
  BY <1>3 DEF DigitCount
<1>4. CASE n = 3
  BY <1>4 DEF DigitCount
<1>5. QED
  BY <1>1, <1>2, <1>3, <1>4

\* A text of ASCII that base64_decode() accepts is the one that base64_encode()
\* makes of the result, apart from the unused bits of its last digit.
THEOREM AcceptedIsEncodingHolds == DecodeSpec => []AcceptedIsEncoding
<1>1. DecodeIInv => AcceptedIsEncoding
  <2>1. SUFFICES ASSUME DecodeIInv, decoded = "ok", IsAscii(text)
                 PROVE  LET e == base64_encode(out, padded)
                        IN  /\ Len(text) = Len(e) + IF src % 4 = 1 THEN 1 ELSE 0
                            /\ \A d \in 1..Len(text) :
                                 IF d = src
                                 THEN \/ src % 4 = 1
                                      \/ text[d] \div UnusedBits(src) = e[d] \div UnusedBits(src)
                                 ELSE text[d] = e[d]
    BY DEF AcceptedIsEncoding
  <2> DEFINE k == src \div 4
             size == DigitCount(Len(out))
             e == base64_encode(out, padded)
             pad == IF padded THEN get_padding(Len(out)) ELSE 0
  <2>2. /\ text \in Seq(Byte) /\ out \in Seq(Byte) /\ padded \in BOOLEAN
        /\ src \in Nat /\ k \in Nat /\ i \in 0..3 /\ i = src % 4 /\ src = 4 * k + i
        /\ Len(out) = 3 * k + IF i > 0 THEN i - 1 ELSE 0
        /\ Len(text) = src + pad
        /\ \A d \in 1..src : text[d] \in 0..63
        /\ \A d \in (src + 1)..Len(text) : text[d] = Pad
        /\ \A j \in 1..Len(out) : out[j] = PlainByteOf(text, j)
    BY <2>1, AcceptedText
  <2>3. /\ i # 1 => size = src
        /\ i = 1 => size = src - 1 /\ pad = 0
    <3> DEFINE m == 3 * k + IF i > 0 THEN i - 1 ELSE 0
    <3> HIDE DEF k
    <3>1. /\ i # 1 => DigitCount(m) = 4 * k + i
          /\ i = 1 => DigitCount(m) = 4 * k /\ get_padding(m) = 0
      BY <2>2, DigitsAgain
    <3>2. Len(out) = m
      BY <2>2
    <3> HIDE DEF m
    <3>3. i # 1 => size = src
      BY <2>2, <3>1, <3>2
    <3>4. i = 1 => size = src - 1 /\ pad = 0
      <4>1. i = 1 => 4 * k = src - 1
        BY <2>2
      <4>2. QED
        BY <3>1, <3>2, <4>1
    <3>5. QED
      BY <3>3, <3>4
  <2>4. /\ Len(e) = size + pad
        /\ \A d \in 1..size : e[d] = DigitAt(out, d)
        /\ \A d \in (size + 1)..Len(e) : e[d] = Pad
    BY <2>2, EncodedText
  <2>5. Len(out) \in Nat /\ size \in Nat /\ pad \in Nat
    BY <2>2 DEF DigitCount, get_padding
  <2> HIDE DEF k, size, e, pad
  <2>6. Len(text) = Len(e) + IF src % 4 = 1 THEN 1 ELSE 0
    BY <2>2, <2>3, <2>4, <2>5
  <2>7. ASSUME NEW d \in 1..Len(text)
        PROVE  IF d = src
               THEN \/ src % 4 = 1
                    \/ text[d] \div UnusedBits(src) = e[d] \div UnusedBits(src)
               ELSE text[d] = e[d]
    <3>1. CASE d > src
      <4>1. d \in (src + 1)..Len(text) /\ i # 1
        BY <3>1, <2>2, <2>3, <2>5
      <4>2. d \in (size + 1)..Len(e)
        BY <4>1, <2>2, <2>3, <2>4, <2>5
      <4>3. QED
        BY <3>1, <4>1, <4>2, <2>2, <2>4
    <3>2. CASE d = src /\ i = 1
      BY <3>2, <2>2
    <3>3. CASE d <= src /\ ~(d = src /\ i = 1)
      <4> DEFINE q == (d - 1) \div 4
                 r == (d - 1) % 4
      <4>1. d \in Nat /\ q \in Nat /\ r \in 0..3 /\ d = 4 * q + r + 1
        BY <3>3
      <4>2. d \in 1..size /\ e[d] = DigitAt(out, d)
        BY <3>3, <4>1, <2>2, <2>3, <2>4, <2>5
      <4> HIDE DEF q, r
      <4> DEFINE t1 == text[4 * q + 1]
                 t2 == text[4 * q + 2]
                 t3 == text[4 * q + 3]
                 t4 == text[4 * q + 4]
                 x == ByteOrZero(out, 3 * q + 1)
                 y == ByteOrZero(out, 3 * q + 2)
                 z == ByteOrZero(out, 3 * q + 3)
      <4>3. /\ DigitAt(out, 4 * q + 1) = x \div 4
            /\ DigitAt(out, 4 * q + 2) = 16 * (x % 4) + y \div 16
            /\ DigitAt(out, 4 * q + 3) = 4 * (y % 16) + z \div 64
            /\ DigitAt(out, 4 * q + 4) = z % 64
        BY <4>1, DigitsOfGroup
      <4>4. /\ 3 * q + 1 <= Len(out) => x = 4 * t1 + t2 \div 16
            /\ 3 * q + 2 <= Len(out) => y = 16 * (t2 % 16) + t3 \div 4
            /\ 3 * q + 3 <= Len(out) => z = 64 * (t3 % 4) + t4
            /\ 3 * q + 2 > Len(out) => y = 0
            /\ 3 * q + 3 > Len(out) => z = 0
        <5>1. \A j \in Nat \ {0} :
                ByteOrZero(out, j) = IF j <= Len(out) THEN PlainByteOf(text, j) ELSE 0
          BY <2>2, <2>5 DEF ByteOrZero
        <5>2. /\ x = IF 3 * q + 1 <= Len(out) THEN PlainByteOf(text, 3 * q + 1) ELSE 0
              /\ y = IF 3 * q + 2 <= Len(out) THEN PlainByteOf(text, 3 * q + 2) ELSE 0
              /\ z = IF 3 * q + 3 <= Len(out) THEN PlainByteOf(text, 3 * q + 3) ELSE 0
          <6>1. /\ 3 * q + 1 \in Nat \ {0} /\ 3 * q + 2 \in Nat \ {0}
                /\ 3 * q + 3 \in Nat \ {0}
            BY <4>1
          <6>2. QED
            BY <5>1, <6>1
        <5>3. /\ PlainByteOf(text, 3 * q + 1) = 4 * t1 + t2 \div 16
              /\ PlainByteOf(text, 3 * q + 2) = 16 * (t2 % 16) + t3 \div 4
              /\ PlainByteOf(text, 3 * q + 3) = 64 * (t3 % 4) + t4
          BY <4>1, BytesOfGroup
        <5> HIDE DEF x, y, z, t1, t2, t3, t4
        <5>4. QED
          BY <4>1, <2>5, <5>2, <5>3
      <4> HIDE DEF x, y, z
      <4>5. /\ r = 0 => text[d] = t1 /\ e[d] = x \div 4
            /\ r = 1 => text[d] = t2 /\ e[d] = 16 * (x % 4) + y \div 16
            /\ r = 2 => text[d] = t3 /\ e[d] = 4 * (y % 16) + z \div 64
            /\ r = 3 => text[d] = t4 /\ e[d] = z % 64
        <5>1. /\ r = 0 => d = 4 * q + 1
              /\ r = 1 => d = 4 * q + 2
              /\ r = 2 => d = 4 * q + 3
              /\ r = 3 => d = 4 * q + 4
          BY <4>1
        <5>2. QED
          BY <4>2, <4>3, <5>1
      <4>6. \A p \in 1..src : text[p] \in 0..63
        BY <2>2
      <4>7. CASE q < k
        <5>1. 3 * q + 3 <= Len(out) /\ 4 * q + 4 <= src
          BY <4>1, <4>7, <2>2
        <5>2. t1 \in 0..63 /\ t2 \in 0..63 /\ t3 \in 0..63 /\ t4 \in 0..63
          BY <4>1, <4>6, <5>1, <2>2
        <5>3. /\ x = 4 * t1 + t2 \div 16 /\ y = 16 * (t2 % 16) + t3 \div 4
              /\ z = 64 * (t3 % 4) + t4
          BY <4>1, <4>4, <5>1, <2>5
        <5> HIDE DEF t1, t2, t3, t4
        <5>4. /\ x \div 4 = t1 /\ 16 * (x % 4) + y \div 16 = t2
              /\ 4 * (y % 16) + z \div 64 = t3 /\ z % 64 = t4
          <6>1. (4 * t1 + t2 \div 16) \div 4 = t1
            BY <5>2, FirstDigit
          <6>2. 16 * ((4 * t1 + t2 \div 16) % 4) + (16 * (t2 % 16) + t3 \div 4) \div 16 = t2
            BY <5>2, SecondDigit
          <6>3. 4 * ((16 * (t2 % 16) + t3 \div 4) % 16) + (64 * (t3 % 4) + t4) \div 64 = t3
            BY <5>2, ThirdDigit
          <6>4. (64 * (t3 % 4) + t4) % 64 = t4
            BY <5>2, FourthDigit
          <6>5. QED
            BY <5>3, <6>1, <6>2, <6>3, <6>4
        <5>5. text[d] = e[d]
          BY <4>1, <4>5, <5>4
        <5>6. QED
          BY <5>5
      <4>8. CASE q = k /\ i = 2
        <5>1. /\ Len(out) = 3 * q + 1 /\ src = 4 * q + 2 /\ src % 4 = 2
              /\ (r = 0 /\ d # src) \/ (r = 1 /\ d = src)
          BY <3>3, <4>1, <4>8, <2>2
        <5>2. t1 \in 0..63 /\ t2 \in 0..63
          BY <4>1, <4>6, <5>1, <2>2
        <5>3. x = 4 * t1 + t2 \div 16 /\ y = 0
          BY <4>1, <4>4, <5>1, <2>5
        <5> HIDE DEF t1, t2, t3, t4
        <5>4. /\ x \div 4 = t1
              /\ (16 * (x % 4) + y \div 16) \div 16 = t2 \div 16
          BY <5>2, <5>3, FirstDigit
        <5>5. UnusedBits(src) = 16
          BY <5>1 DEF UnusedBits
        <5>6. QED
          BY <4>5, <5>1, <5>4, <5>5
      <4>9. CASE q = k /\ i = 3
        <5>1. /\ Len(out) = 3 * q + 2 /\ src = 4 * q + 3 /\ src % 4 = 3
              /\ (r \in {0, 1} /\ d # src) \/ (r = 2 /\ d = src)
          BY <3>3, <4>1, <4>9, <2>2
        <5>2. t1 \in 0..63 /\ t2 \in 0..63 /\ t3 \in 0..63
          BY <4>1, <4>6, <5>1, <2>2
        <5>3. /\ x = 4 * t1 + t2 \div 16 /\ y = 16 * (t2 % 16) + t3 \div 4
              /\ z = 0
          BY <4>1, <4>4, <5>1, <2>5
        <5> HIDE DEF t1, t2, t3, t4
        <5>4. /\ x \div 4 = t1 /\ 16 * (x % 4) + y \div 16 = t2
              /\ (4 * (y % 16) + z \div 64) \div 4 = t3 \div 4
          BY <5>2, <5>3, FirstDigit, SecondDigit, ThirdDigit
        <5>5. UnusedBits(src) = 4
          BY <5>1 DEF UnusedBits
        <5>6. QED
          BY <4>5, <5>1, <5>4, <5>5
      <4>10. q < k \/ (q = k /\ i = 2) \/ (q = k /\ i = 3)
        BY <3>3, <4>1, <2>2
      <4>11. QED
        BY <4>7, <4>8, <4>9, <4>10
    <3>4. QED
      BY <3>1, <3>2, <3>3, <2>2
  <2>8. QED
    BY <2>6, <2>7 DEF e
<1>2. QED
  BY <1>1, DecodeIInvHolds, PTL
-----------------------------------------------------------------------------
\* An input that base64_encode() made.
LEMMA EncodedInput ==
  ASSUME DecodeIInv, source # << >>
  PROVE  \E m \in Seq(Byte) :
           /\ source = <<m>> /\ source[1] = m
           /\ text \in Seq(Byte)
           /\ Len(text) = DigitCount(Len(m)) + IF padded THEN get_padding(Len(m)) ELSE 0
           /\ \A d \in 1..DigitCount(Len(m)) : text[d] = DigitAt(m, d) /\ text[d] \in Digit
           /\ \A d \in (DigitCount(Len(m)) + 1)..Len(text) : text[d] = Pad
<1>1. PICK m \in Messages : source = <<m>> /\ text = base64_encode(m, padded)
  BY DEF DecodeIInv
<1>2. m \in Seq(Byte) /\ padded \in BOOLEAN /\ text \in Seq(Byte)
  BY Base64Assumption DEF DecodeIInv
<1>3. LET e == base64_encode(m, padded)
      IN  /\ Len(e) = DigitCount(Len(m)) + IF padded THEN get_padding(Len(m)) ELSE 0
          /\ \A d \in 1..DigitCount(Len(m)) : e[d] = DigitAt(m, d) /\ e[d] \in Digit
          /\ \A d \in (DigitCount(Len(m)) + 1)..Len(e) : e[d] = Pad
  BY <1>2, EncodedText
<1>4. /\ Len(text) = DigitCount(Len(m)) + IF padded THEN get_padding(Len(m)) ELSE 0
      /\ \A d \in 1..DigitCount(Len(m)) : text[d] = DigitAt(m, d) /\ text[d] \in Digit
      /\ \A d \in (DigitCount(Len(m)) + 1)..Len(text) : text[d] = Pad
  BY <1>1, <1>3
<1>5. source[1] = m
  BY <1>1
<1>6. QED
  BY <1>1, <1>2, <1>4, <1>5

\* The size of what the digits of n bytes are decoded to.
LEMMA SizeAgain ==
  ASSUME NEW n \in Nat
  PROVE  LET size == DigitCount(n)
         IN  /\ size \in Nat /\ size % 4 # 1
             /\ n = 3 * (size \div 4) + IF size % 4 > 0 THEN (size % 4) - 1 ELSE 0
             /\ get_padding(n) \in 0..2
<1> DEFINE q == n \div 3
           r == n % 3
<1>1. q \in Nat /\ r \in 0..2 /\ n = 3 * q + r
  OBVIOUS
<1>2. get_padding(n) \in 0..2
  BY DEF get_padding
<1> HIDE DEF q, r
<1>3. CASE r = 0
  <2>1. DigitCount(n) = 4 * q + 0
    BY <1>1, <1>3 DEF DigitCount
  <2>2. DigitCount(n) % 4 = 0 /\ DigitCount(n) \div 4 = q
    BY <1>1, <2>1, Quarters
  <2>3. QED
    BY <1>1, <1>2, <1>3, <2>1, <2>2
<1>4. CASE r = 1
  <2>1. DigitCount(n) = 4 * q + 2
    BY <1>1, <1>4 DEF DigitCount
  <2>2. DigitCount(n) % 4 = 2 /\ DigitCount(n) \div 4 = q
    BY <1>1, <2>1, Quarters
  <2>3. QED
    BY <1>1, <1>2, <1>4, <2>1, <2>2
<1>5. CASE r = 2
  <2>1. DigitCount(n) = 4 * q + 3
    BY <1>1, <1>5 DEF DigitCount
  <2>2. DigitCount(n) % 4 = 3 /\ DigitCount(n) \div 4 = q
    BY <1>1, <2>1, Quarters
  <2>3. QED
    BY <1>1, <1>2, <1>5, <2>1, <2>2
<1>6. QED
  BY <1>1, <1>3, <1>4, <1>5

\* The bytes of a text whose digits are those of m are those of m.
LEMMA BytesBack ==
  ASSUME NEW m \in Seq(Byte), NEW t \in Seq(Byte),
         \A d \in 1..DigitCount(Len(m)) : t[d] = DigitAt(m, d),
         NEW j \in 1..Len(m)
  PROVE  PlainByteOf(t, j) = m[j]
<1> DEFINE q == (j - 1) \div 3
           r == (j - 1) % 3
           size == DigitCount(Len(m))
           x == ByteOrZero(m, 3 * q + 1)
           y == ByteOrZero(m, 3 * q + 2)
           z == ByteOrZero(m, 3 * q + 3)
<1>1. j \in Nat /\ q \in Nat /\ r \in 0..2 /\ j = 3 * q + r + 1
  OBVIOUS
<1> HIDE DEF q, r
<1>2. /\ r = 0 => 4 * q + 2 <= size
      /\ r = 1 => 4 * q + 3 <= size
      /\ r = 2 => 4 * q + 4 <= size
  <2>1. Len(m) \in Nat /\ j <= Len(m)
    OBVIOUS
  <2>2. QED
    BY <1>1, <2>1 DEF DigitCount
<1>3. /\ DigitAt(m, 4 * q + 1) = x \div 4
      /\ DigitAt(m, 4 * q + 2) = 16 * (x % 4) + y \div 16
      /\ DigitAt(m, 4 * q + 3) = 4 * (y % 16) + z \div 64
      /\ DigitAt(m, 4 * q + 4) = z % 64
  BY <1>1, DigitsOfGroup
<1>4. /\ PlainByteOf(t, 3 * q + 1) = 4 * t[4 * q + 1] + t[4 * q + 2] \div 16
      /\ PlainByteOf(t, 3 * q + 2) = 16 * (t[4 * q + 2] % 16) + t[4 * q + 3] \div 4
      /\ PlainByteOf(t, 3 * q + 3) = 64 * (t[4 * q + 3] % 4) + t[4 * q + 4]
  BY <1>1, BytesOfGroup
<1>5. x \in 0..255 /\ y \in 0..255 /\ z \in 0..255
  <2>1. \A l \in Nat \ {0} : ByteOrZero(m, l) \in 0..255
    <3>1. TAKE l \in Nat \ {0}
    <3>2. l <= Len(m) => m[l] \in Byte
      OBVIOUS
    <3>3. 0 \in Byte /\ Byte = 0..255
      BY DEF Byte
    <3>4. QED
      BY <3>2, <3>3 DEF ByteOrZero
  <2>2. 3 * q + 1 \in Nat \ {0} /\ 3 * q + 2 \in Nat \ {0} /\ 3 * q + 3 \in Nat \ {0}
    BY <1>1
  <2>3. QED
    BY <2>1, <2>2
<1>6. ByteOrZero(m, j) = m[j]
  BY DEF ByteOrZero
<1> HIDE DEF x, y, z, size
<1>7. \A d \in 1..size : t[d] = DigitAt(m, d)
  BY DEF size
<1>8. size \in Nat
  BY DEF size, DigitCount
<1>9. CASE r = 0
  <2>1. /\ 4 * q + 1 \in 1..size /\ 4 * q + 2 \in 1..size
    BY <1>1, <1>2, <1>8, <1>9
  <2>2. t[4 * q + 1] = x \div 4 /\ t[4 * q + 2] = 16 * (x % 4) + y \div 16
    BY <1>3, <1>7, <2>1
  <2>3. PlainByteOf(t, 3 * q + 1) = x
    <3>1. 4 * (x \div 4) + (16 * (x % 4) + y \div 16) \div 16 = x
      BY <1>5, FirstByte
    <3>2. QED
      BY <1>4, <2>2, <3>1
  <2>4. j = 3 * q + 1
    BY <1>1, <1>9
  <2>5. QED
    BY <1>6, <2>3, <2>4 DEF x
<1>10. CASE r = 1
  <2>1. /\ 4 * q + 2 \in 1..size /\ 4 * q + 3 \in 1..size
    BY <1>1, <1>2, <1>8, <1>10
  <2>2. /\ t[4 * q + 2] = 16 * (x % 4) + y \div 16
        /\ t[4 * q + 3] = 4 * (y % 16) + z \div 64
    BY <1>3, <1>7, <2>1
  <2>3. PlainByteOf(t, 3 * q + 2) = y
    <3>1. 16 * ((16 * (x % 4) + y \div 16) % 16) + (4 * (y % 16) + z \div 64) \div 4 = y
      <4>1. (16 * (x % 4) + y \div 16) % 16 = y \div 16
        BY <1>5, SecondByteHigh
      <4>2. (4 * (y % 16) + z \div 64) \div 4 = y % 16
        BY <1>5, SecondByteLow
      <4>3. 16 * (y \div 16) + (y % 16) = y
        BY <1>5
      <4>4. QED
        BY <4>1, <4>2, <4>3
    <3>2. QED
      BY <1>4, <2>2, <3>1
  <2>4. j = 3 * q + 2
    BY <1>1, <1>10
  <2>5. QED
    BY <1>6, <2>3, <2>4 DEF y
<1>11. CASE r = 2
  <2>1. /\ 4 * q + 3 \in 1..size /\ 4 * q + 4 \in 1..size
    BY <1>1, <1>2, <1>8, <1>11
  <2>2. t[4 * q + 3] = 4 * (y % 16) + z \div 64 /\ t[4 * q + 4] = z % 64
    BY <1>3, <1>7, <2>1
  <2>3. PlainByteOf(t, 3 * q + 3) = z
    <3>1. 64 * ((4 * (y % 16) + z \div 64) % 4) + (z % 64) = z
      BY <1>5, ThirdByte
    <3>2. QED
      BY <1>4, <2>2, <3>1
  <2>4. j = 3 * q + 3
    BY <1>1, <1>11
  <2>5. QED
    BY <1>6, <2>3, <2>4 DEF z
<1>12. QED
  BY <1>1, <1>9, <1>10, <1>11

\* base64_encode() makes texts of ASCII.
LEMMA EncodedIsAscii ==
  ASSUME DecodeIInv, source # << >>
  PROVE  IsAscii(text)
<1>1. PICK m \in Seq(Byte) :
         /\ text \in Seq(Byte)
         /\ \A d \in 1..DigitCount(Len(m)) : text[d] \in Digit
         /\ \A d \in (DigitCount(Len(m)) + 1)..Len(text) : text[d] = Pad
  BY EncodedInput
<1>2. DigitCount(Len(m)) \in Nat
  BY DEF DigitCount
<1>3. SUFFICES ASSUME NEW d \in 1..Len(text)
               PROVE  text[d] \notin Wide
  BY <1>1 DEF IsAscii
<1>4. d \in 1..DigitCount(Len(m)) \/ d \in (DigitCount(Len(m)) + 1)..Len(text)
  BY <1>2
<1>5. text[d] \in Digit \/ text[d] = Pad
  BY <1>1, <1>4
<1>6. QED
  BY <1>5, Characters

NotRefused == source # << >> => decoded # "invalid"

\* Whatever bytes base64_encode() is given, base64_decode() returns them.
THEOREM RoundTripHolds == DecodeSpec => []RoundTrip
<1>1. DecodeInit => NotRefused
  BY DEF DecodeInit, NotRefused
<1>2. DecodeIInv /\ NotRefused /\ [DecodeStep]_decodeVars => NotRefused'
  <2>1. SUFFICES ASSUME DecodeIInv, NotRefused, ReadOther \/ Finish, source # << >>
                 PROVE  decoded' # "invalid"
    <3>1. SUFFICES ASSUME DecodeIInv, NotRefused, [DecodeStep]_decodeVars,
                          source' # << >>, decoded' = "invalid"
                   PROVE  FALSE
      BY DEF NotRefused
    <3>2. CASE UNCHANGED decodeVars
      BY <3>1, <3>2 DEF decodeVars, NotRefused
    <3>3. CASE ReadDigit
      BY <3>1, <3>3 DEF ReadDigit
    <3>4. CASE ReadOther \/ Finish
      <4>1. source' = source
        BY <3>4 DEF ReadOther, Finish
      <4>2. QED
        BY <2>1, <3>1, <3>4, <4>1
    <3>5. QED
      BY <3>1, <3>2, <3>3, <3>4 DEF DecodeStep
  <2>2. PICK m \in Seq(Byte) :
           /\ source = <<m>> /\ source[1] = m
           /\ text \in Seq(Byte)
           /\ Len(text) = DigitCount(Len(m)) + IF padded THEN get_padding(Len(m)) ELSE 0
           /\ \A d \in 1..DigitCount(Len(m)) : text[d] = DigitAt(m, d) /\ text[d] \in Digit
           /\ \A d \in (DigitCount(Len(m)) + 1)..Len(text) : text[d] = Pad
    BY <2>1, EncodedInput
  <2> DEFINE size == DigitCount(Len(m))
  <2>3. Pad \notin Digit
    BY DEF Pad, Digit
  <2>4. /\ size \in Nat /\ size % 4 # 1
        /\ Len(m) = 3 * (size \div 4) + IF size % 4 > 0 THEN (size % 4) - 1 ELSE 0
        /\ get_padding(Len(m)) \in 0..2
    <3>1. Len(m) \in Nat
      OBVIOUS
    <3>2. QED
      BY <3>1, SizeAgain
  <2>5. src \in 0..Len(text) /\ \A d \in 1..src : text[d] \in Digit
    <3>1. src \in 0..Len(text) /\ \A d \in 1..src : inverse(text[d]) # -1
      BY <2>1 DEF DecodeIInv
    <3>2. IsAscii(text)
      BY <2>1, EncodedIsAscii
    <3>3. \A d \in 1..src : text[d] \in Byte /\ text[d] \notin Wide
      BY <2>2, <3>1, <3>2 DEF IsAscii
    <3>4. QED
      BY <3>1, <3>3, InverseOf
  <2> HIDE DEF size
  <2>7. CASE ReadOther
    <3>1. src + 1 \in 1..Len(text) /\ text[src + 1] # Pad /\ text[src + 1] \notin Digit
      <4>1. /\ src + 1 \in 1..Len(text) /\ text[src + 1] # Pad
            /\ inverse(text[src + 1]) = -1
        BY <2>5, <2>7 DEF ReadOther, AtDigits
      <4>2. text[src + 1] \in Byte
        BY <2>2, <4>1
      <4>3. text[src + 1] \in Digit => inverse(text[src + 1]) = text[src + 1]
        BY <4>2, InverseOf
      <4>4. -1 \notin Digit
        BY DEF Digit
      <4>5. QED
        BY <4>1, <4>3, <4>4
    <3>2. src + 1 \in 1..size \/ src + 1 \in (size + 1)..Len(text)
      BY <2>4, <3>1
    <3>3. QED
      BY <2>2, <3>1, <3>2 DEF size
  <2>8. CASE Finish
    <3>1. ~AtDigits /\ i = src % 4 /\ padded \in BOOLEAN
      BY <2>1, <2>8 DEF Finish, DecodeIInv
    <3>2. /\ \A d \in 1..size : text[d] \in Digit
          /\ \A d \in (size + 1)..Len(text) : text[d] = Pad
          /\ Len(text) = size + IF padded THEN get_padding(Len(m)) ELSE 0
      BY <2>2 DEF size
    <3>3. size <= Len(text) /\ Len(text) \in Nat /\ src \in Nat
      BY <2>4, <2>5, <3>1, <3>2
    <3>4. src <= size
      <4>1. SUFFICES ASSUME src > size
                     PROVE  FALSE
        BY <2>4, <3>3
      <4>2. size + 1 \in 1..src /\ size + 1 \in (size + 1)..Len(text)
        BY <2>4, <2>5, <3>3, <4>1
      <4>3. QED
        BY <2>3, <2>5, <3>2, <4>2
    <3>5. src >= size
      <4>1. SUFFICES ASSUME src < size
                     PROVE  FALSE
        BY <2>4, <3>3
      <4>2. src + 1 \in 1..size /\ src < Len(text)
        BY <2>4, <3>3, <4>1
      <4>3. QED
        BY <2>3, <3>1, <3>2, <4>2 DEF AtDigits
    <3>6. src = size
      BY <2>4, <3>3, <3>4, <3>5
    <3>7. Len(out') = Len(m)
      <4>1. Len(out') = 3 * (src \div 4) + IF i > 0 THEN i - 1 ELSE 0
        BY <2>1, <2>8, FinishWrites
      <4>2. QED
        BY <2>4, <3>1, <3>6, <4>1
    <3>8. LET padding == IF padded THEN get_padding(Len(out')) ELSE 0
          IN  src + padding = Len(text) /\ \A d \in (src + 1)..Len(text) : text[d] = Pad
      BY <3>2, <3>6, <3>7
    <3>9. QED
      BY <2>8, <3>8 DEF Finish
  <2>9. QED
    BY <2>1, <2>7, <2>8
<1>3. DecodeIInv /\ NotRefused => RoundTrip
  <2>1. SUFFICES ASSUME DecodeIInv, source # << >>, decoded = "ok"
                 PROVE  out = source[1]
    BY DEF RoundTrip, NotRefused, DecodeIInv
  <2>2. PICK m \in Seq(Byte) :
           /\ source = <<m>> /\ source[1] = m
           /\ text \in Seq(Byte)
           /\ Len(text) = DigitCount(Len(m)) + IF padded THEN get_padding(Len(m)) ELSE 0
           /\ \A d \in 1..DigitCount(Len(m)) : text[d] = DigitAt(m, d) /\ text[d] \in Digit
           /\ \A d \in (DigitCount(Len(m)) + 1)..Len(text) : text[d] = Pad
    BY <2>1, EncodedInput
  <2> DEFINE size == DigitCount(Len(m))
  <2>3. Pad \notin 0..63 /\ Digit = 0..63
    BY DEF Pad, Digit
  <2>4. /\ size \in Nat /\ size % 4 # 1
        /\ Len(m) = 3 * (size \div 4) + IF size % 4 > 0 THEN (size % 4) - 1 ELSE 0
        /\ get_padding(Len(m)) \in 0..2
    <3>1. Len(m) \in Nat
      OBVIOUS
    <3>2. QED
      BY <3>1, SizeAgain
  <2>5. /\ out \in Seq(Byte) /\ padded \in BOOLEAN
        /\ src \in Nat /\ i \in 0..3 /\ i = src % 4
        /\ Len(out) = 3 * (src \div 4) + IF i > 0 THEN i - 1 ELSE 0
        /\ \A d \in 1..src : text[d] \in 0..63
        /\ \A d \in (src + 1)..Len(text) : text[d] = Pad
        /\ \A j \in 1..Len(out) : out[j] = PlainByteOf(text, j)
    BY <2>1, EncodedIsAscii, AcceptedText
  <2>6. src <= Len(text)
    BY <2>1 DEF DecodeIInv
  <2>7. /\ \A d \in 1..size : text[d] = DigitAt(m, d) /\ text[d] \in 0..63
        /\ \A d \in (size + 1)..Len(text) : text[d] = Pad
        /\ size <= Len(text) /\ Len(text) \in Nat
    <3>1. /\ \A d \in 1..size : text[d] = DigitAt(m, d) /\ text[d] \in Digit
          /\ \A d \in (size + 1)..Len(text) : text[d] = Pad
          /\ Len(text) = size + IF padded THEN get_padding(Len(m)) ELSE 0
          /\ text \in Seq(Byte)
      BY <2>2
    <3> HIDE DEF size
    <3>2. size <= Len(text) /\ Len(text) \in Nat
      BY <2>4, <2>5, <3>1
    <3>3. QED
      BY <2>3, <3>1, <3>2
  <2> HIDE DEF size
  <2>8. src = size
    <3>1. /\ src \in Nat /\ size \in Nat /\ Len(text) \in Nat
          /\ src <= Len(text) /\ size <= Len(text)
      BY <2>4, <2>5, <2>6, <2>7
    <3>2. CASE src > size
      <4>1. size + 1 \in 1..src /\ size + 1 \in (size + 1)..Len(text)
        BY <3>1, <3>2
      <4>2. QED
        BY <2>3, <2>5, <2>7, <4>1
    <3>3. CASE src < size
      <4>1. src + 1 \in 1..size /\ src + 1 \in (src + 1)..Len(text)
        BY <3>1, <3>3
      <4>2. QED
        BY <2>3, <2>5, <2>7, <4>1
    <3>4. QED
      BY <3>1, <3>2, <3>3
  <2>9. Len(out) = Len(m)
    BY <2>4, <2>5, <2>8
  <2>10. \A j \in 1..Len(m) : out[j] = m[j]
    <3>1. \A j \in 1..Len(m) : PlainByteOf(text, j) = m[j]
      BY <2>2, BytesBack
    <3>2. QED
      BY <2>5, <2>9, <3>1
  <2>11. out = m
    BY <2>5, <2>9, <2>10
  <2>12. QED
    BY <2>2, <2>11
<1>4. QED
  BY <1>1, <1>2, <1>3, DecodeIInvHolds, PTL DEF DecodeSpec
-----------------------------------------------------------------------------
\* cookie_list.

\* The order of the natural numbers.
Below == {p \in Nat \X Nat : p[1] < p[2]}

\* The principle of the least number: what needs an induction below is proved by
\* the least number for which it fails.
LEMMA LeastNumber ==
  ASSUME NEW T \in SUBSET Nat, T # {}
  PROVE  \E x \in T : \A y \in T : x <= y
<1>1. Below = OpToRel(<, Nat)
  BY DEF Below, OpToRel
<1>2. IsWellFoundedOn(Below, Nat)
  BY <1>1, NatLessThanWellFounded
<1>3. PICK x \in T : \A y \in T : ~ (<<y, x>> \in Below)
  BY <1>2, WFMin
<1>4. ASSUME NEW y \in T PROVE x <= y
  <2>1. <<y, x>> \in Nat \X Nat /\ <<y, x>>[1] = y /\ <<y, x>>[2] = x
    OBVIOUS
  <2>2. x \in Nat /\ y \in Nat
    OBVIOUS
  <2>3. ~(y < x)
    BY <2>1, <1>3 DEF Below
  <2> QED BY <2>2, <2>3
<1> QED BY <1>4

\* skip_ows() and the others stop at the first character of another kind.
LEMMA SkipIs ==
  ASSUME header \in Seq(Nat), NEW a \in 1..End, NEW kind, NEW s \in a..End,
         \A d \in a..(s - 1) : At(d) \in kind,
         s = End \/ At(s) \notin kind
  PROVE  Skip(a, kind) = s
<1> DEFINE Stop(j) == /\ \A d \in a..(j - 1) : At(d) \in kind
                      /\ j = End \/ At(j) \notin kind
           c == CHOOSE j \in a..End : Stop(j)
<1>1. Stop(s)
  OBVIOUS
<1>2. c \in a..End /\ Stop(c)
  BY <1>1
<1>3. End \in Nat
  BY DEF End
<1>4. ~(c < s)
  <2> SUFFICES ASSUME c < s PROVE FALSE
    OBVIOUS
  <2>1. c \in a..(s - 1) /\ c # End
    BY <1>2, <1>3
  <2> QED BY <1>2, <2>1
<1>5. ~(s < c)
  <2> SUFFICES ASSUME s < c PROVE FALSE
    OBVIOUS
  <2>1. s \in a..(c - 1) /\ s # End
    BY <1>2, <1>3
  <2> QED BY <1>2, <2>1
<1>6. c = s
  <2> HIDE DEF c
  <2> QED BY <1>2, <1>3, <1>4, <1>5
<1> QED BY <1>6 DEF Skip

\* There is such a character for each place and kind.
LEMMA SkipFacts ==
  ASSUME header \in Seq(Nat), NEW a \in 1..End, NEW kind
  PROVE  /\ Skip(a, kind) \in a..End
         /\ \A d \in a..(Skip(a, kind) - 1) : At(d) \in kind
         /\ Skip(a, kind) = End \/ At(Skip(a, kind)) \notin kind
<1> DEFINE T == {j \in a..End : j = End \/ At(j) \notin kind}
<1>1. End \in Nat
  BY DEF End
<1>2. T \in SUBSET Nat /\ End \in T
  BY <1>1
<1>3. PICK s \in T : \A j \in T : s <= j
  <2> HIDE DEF T
  <2> QED BY <1>2, LeastNumber
<1>4. \A d \in a..(s - 1) : At(d) \in kind
  <2> SUFFICES ASSUME NEW d \in a..(s - 1), At(d) \notin kind PROVE FALSE
    OBVIOUS
  <2>1. d \in T /\ d < s
    BY <1>1, <1>3
  <2> QED BY <1>1, <1>3, <2>1
<1>5. s \in a..End /\ (s = End \/ At(s) \notin kind)
  BY <1>3
<1>6. Skip(a, kind) = s
  <2> HIDE DEF T
  <2> QED BY <1>4, <1>5, SkipIs
<1> QED BY <1>4, <1>5, <1>6

\* The kinds of characters that the tables tell apart.
LEMMA Kinds ==
  /\ Pad \notin token_chars /\ Quote \notin token_chars
  /\ Quote \notin cookie_value_chars /\ NoChar \notin cookie_value_chars
  /\ Semicolon \notin cookie_value_chars /\ Space \notin cookie_value_chars
  /\ NoChar \notin token_chars
  /\ \A c \in ows_chars : c \notin token_chars
  /\ NoChar \notin ows_chars
  /\ Pad # NoChar /\ Quote # NoChar /\ Semicolon # NoChar /\ Space # NoChar
  /\ Space # Semicolon
BY DEF token_chars, cookie_value_chars, ows_chars, Digit, Pad, Quote, NoChar,
       Semicolon, Space, Tab, Slash

\* The end of the header.
LEMMA EndFacts ==
  ASSUME header \in Seq(Nat)
  PROVE  End \in Nat /\ End = Len(header) + 1
BY DEF End

\* A character is one of the header.
LEMMA AtFacts ==
  ASSUME header \in Seq(Nat), NEW a \in Int
  PROVE  /\ End \in Nat /\ End = Len(header) + 1
         /\ At(a) # NoChar <=> a \in 1..(End - 1)
         /\ a \in 1..Len(header) => At(a) = header[a]
         /\ At(a) # NoChar => At(a) = header[a]
<1>1. DOMAIN header = 1..Len(header) /\ Len(header) \in Nat
  OBVIOUS
<1>2. \A d \in DOMAIN header : header[d] # NoChar
  BY DEF NoChar
<1> QED BY <1>1, <1>2 DEF At, End

\* What the iterator does with the pair that begins at a.
Accepts(pair) ==
  /\ val' = pair
  /\ next' = pair.value[2]
  /\ pairs' = Append(pairs, pair)
  /\ lookup' = IF TextOf(pair.name) = session_cookie_name
               THEN "found" ELSE "searching"

PairOf(a, n, v) == [name |-> View(a, n), value |-> View(n + 1, v)]

\* Where a pair of the grammar begins, the iterator accepts exactly that pair.
LEMMA IncrementToPair ==
  ASSUME header \in Seq(Nat), NEW a \in 1..End, NEW n \in 1..End, NEW v \in 1..End,
         IsPair(PairOf(a, n, v), a), increment_from(a)
  PROVE  Accepts(PairOf(a, n, v))
<1>1. /\ a < n
      /\ \A d \in a..(n - 1) : At(d) \in token_chars
      /\ At(n) = Pad
      /\ \/ /\ At(n + 1) # Quote
            /\ n + 1 <= v
            /\ \A d \in (n + 1)..(v - 1) : At(d) \in cookie_value_chars
            /\ At(v) \notin cookie_value_chars
         \/ /\ At(n + 1) = Quote
            /\ n + 3 <= v
            /\ \A d \in (n + 2)..(v - 2) : At(d) \in cookie_value_chars
            /\ At(v - 1) = Quote
  BY DEF IsPair, PairOf, View
<1>2. /\ n \in a..End /\ n + 1 \in 1..End /\ End \in Nat
  <2>1. n \in Int /\ a \in Int /\ At(n) # NoChar
    BY <1>1, Kinds
  <2>2. n \in 1..(End - 1) /\ End \in Nat
    BY <2>1, AtFacts
  <2> QED BY <1>1, <2>1, <2>2
<1>3. Skip(a, token_chars) = n
  BY <1>1, <1>2, Kinds, SkipIs
<1>4. CASE /\ At(n + 1) # Quote
           /\ n + 1 <= v
           /\ \A d \in (n + 1)..(v - 1) : At(d) \in cookie_value_chars
           /\ At(v) \notin cookie_value_chars
  <2>1. Skip(n + 1, cookie_value_chars) = v
    BY <1>2, <1>4, SkipIs
  <2> QED BY <1>1, <1>3, <1>4, <2>1 DEF increment_from, Accepts, PairOf, View
<1>5. CASE /\ At(n + 1) = Quote
           /\ n + 3 <= v
           /\ \A d \in (n + 2)..(v - 2) : At(d) \in cookie_value_chars
           /\ At(v - 1) = Quote
  <2>1. /\ n + 2 \in 1..End /\ v - 1 \in (n + 2)..End /\ (n + 1) + 1 = n + 2
        /\ (v - 1) - 1 = v - 2 /\ (v - 1) + 1 = v
    BY <1>2, <1>5
  <2>2. Skip((n + 1) + 1, cookie_value_chars) = v - 1
    BY <1>5, <2>1, Kinds, SkipIs
  <2> QED BY <1>1, <1>3, <1>5, <2>1, <2>2 DEF increment_from, Accepts, PairOf, View
<1> QED BY <1>1, <1>4, <1>5

\* Where no pair begins, the iteration ends; and it goes on with nothing else.
LEMMA IncrementOrReset ==
  ASSUME header \in Seq(Nat), NEW a \in 1..End, increment_from(a)
  PROVE  \/ \E n, v \in 1..End : IsPair(PairOf(a, n, v), a)
         \/ reset
<1> SUFFICES ASSUME ~reset
             PROVE  \E n, v \in 1..End : IsPair(PairOf(a, n, v), a)
  OBVIOUS
<1>1. PICK n : n = Skip(a, token_chars)
  OBVIOUS
<1>2. PICK o : o = Skip(IF At(n + 1) = Quote THEN (n + 1) + 1 ELSE n + 1,
                        cookie_value_chars)
  OBVIOUS
<1>3. a < n /\ At(n) = Pad /\ (At(n + 1) = Quote => At(o) = Quote)
  BY <1>1, <1>2 DEF increment_from
<1>4. /\ n \in a..End
      /\ \A d \in a..(n - 1) : At(d) \in token_chars
  BY <1>1, SkipFacts
<1>5. End \in Nat /\ n \in 1..(End - 1) /\ n + 1 \in 1..End
  BY <1>3, <1>4, AtFacts, Kinds
<1>6. CASE At(n + 1) # Quote
  <2>1. /\ o \in (n + 1)..End
        /\ \A d \in (n + 1)..(o - 1) : At(d) \in cookie_value_chars
        /\ o = End \/ At(o) \notin cookie_value_chars
    BY <1>2, <1>5, <1>6, SkipFacts
  <2>2. At(o) \notin cookie_value_chars
    BY <1>5, <2>1, AtFacts, Kinds
  <2>3. o \in 1..End /\ n + 1 <= o
    BY <1>5, <2>1
  <2>4. IsPair(PairOf(a, n, o), a)
    BY <1>3, <1>4, <1>6, <2>1, <2>2, <2>3 DEF IsPair, PairOf, View
  <2> QED BY <1>5, <2>3, <2>4
<1>7. CASE At(n + 1) = Quote
  <2>1. n + 1 \in 1..(End - 1) /\ (n + 1) + 1 \in 1..End
    BY <1>5, <1>7, AtFacts, Kinds
  <2>2. /\ o \in ((n + 1) + 1)..End
        /\ \A d \in ((n + 1) + 1)..(o - 1) : At(d) \in cookie_value_chars
    BY <1>2, <1>7, <2>1, SkipFacts
  <2>3. At(o) = Quote
    BY <1>3, <1>7
  <2>4. o \in 1..(End - 1)
    BY <1>5, <2>2, <2>3, AtFacts, Kinds
  <2>5. PICK v : v = o + 1
    OBVIOUS
  <2>6. v \in 1..End /\ (n + 1) + 2 <= v /\ v - 1 = o /\ v - 2 = o - 1
    BY <1>5, <2>2, <2>4, <2>5
  <2>7. IsPair(PairOf(a, n, v), a)
    BY <1>3, <1>4, <1>7, <2>2, <2>3, <2>6 DEF IsPair, PairOf, View
  <2> QED BY <1>5, <2>6, <2>7
<1> QED BY <1>6, <1>7

\* The two parts of ListIsGrammar, for any list of pairs.
Follows(a, ps) ==
  IF ps = << >> THEN Leads(a) ELSE Continues(a, ps[Len(ps)].value[2])

Listed(ps) ==
  \A k \in DOMAIN ps :
    \E a \in 1..Len(header) :
      /\ IsPair(ps[k], a)
      /\ IF k = 1 THEN Leads(a) ELSE Continues(a, ps[k - 1].value[2])

Ends(ps) ==
  ~ \E a, n, v \in 1..End : Follows(a, ps) /\ IsPair(PairOf(a, n, v), a)

\* ListIsGrammar by its parts.
LEMMA GrammarParts ==
  ListIsGrammar <=> Listed(pairs) /\ (lookup = "requires_auth" => Ends(pairs))
BY DEF ListIsGrammar, Listed, Ends, Follows, PairOf, End

\* A step of the iterator leaves the header alone.
LEMMA GrammarPartsNext ==
  ASSUME header' = header
  PROVE  ListIsGrammar' <=> Listed(pairs') /\ (lookup' = "requires_auth" => Ends(pairs'))
<1>1. \A a : At(a)' = At(a)
  BY DEF At
<1>2. \A p, a : IsPair(p, a)' <=> IsPair(p, a)
  BY <1>1 DEF IsPair
<1>3. \A a : Leads(a)' <=> Leads(a)
  BY <1>1 DEF Leads
<1>4. \A a, b : Continues(a, b)' <=> Continues(a, b)
  BY <1>1 DEF Continues
<1> QED BY <1>2, <1>3, <1>4 DEF ListIsGrammar, Listed, Ends, Follows, PairOf, End

PairType == [name : Nat \X Nat, value : Nat \X Nat]

\* Where the iterator stands.
IteratorInv ==
  /\ header \in Seq(Nat)
  /\ pairs \in Seq(PairType)
  /\ lookup \in {"begin", "searching", "found", "requires_auth"}
  /\ lookup = "begin" => pairs = << >>
  /\ lookup = "searching" =>
       pairs # << >> /\ next = pairs[Len(pairs)].value[2] /\ next \in 1..End

\* The inductive invariant behind ListIsGrammar.
ListInv == IteratorInv /\ ListIsGrammar

\* A pair more belongs to the list if it begins where the list goes on.
LEMMA ListedNext ==
  ASSUME NEW ps \in Seq(PairType), NEW a \in 1..Len(header), NEW p \in PairType,
         Listed(ps), Follows(a, ps), IsPair(p, a)
  PROVE  Listed(Append(ps, p))
<1> DEFINE qs == Append(ps, p)
<1>1. /\ DOMAIN qs = 1..(Len(ps) + 1) /\ DOMAIN ps = 1..Len(ps)
      /\ qs[Len(ps) + 1] = p
      /\ \A k \in 1..Len(ps) : qs[k] = ps[k]
      /\ Len(ps) \in Nat /\ (ps = << >> <=> Len(ps) = 0)
  OBVIOUS
<1> HIDE DEF qs
<1>2. ASSUME NEW k \in 1..Len(ps)
      PROVE  \E b \in 1..Len(header) :
               /\ IsPair(qs[k], b)
               /\ IF k = 1 THEN Leads(b) ELSE Continues(b, qs[k - 1].value[2])
  <2>1. k = 1 \/ k - 1 \in 1..Len(ps)
    BY <1>1
  <2> QED BY <1>1, <2>1 DEF Listed
<1>3. ASSUME NEW k, k = Len(ps) + 1
      PROVE  /\ IsPair(qs[k], a)
             /\ IF k = 1 THEN Leads(a) ELSE Continues(a, qs[k - 1].value[2])
  <2>1. CASE ps = << >>
    BY <1>1, <1>3, <2>1 DEF Follows
  <2>2. CASE ps # << >>
    <3>1. k # 1 /\ k - 1 = Len(ps) /\ k - 1 \in 1..Len(ps)
      BY <1>1, <1>3, <2>2
    <3> QED BY <1>1, <1>3, <2>2, <3>1 DEF Follows
  <2> QED BY <2>1, <2>2
<1>4. \A k \in DOMAIN qs : k \in 1..Len(ps) \/ k = Len(ps) + 1
  BY <1>1
<1>5. Listed(qs)
  BY <1>2, <1>3, <1>4 DEF Listed
<1> QED BY <1>5 DEF qs

\* A step that looks for a pair at a, the only place where one may follow.
LEMMA IncrementKeeps ==
  ASSUME ListInv, header' = header, NEW a \in 1..End,
         Follows(a, pairs), \A b \in 1..End : Follows(b, pairs) => b = a,
         increment_from(a)
  PROVE  ListInv'
<1>1. header \in Seq(Nat) /\ pairs \in Seq(PairType) /\ Listed(pairs)
  BY GrammarParts DEF ListInv, IteratorInv
<1>2. End' = End /\ End \in Nat /\ End = Len(header) + 1
  BY <1>1, AtFacts DEF End
<1>3. CASE \E n, v \in 1..End : IsPair(PairOf(a, n, v), a)
  <2>1. PICK n \in 1..End, v \in 1..End : IsPair(PairOf(a, n, v), a)
    BY <1>3
  <2>2. PICK p : p = PairOf(a, n, v)
    OBVIOUS
  <2>3. /\ pairs' = Append(pairs, p) /\ next' = p.value[2]
        /\ lookup' \in {"searching", "found"}
    BY <1>1, <2>1, <2>2, IncrementToPair DEF Accepts
  <2>4. p \in PairType /\ p.value[2] = v
    BY <1>2, <2>2 DEF PairOf, View, PairType
  <2>5. a \in 1..Len(header)
    <3>1. a < n /\ n \in 1..End
      BY <2>1 DEF IsPair, PairOf, View
    <3> QED BY <1>2, <3>1
  <2>6. Listed(pairs')
    <3>1. IsPair(p, a)
      BY <2>1, <2>2
    <3>2. Listed(Append(pairs, p))
      BY <1>1, <2>4, <2>5, <3>1, ListedNext
    <3> QED BY <2>3, <3>2
  <2>7. /\ pairs' \in Seq(PairType) /\ pairs' # << >>
        /\ pairs'[Len(pairs')] = p
    <3>1. PICK ps \in Seq(PairType) : ps = pairs /\ pairs' = Append(ps, p)
      BY <1>1, <2>3
    <3>2. p \in PairType
      BY <2>4
    <3>3. /\ Append(ps, p) \in Seq(PairType) /\ Len(Append(ps, p)) = Len(ps) + 1
          /\ Append(ps, p)[Len(ps) + 1] = p
      BY <3>2
    <3> QED BY <3>1, <3>3
  <2>8. IteratorInv'
    BY <1>1, <1>2, <2>1, <2>3, <2>4, <2>7 DEF IteratorInv
  <2> QED BY <2>3, <2>6, <2>8, GrammarPartsNext DEF ListInv
<1>4. CASE ~ \E n, v \in 1..End : IsPair(PairOf(a, n, v), a)
  <2>1. reset
    BY <1>1, <1>4, IncrementOrReset
  <2>2. pairs' = pairs /\ lookup' = "requires_auth"
    BY <2>1 DEF reset
  <2>3. Ends(pairs)
    BY <1>4 DEF Ends
  <2>4. IteratorInv'
    BY <1>1, <2>2 DEF IteratorInv
  <2> QED BY <1>1, <2>2, <2>3, <2>4, GrammarPartsNext DEF ListInv
<1> QED BY <1>3, <1>4

\* The end of the list keeps the invariant where nothing follows.
LEMMA ResetKeeps ==
  ASSUME ListInv, header' = header, reset, Ends(pairs)
  PROVE  ListInv'
<1>1. pairs' = pairs /\ lookup' = "requires_auth"
  BY DEF reset
<1>2. Listed(pairs)
  BY GrammarParts DEF ListInv
<1>3. IteratorInv'
  BY <1>1 DEF ListInv, IteratorInv
<1> QED BY <1>1, <1>2, <1>3, GrammarPartsNext DEF ListInv

\* begin() keeps it.
LEMMA BeginKeeps == ListInv /\ Begin => ListInv'
<1> SUFFICES ASSUME ListInv, Begin PROVE ListInv'
  OBVIOUS
<1>1. PICK first : first = Skip(1, ows_chars)
  OBVIOUS
<1>2. /\ pairs = << >> /\ header' = header /\ header \in Seq(Nat)
      /\ IF first = End THEN reset ELSE increment_from(first)
  BY <1>1 DEF ListInv, IteratorInv, Begin
<1>3. End \in Nat /\ 1 \in 1..End
  BY <1>2, AtFacts
<1>4. /\ first \in 1..End
      /\ \A d \in 1..(first - 1) : At(d) \in ows_chars
      /\ first = End \/ At(first) \notin ows_chars
  BY <1>1, <1>2, <1>3, SkipFacts
<1>5. \A b \in 1..End : Leads(b) => b = first
  <2> SUFFICES ASSUME NEW b \in 1..End, Leads(b) PROVE b = first
    OBVIOUS
  <2>1. Skip(1, ows_chars) = b
    BY <1>2, <1>3, SkipIs DEF Leads
  <2> QED BY <1>1, <2>1
<1>6. CASE first = End
  <2>1. Ends(pairs)
    <3> SUFFICES ASSUME NEW a \in 1..End, NEW n \in 1..End, NEW v \in 1..End,
                        Follows(a, pairs), IsPair(PairOf(a, n, v), a)
                 PROVE  FALSE
      BY DEF Ends
    <3>1. a = End
      BY <1>2, <1>5, <1>6 DEF Follows
    <3>2. a < n
      BY DEF IsPair, PairOf, View
    <3> QED BY <1>3, <3>1, <3>2
  <2> QED BY <1>2, <1>6, <2>1, ResetKeeps
<1>7. CASE first # End
  <2>1. Leads(first)
    BY <1>4, <1>7 DEF Leads
  <2> QED BY <1>2, <1>4, <1>5, <1>7, <2>1, IncrementKeeps DEF Follows
<1> QED BY <1>6, <1>7

\* operator++ keeps it.
LEMMA IncrementStepKeeps == ListInv /\ Increment => ListInv'
<1> SUFFICES ASSUME ListInv, Increment PROVE ListInv'
  OBVIOUS
<1>1. /\ header' = header /\ header \in Seq(Nat) /\ pairs # << >>
      /\ next = pairs[Len(pairs)].value[2] /\ next \in 1..End
      /\ IF At(next) = Semicolon /\ At(next + 1) = Space
         THEN increment_from(next + 2) ELSE reset
  BY DEF ListInv, IteratorInv, Increment
<1>2. \A b : Follows(b, pairs) <=>
               b = next + 2 /\ At(next) = Semicolon /\ At(next + 1) = Space
  BY <1>1 DEF Follows, Continues
<1>3. CASE At(next) = Semicolon /\ At(next + 1) = Space
  <2>1. next + 2 \in 1..End
    <3>1. End \in Nat /\ next \in Int /\ next + 1 \in Int
      BY <1>1, AtFacts
    <3>2. next + 1 \in 1..(End - 1)
      BY <1>1, <1>3, <3>1, AtFacts, Kinds
    <3> QED BY <1>1, <3>1, <3>2
  <2> QED BY <1>1, <1>2, <1>3, <2>1, IncrementKeeps
<1>4. CASE ~(At(next) = Semicolon /\ At(next + 1) = Space)
  <2>1. Ends(pairs)
    BY <1>2, <1>4 DEF Ends
  <2> QED BY <1>1, <1>4, <2>1, ResetKeeps
<1> QED BY <1>3, <1>4

CookieType == [name : Seq(Nat), value : Seq(Nat)]

\* A header of one cookie more.
Longer(t, j, k) ==
  t \o (IF k = 1 THEN << >> ELSE <<Semicolon, Space>>)
    \o j[k].name \o <<Pad>> \o j[k].value

\* Render(j) with the headers of the first k cookies of j.
IsRendered(r, j, n) ==
  r = [k \in 0..n |-> IF k = 0 THEN << >> ELSE Longer(r[k - 1], j, k)]

\* Such headers exist for any number of cookies.
LEMMA RenderedExists ==
  ASSUME NEW j, NEW m \in Nat
  PROVE  \E r : IsRendered(r, j, m)
<1> DEFINE T == {n \in Nat : ~ \E r : IsRendered(r, j, n)}
<1> SUFFICES ASSUME T # {} PROVE FALSE
  OBVIOUS
<1>1. PICK n \in T : \A l \in T : n <= l
  <2>1. T \in SUBSET Nat
    OBVIOUS
  <2> HIDE DEF T
  <2> QED BY <2>1, LeastNumber
<1>2. n # 0
  <2>1. PICK r : r = [k \in 0..0 |-> << >>]
    OBVIOUS
  <2>2. r = [k \in 0..0 |-> IF k = 0 THEN << >> ELSE Longer(r[k - 1], j, k)]
    BY <2>1
  <2>3. IsRendered(r, j, 0)
    BY <2>2 DEF IsRendered
  <2> QED BY <2>3
<1>3. n \in Nat /\ n - 1 \in Nat /\ n - 1 \notin T
  BY <1>1, <1>2
<1>4. PICK r : IsRendered(r, j, n - 1)
  BY <1>3
<1>5. PICK q : q = [k \in 0..n |-> IF k \in 0..(n - 1) THEN r[k] ELSE Longer(r[n - 1], j, n)]
  OBVIOUS
<1>6. ASSUME NEW k \in 0..n
      PROVE  q[k] = IF k = 0 THEN << >> ELSE Longer(q[k - 1], j, k)
  <2>1. CASE k \in 0..(n - 1)
    <3>1. q[k] = r[k] /\ (k # 0 => q[k - 1] = r[k - 1])
      BY <1>3, <1>5, <2>1
    <3>2. r[k] = IF k = 0 THEN << >> ELSE Longer(r[k - 1], j, k)
      BY <1>4, <2>1 DEF IsRendered
    <3> QED BY <3>1, <3>2
  <2>2. CASE k = n
    <3>1. q[k] = Longer(r[n - 1], j, n) /\ q[k - 1] = r[n - 1]
      BY <1>3, <1>5, <2>2
    <3> QED BY <1>2, <2>2, <3>1
  <2> QED BY <1>3, <2>1, <2>2
<1>7. q = [k \in 0..n |-> q[k]]
  BY <1>5
<1>8. IsRendered(q, j, n)
  BY <1>6, <1>7 DEF IsRendered
<1> QED BY <1>1, <1>8

\* Render(j) is the last of them.
LEMMA RenderedFacts ==
  ASSUME NEW j \in Seq(CookieType)
  PROVE  \E r : /\ IsRendered(r, j, Len(j))
                /\ Render(j) = r[Len(j)]
<1> DEFINE r == CHOOSE r : IsRendered(r, j, Len(j))
<1>1. IsRendered(r, j, Len(j))
  <2>1. \E q : IsRendered(q, j, Len(j))
    <3>1. Len(j) \in Nat
      OBVIOUS
    <3> QED BY <3>1, RenderedExists
  <2> QED BY <2>1
<1>2. Render(j) = r[Len(j)]
  BY DEF Render, IsRendered, Longer
<1> QED BY <1>1, <1>2

\* Two strings, one behind the other.
LEMMA Joined ==
  ASSUME NEW s \in Seq(Nat), NEW t \in Seq(Nat)
  PROVE  /\ s \o t \in Seq(Nat)
         /\ Len(s \o t) = Len(s) + Len(t)
         /\ \A p \in 1..Len(s) : (s \o t)[p] = s[p]
         /\ \A p \in 1..Len(t) : (s \o t)[Len(s) + p] = t[p]
<1>1. /\ s \o t \in Seq(Nat)
      /\ Len(s \o t) = Len(s) + Len(t)
      /\ \A p \in 1..(Len(s) + Len(t)) :
           (s \o t)[p] = IF p <= Len(s) THEN s[p] ELSE t[p - Len(s)]
  OBVIOUS
<1>2. Len(s) \in Nat /\ Len(t) \in Nat
  OBVIOUS
<1>3. ASSUME NEW p \in 1..Len(s) PROVE (s \o t)[p] = s[p]
  BY <1>1, <1>2
<1>4. ASSUME NEW p \in 1..Len(t) PROVE (s \o t)[Len(s) + p] = t[p]
  <2>1. /\ Len(s) + p \in 1..(Len(s) + Len(t)) /\ ~(Len(s) + p <= Len(s))
        /\ (Len(s) + p) - Len(s) = p
    BY <1>2
  <2> QED BY <1>1, <2>1
<1> QED BY <1>1, <1>3, <1>4

\* Where the parts of a cookie are in a header w that it is added to: behind a
\* separator of g characters.
IsLonger(w, t, g, name, value) ==
  /\ w \in Seq(Nat)
  /\ Len(w) = Len(t) + g + Len(name) + 1 + Len(value)
  /\ \A p \in 1..Len(t) : w[p] = t[p]
  /\ g = 2 => w[Len(t) + 1] = Semicolon /\ w[Len(t) + 2] = Space
  /\ \A p \in 1..Len(name) : w[Len(t) + g + p] = name[p]
  /\ w[Len(t) + g + Len(name) + 1] = Pad
  /\ \A p \in 1..Len(value) : w[Len(t) + g + Len(name) + 1 + p] = value[p]

\* Longer() puts the parts of a cookie there.
LEMMA LongerFacts ==
  ASSUME NEW j \in Seq(CookieType), NEW k \in 1..Len(j), NEW t \in Seq(Nat)
  PROVE  IsLonger(Longer(t, j, k), t, IF k = 1 THEN 0 ELSE 2,
                  j[k].name, j[k].value)
<1>2. PICK g : g = IF k = 1 THEN 0 ELSE 2
  OBVIOUS
<1>1. PICK name, value : name = j[k].name /\ value = j[k].value
  OBVIOUS
<1>26. name \in Seq(Nat) /\ value \in Seq(Nat)
  <2>1. j[k] \in CookieType
    OBVIOUS
  <2> QED BY <1>1, <2>1 DEF CookieType
<1>3. PICK sep : sep = IF k = 1 THEN << >> ELSE <<Semicolon, Space>>
  OBVIOUS
<1>4. /\ sep \in Seq(Nat) /\ Len(sep) = g /\ g \in Nat
      /\ k # 1 => sep[1] = Semicolon /\ sep[2] = Space /\ g = 2
  BY <1>2, <1>3 DEF Semicolon, Space
<1>5. PICK t1 : t1 = t \o sep
  OBVIOUS
<1>6. /\ t1 \in Seq(Nat) /\ Len(t1) = Len(t) + g
      /\ \A p \in 1..Len(t) : t1[p] = t[p]
      /\ \A p \in 1..g : t1[Len(t) + p] = sep[p]
  <2>1. /\ t1 \in Seq(Nat) /\ Len(t1) = Len(t) + Len(sep)
        /\ \A p \in 1..Len(t) : t1[p] = t[p]
        /\ \A p \in 1..Len(sep) : t1[Len(t) + p] = sep[p]
    BY <1>4, <1>5, Joined
  <2> QED BY <1>4, <2>1
<1>7. PICK t2 : t2 = t1 \o name
  OBVIOUS
<1>8. /\ t2 \in Seq(Nat) /\ Len(t2) = Len(t1) + Len(name)
      /\ \A p \in 1..Len(t1) : t2[p] = t1[p]
      /\ \A p \in 1..Len(name) : t2[Len(t1) + p] = name[p]
  BY <1>26, <1>6, <1>7, Joined
<1>9. PICK t3 : t3 = t2 \o <<Pad>>
  OBVIOUS
<1>10. /\ t3 \in Seq(Nat) /\ Len(t3) = Len(t2) + 1
       /\ \A p \in 1..Len(t2) : t3[p] = t2[p]
       /\ t3[Len(t2) + 1] = Pad
  <2>1. PICK one : one = <<Pad>>
    OBVIOUS
  <2>2. one \in Seq(Nat) /\ Len(one) = 1 /\ 1 \in 1..Len(one) /\ one[1] = Pad
    BY <2>1 DEF Pad
  <2>3. t3 = t2 \o one /\ t2 \in Seq(Nat)
    BY <1>8, <1>9, <2>1
  <2>4. /\ t3 \in Seq(Nat) /\ Len(t3) = Len(t2) + Len(one)
        /\ \A p \in 1..Len(t2) : t3[p] = t2[p]
        /\ \A p \in 1..Len(one) : t3[Len(t2) + p] = one[p]
    BY <2>2, <2>3, Joined
  <2> QED BY <2>2, <2>4
<1>13. PICK w : w = t3 \o value
  OBVIOUS
<1>12. /\ w \in Seq(Nat) /\ Len(w) = Len(t3) + Len(value)
       /\ \A p \in 1..Len(t3) : w[p] = t3[p]
       /\ \A p \in 1..Len(value) : w[Len(t3) + p] = value[p]
  BY <1>26, <1>10, <1>13, Joined
<1>14. /\ Len(t) \in Nat /\ Len(name) \in Nat /\ Len(value) \in Nat /\ g \in Nat
       /\ Len(t1) = Len(t) + g
       /\ Len(t2) = Len(t) + g + Len(name)
       /\ Len(t3) = Len(t) + g + Len(name) + 1
  BY <1>26, <1>4, <1>6, <1>8, <1>10
<1>15. Len(w) = Len(t) + g + Len(name) + 1 + Len(value)
  BY <1>12, <1>14
<1>16. ASSUME NEW p \in 1..Len(t1) PROVE w[p] = t1[p]
  <2>1. p \in 1..Len(t2) /\ p \in 1..Len(t3)
    BY <1>14
  <2> QED BY <1>8, <1>10, <1>12, <2>1
<1>17. ASSUME NEW p \in 1..Len(t) PROVE w[p] = t[p]
  <2>1. p \in 1..Len(t1)
    BY <1>14
  <2> QED BY <1>6, <1>16, <2>1
<1>18. ASSUME k # 1
       PROVE  w[Len(t) + 1] = Semicolon /\ w[Len(t) + 2] = Space
  <2>1. /\ g = 2 /\ 1 \in 1..g /\ 2 \in 1..g
        /\ Len(t) + 1 \in 1..Len(t1) /\ Len(t) + 2 \in 1..Len(t1)
    BY <1>4, <1>14, <1>18
  <2> QED BY <1>4, <1>6, <1>16, <1>18, <2>1
<1>19. ASSUME NEW p \in 1..Len(name) PROVE w[Len(t) + g + p] = name[p]
  <2>1. /\ Len(t) + g + p = Len(t1) + p
        /\ Len(t1) + p \in 1..Len(t2) /\ Len(t1) + p \in 1..Len(t3)
    BY <1>14
  <2> QED BY <1>8, <1>10, <1>12, <2>1
<1>20. w[Len(t) + g + Len(name) + 1] = Pad
  <2>1. Len(t2) + 1 \in 1..Len(t3)
    BY <1>14
  <2> QED BY <1>10, <1>12, <1>14, <2>1
<1>21. ASSUME NEW p \in 1..Len(value)
       PROVE  w[Len(t) + g + Len(name) + 1 + p] = value[p]
  BY <1>12, <1>14
<1>22. Longer(t, j, k) = w
  BY <1>1, <1>3, <1>5, <1>7, <1>9, <1>13 DEF Longer
<1>23. g = 2 => k # 1
  BY <1>2
<1>24. IsLonger(w, t, g, name, value)
  BY <1>12, <1>15, <1>17, <1>18, <1>19, <1>20, <1>21, <1>23 DEF IsLonger
<1>25. IsLonger(Longer(t, j, k), t, g, j[k].name, j[k].value)
  BY <1>1, <1>22, <1>24
<1> QED BY <1>2, <1>25

\* Each header is one, and the next one begins with it.
LEMMA RenderedType ==
  ASSUME NEW j \in Seq(CookieType), NEW r, IsRendered(r, j, Len(j))
  PROVE  /\ r[0] = << >>
         /\ \A k \in 0..Len(j) : r[k] \in Seq(Nat)
         /\ \A k \in 1..Len(j) : r[k] = Longer(r[k - 1], j, k)
<1>1. Len(j) \in Nat
  OBVIOUS
<1>2. r[0] = << >> /\ \A k \in 1..Len(j) : r[k] = Longer(r[k - 1], j, k)
  BY <1>1 DEF IsRendered
<1> DEFINE T == {k \in 0..Len(j) : r[k] \notin Seq(Nat)}
<1>3. SUFFICES ASSUME T # {} PROVE FALSE
  BY <1>2
<1>4. PICK k \in T : \A l \in T : k <= l
  <2>1. T \in SUBSET Nat
    BY <1>1
  <2> HIDE DEF T
  <2> QED BY <1>3, <2>1, LeastNumber
<1>5. k # 0
  <2>1. << >> \in Seq(Nat)
    OBVIOUS
  <2> QED BY <1>2, <1>4, <2>1
<1>6. k \in 1..Len(j) /\ k - 1 \in 0..Len(j) /\ k - 1 < k
  BY <1>1, <1>4, <1>5
<1>7. r[k - 1] \in Seq(Nat)
  BY <1>1, <1>4, <1>6
<1>8. Longer(r[k - 1], j, k) \in Seq(Nat)
  BY <1>6, <1>7, LongerFacts DEF IsLonger
<1> QED BY <1>2, <1>4, <1>6, <1>8

\* What is rendered of the first k cookies begins what is rendered of all.
LEMMA RenderedPrefix ==
  ASSUME NEW j \in Seq(CookieType), NEW r, IsRendered(r, j, Len(j))
  PROVE  \A k \in 0..Len(j) :
           /\ Len(r[k]) <= Len(r[Len(j)])
           /\ \A p \in 1..Len(r[k]) : r[Len(j)][p] = r[k][p]
<1> DEFINE Begins(k) == /\ Len(r[k]) <= Len(r[Len(j)])
                        /\ \A p \in 1..Len(r[k]) : r[Len(j)][p] = r[k][p]
           T == {d \in 0..Len(j) : ~Begins(Len(j) - d)}
<1>1. Len(j) \in Nat /\ \A k \in 0..Len(j) : r[k] \in Seq(Nat) /\ Len(r[k]) \in Nat
  BY RenderedType
<1>2. \A k \in 0..Len(j) : Len(j) - k \in 0..Len(j) /\ Len(j) - (Len(j) - k) = k
  BY <1>1
<1>3. SUFFICES ASSUME T # {} PROVE FALSE
  BY <1>2
<1>4. PICK d \in T : \A c \in T : d <= c
  <2>1. T \in SUBSET Nat
    BY <1>1
  <2> HIDE DEF T
  <2> QED BY <1>3, <2>1, LeastNumber
<1>5. PICK k : k = Len(j) - d
  OBVIOUS
<1>6. ~Begins(k)
  BY <1>4, <1>5
<1>7. d # 0
  <2>1. Begins(Len(j))
    BY <1>1
  <2> QED BY <1>1, <1>5, <1>6, <2>1
<1>8. PICK q : q = k + 1
  OBVIOUS
<1>9. /\ k \in 0..Len(j) /\ q \in 1..Len(j) /\ q \in 0..Len(j) /\ q - 1 = k
      /\ d - 1 \in 0..Len(j) /\ d - 1 < d /\ Len(j) - (d - 1) = q
  BY <1>1, <1>4, <1>5, <1>7, <1>8
<1>10. Begins(q)
  <2>1. d - 1 \notin T
    <3>1. d \in Nat /\ ~(d <= d - 1)
      BY <1>9
    <3> HIDE DEF T
    <3> QED BY <1>4, <3>1
  <2> QED BY <1>9, <2>1
<1>11. r[q] = Longer(r[k], j, q) /\ r[k] \in Seq(Nat) /\ r[q] \in Seq(Nat)
  BY <1>1, <1>9, RenderedType
<1>12. PICK name, value, g :
          /\ name = j[q].name /\ value = j[q].value
          /\ g = IF q = 1 THEN 0 ELSE 2
  OBVIOUS
<1>13. /\ Len(r[q]) = Len(r[k]) + g + Len(name) + 1 + Len(value)
       /\ \A p \in 1..Len(r[k]) : r[q][p] = r[k][p]
  <2>1. IsLonger(r[q], r[k], g, name, value)
    BY <1>9, <1>11, <1>12, LongerFacts
  <2> QED BY <2>1 DEF IsLonger
<1>14. Len(name) \in Nat /\ Len(value) \in Nat /\ g \in Nat
  <2>1. j[q] \in CookieType
    BY <1>9
  <2> QED BY <1>12, <2>1 DEF CookieType
<1>15. /\ Len(r[k]) \in Nat /\ Len(r[q]) \in Nat /\ Len(r[Len(j)]) \in Nat
       /\ Len(r[k]) <= Len(r[q])
  <2>1. Len(r[k]) \in Nat /\ Len(r[q]) \in Nat /\ Len(r[Len(j)]) \in Nat
    BY <1>1, <1>9
  <2> QED BY <1>13, <1>14, <2>1
<1>16. Begins(k)
  <2>1. Len(r[k]) <= Len(r[Len(j)])
    BY <1>10, <1>15
  <2>2. ASSUME NEW p \in 1..Len(r[k]) PROVE r[Len(j)][p] = r[k][p]
    <3>1. p \in 1..Len(r[q])
      BY <1>15
    <3> QED BY <1>10, <1>13, <3>1
  <2> QED BY <2>1, <2>2
<1> QED BY <1>6, <1>16

\* Where cookie k begins, behind o characters and the cookies before it.
FirstOf(o, r, k) == o + Len(r[k - 1]) + (IF k = 1 THEN 0 ELSE 2) + 1

\* The header carries R from its character o + 1 on.
Carries(o, R) ==
  /\ o \in Nat /\ R \in Seq(Nat)
  /\ o + Len(R) <= Len(header)
  /\ \A p \in 1..Len(R) : header[o + p] = R[p]
  /\ \A d \in 1..o : header[d] \in ows_chars
  /\ At(o + Len(R) + 1) \in {NoChar, Space}

\* A view of the header that carries s.
LEMMA SubtextIs ==
  ASSUME header \in Seq(Nat), NEW s \in Seq(Nat), NEW a \in Nat, a >= 1,
         a + Len(s) <= Len(header) + 1,
         \A p \in 1..Len(s) : header[(a - 1) + p] = s[p]
  PROVE  TextOf(View(a, a + Len(s))) = s
<1>1. Len(s) \in Nat /\ Len(header) \in Nat
  OBVIOUS
<1>2. PICK t : t = SubSeq(header, a, a + Len(s) - 1)
  OBVIOUS
<1>3. TextOf(View(a, a + Len(s))) = t
  BY <1>2 DEF TextOf, View
<1>4. t \in Seq(Nat) /\ Len(t) = Len(s)
  BY <1>1, <1>2
<1>5. \A p \in 1..Len(s) : t[p] = header[(a - 1) + p]
  BY <1>1, <1>2
<1>6. \A p \in 1..Len(s) : t[p] = s[p]
  BY <1>5
<1>7. t = s
  BY <1>4, <1>6
<1> QED BY <1>3, <1>7

\* What the header says of a cookie, where o characters and s of other cookies
\* are before its separator of g characters, and w are the cookies up to it.
IsCarried(o, w, s, g, name, value) ==
  /\ Len(w) = s + g + Len(name) + 1 + Len(value)
  /\ o + Len(w) <= Len(header)
  /\ g = 2 => At(o + s + 1) = Semicolon /\ At(o + s + 2) = Space
  /\ \A p \in 1..Len(name) : At(o + s + g + p) = name[p]
  /\ At(o + s + g + Len(name) + 1) = Pad
  /\ \A p \in 1..Len(value) : At(o + s + g + Len(name) + 1 + p) = value[p]

\* Each cookie of the jar is carried by the header.
LEMMA CarriedParts ==
  ASSUME header \in Seq(Nat), jar \in Seq(CookieType),
         NEW r, IsRendered(r, jar, Len(jar)),
         NEW o, Carries(o, r[Len(jar)]), NEW k \in 1..Len(jar)
  PROVE  /\ IsCarried(o, r[k], Len(r[k - 1]), IF k = 1 THEN 0 ELSE 2,
                      jar[k].name, jar[k].value)
         /\ Len(r[k - 1]) \in Nat /\ Len(r[k]) \in Nat
         /\ jar[k].name \in Seq(Nat) /\ jar[k].value \in Seq(Nat)
<1>1. PICK w, t, R : w = r[k] /\ t = r[k - 1] /\ R = r[Len(jar)]
  OBVIOUS
<1>2. /\ k - 1 \in 0..Len(jar) /\ k \in 0..Len(jar)
  OBVIOUS
<1>3. w \in Seq(Nat) /\ t \in Seq(Nat) /\ w = Longer(t, jar, k)
  BY <1>1, <1>2, RenderedType
<1>4. PICK g, name, value :
         /\ g = (IF k = 1 THEN 0 ELSE 2) /\ name = jar[k].name /\ value = jar[k].value
  OBVIOUS
<1>5. name \in Seq(Nat) /\ value \in Seq(Nat)
  <2>1. jar[k] \in CookieType
    OBVIOUS
  <2> QED BY <1>4, <2>1 DEF CookieType
<1>6. IsLonger(w, t, g, name, value)
  BY <1>3, <1>4, LongerFacts
<1>7. PICK s, ln, lv : s = Len(t) /\ ln = Len(name) /\ lv = Len(value)
  OBVIOUS
<1>8. /\ s \in Nat /\ ln \in Nat /\ lv \in Nat /\ g \in Nat /\ o \in Nat
      /\ Len(w) \in Nat /\ Len(R) \in Nat /\ Len(header) \in Nat
  <2>1. s \in Nat /\ ln \in Nat /\ lv \in Nat /\ Len(w) \in Nat
    BY <1>3, <1>5, <1>7
  <2>2. g \in Nat
    BY <1>4
  <2>3. o \in Nat /\ Len(header) \in Nat
    BY DEF Carries
  <2>4. Len(R) \in Nat
    <3>1. R \in Seq(Nat)
      BY <1>1 DEF Carries
    <3> QED BY <3>1
  <2> QED BY <2>1, <2>2, <2>3, <2>4
<1>9. Len(w) = s + g + ln + 1 + lv
  BY <1>6, <1>7 DEF IsLonger
<1>10. /\ Len(w) <= Len(R)
       /\ \A p \in 1..Len(w) : R[p] = w[p]
  BY <1>1, <1>2, RenderedPrefix
<1>11. o + Len(w) <= Len(header)
  BY <1>1, <1>8, <1>10 DEF Carries
<1>12. ASSUME NEW p \in 1..Len(w) PROVE At(o + p) = w[p]
  <2>1. p \in 1..Len(R) /\ o + p \in 1..Len(header)
    BY <1>8, <1>10, <1>11
  <2>2. header[o + p] = R[p]
    BY <1>1, <2>1 DEF Carries
  <2>3. DOMAIN header = 1..Len(header)
    OBVIOUS
  <2> QED BY <1>10, <2>1, <2>2, <2>3 DEF At
<1>13. ASSUME g = 2
       PROVE  At(o + s + 1) = Semicolon /\ At(o + s + 2) = Space
  <2>1. s + 1 \in 1..Len(w) /\ s + 2 \in 1..Len(w)
    BY <1>4, <1>8, <1>9, <1>13
  <2>2. w[s + 1] = Semicolon /\ w[s + 2] = Space
    BY <1>6, <1>7, <1>13, <2>1 DEF IsLonger
  <2>3. o + s + 1 = o + (s + 1) /\ o + s + 2 = o + (s + 2)
    BY <1>8
  <2> QED BY <1>12, <2>1, <2>2, <2>3
<1>14. ASSUME NEW p \in 1..ln PROVE At(o + s + g + p) = name[p]
  <2>1. s + g + p \in 1..Len(w) /\ o + s + g + p = o + (s + g + p)
    BY <1>8, <1>9
  <2>2. w[s + g + p] = name[p]
    BY <1>6, <1>7 DEF IsLonger
  <2> QED BY <1>12, <2>1, <2>2
<1>15. At(o + s + g + ln + 1) = Pad
  <2>1. s + g + ln + 1 \in 1..Len(w) /\ o + s + g + ln + 1 = o + (s + g + ln + 1)
    BY <1>8, <1>9
  <2>2. w[s + g + ln + 1] = Pad
    BY <1>6, <1>7 DEF IsLonger
  <2> QED BY <1>12, <2>1, <2>2
<1>16. ASSUME NEW p \in 1..lv PROVE At(o + s + g + ln + 1 + p) = value[p]
  <2>1. /\ s + g + ln + 1 + p \in 1..Len(w)
        /\ o + s + g + ln + 1 + p = o + (s + g + ln + 1 + p)
    BY <1>8, <1>9
  <2>2. w[s + g + ln + 1 + p] = value[p]
    BY <1>6, <1>7 DEF IsLonger
  <2> QED BY <1>12, <2>1, <2>2
<1>17. IsCarried(o, w, s, g, name, value)
  BY <1>7, <1>9, <1>11, <1>13, <1>14, <1>15, <1>16 DEF IsCarried
<1> QED BY <1>1, <1>4, <1>5, <1>7, <1>8, <1>17

\* Behind a cookie is the separator of the next one, or nothing of a value.
LEMMA BehindCookie ==
  ASSUME header \in Seq(Nat), jar \in Seq(CookieType),
         NEW r, IsRendered(r, jar, Len(jar)),
         NEW o, Carries(o, r[Len(jar)]), NEW k \in 1..Len(jar)
  PROVE  /\ At(o + Len(r[k]) + 1) \notin cookie_value_chars
         /\ At(o + Len(r[k]) + 1) # Quote
         /\ k < Len(jar) =>
              /\ At(o + Len(r[k]) + 1) = Semicolon
              /\ At(o + Len(r[k]) + 2) = Space
         /\ k = Len(jar) => At(o + Len(r[k]) + 1) # Semicolon
<1>1. CASE k = Len(jar)
  <2>1. At(o + Len(r[k]) + 1) \in {NoChar, Space}
    BY <1>1 DEF Carries
  <2> QED BY <1>1, <2>1, Kinds DEF Quote, NoChar, Space
<1>2. CASE k < Len(jar)
  <2>1. PICK q : q = k + 1
    OBVIOUS
  <2>2. q \in 1..Len(jar) /\ q # 1 /\ q - 1 = k
    BY <1>2, <2>1
  <2>3. At(o + Len(r[k]) + 1) = Semicolon /\ At(o + Len(r[k]) + 2) = Space
    <3>1. PICK w : w = r[k]
      OBVIOUS
    <3>2. IsCarried(o, r[q], Len(w), 2, jar[q].name, jar[q].value)
      BY <2>2, <3>1, CarriedParts
    <3> QED BY <3>1, <3>2 DEF IsCarried
  <2> QED BY <1>2, <2>3, Kinds DEF Quote, Semicolon
<1>3. k = Len(jar) \/ k < Len(jar)
  OBVIOUS
<1> QED BY <1>1, <1>2, <1>3

\* Positions behind b, and how far behind.
LEMMA Offsets ==
  ASSUME NEW b \in Nat, NEW l \in Nat, NEW d \in (b + 1)..(b + l)
  PROVE  d - b \in 1..l /\ b + (d - b) = d
  OBVIOUS

\* The positions that a cookie takes, in numbers.
LEMMA Places ==
  ASSUME NEW o \in Nat, NEW s \in Nat, NEW g \in Nat, NEW ln \in Nat, NEW lv \in Nat,
         NEW size \in Nat, NEW m \in Nat,
         ln >= 1, size = s + g + ln + 1 + lv, o + size <= m - 1
  PROVE  \E a \in 1..m, n \in 1..m, v \in 1..m :
           /\ a = o + s + g + 1 /\ n = a + ln /\ v = o + size + 1
           /\ v = n + 1 + lv /\ a < n /\ n + 1 <= v
           /\ a - 1 = o + s + g /\ n - 1 = (a - 1) + ln /\ n = o + s + g + ln + 1
           /\ v - 1 = n + lv
<1>1. PICK a \in Nat : a = o + s + g + 1
  OBVIOUS
<1>2. PICK n \in Nat : n = a + ln
  OBVIOUS
<1>3. PICK v \in Nat : v = n + 1 + lv
  OBVIOUS
<1> QED BY <1>1, <1>2, <1>3

\* A value is one that skip_cookie_value() passes, with its quotes if it has any.
LEMMA ValueIsSkipped ==
  ASSUME NEW n \in Nat, NEW v \in Nat, NEW value \in Seq(Nat), is_sent_value(value),
         v = n + 1 + Len(value),
         \A p \in 1..Len(value) : At(n + p) = value[p],
         At(v) \notin cookie_value_chars, At(v) # Quote
  PROVE  \/ /\ At(n + 1) # Quote
            /\ \A d \in (n + 1)..(v - 1) : At(d) \in cookie_value_chars
            /\ At(v) \notin cookie_value_chars
         \/ /\ At(n + 1) = Quote
            /\ n + 3 <= v
            /\ \A d \in (n + 2)..(v - 2) : At(d) \in cookie_value_chars
            /\ At(v - 1) = Quote
<1>1. PICK lv \in Nat : lv = Len(value)
  OBVIOUS
<1>2. DOMAIN value = 1..lv /\ v - 1 = n + lv /\ v - 2 = n + lv - 1
  BY <1>1
<1>5. cookie_octets = cookie_value_chars
  BY DEF cookie_octets, cookie_value_chars
<1>3. CASE \A d \in DOMAIN value : value[d] \in cookie_value_chars
  <2>1. ASSUME NEW d \in (n + 1)..(v - 1) PROVE At(d) \in cookie_value_chars
    <3>1. d - n \in 1..lv /\ n + (d - n) = d
      BY <1>2, Offsets
    <3> QED BY <1>1, <1>2, <1>3, <3>1
  <2>2. At(n + 1) # Quote
    <3>1. v = n + 1 \/ n + 1 \in (n + 1)..(v - 1)
      BY <1>2
    <3> QED BY <2>1, <3>1, Kinds
  <2> QED BY <2>1, <2>2
<1>4. CASE /\ Len(value) >= 2 /\ value[1] = Quote /\ value[Len(value)] = Quote
           /\ \A d \in 2..(Len(value) - 1) : value[d] \in cookie_value_chars
  <2>1. 1 \in 1..lv /\ lv \in 1..lv /\ n + 3 <= v
    BY <1>1, <1>4
  <2>2. At(n + 1) = Quote /\ At(v - 1) = Quote
    BY <1>1, <1>2, <1>4, <2>1
  <2>3. ASSUME NEW d \in (n + 2)..(v - 2) PROVE At(d) \in cookie_value_chars
    <3>1. d - n \in 1..lv /\ n + (d - n) = d /\ d - n \in 2..(lv - 1)
      BY <1>2
    <3> QED BY <1>1, <1>4, <3>1
  <2> QED BY <2>1, <2>2, <2>3
<1> QED BY <1>3, <1>4, <1>5 DEF is_sent_value

\* The iterator finds such a cookie: its name from a on, its value up to v.
IsFound(o, w, s, g, name, value) ==
  \E a, n, v \in 1..End :
    /\ a = o + s + g + 1 /\ n = a + Len(name) /\ v = o + Len(w) + 1
    /\ IsPair(PairOf(a, n, v), a)
    /\ TextOf(View(a, n)) = name
    /\ TextOf(View(n + 1, v)) = value

\* A cookie of a well behaved client is a pair of the grammar.
LEMMA PairFromParts ==
  ASSUME header \in Seq(Nat), NEW o \in Nat, NEW s \in Nat, NEW g \in Nat,
         NEW name \in Seq(Nat), NEW value \in Seq(Nat), NEW w \in Seq(Nat),
         IsCarried(o, w, s, g, name, value),
         is_valid_token(name), is_sent_value(value),
         At(o + Len(w) + 1) \notin cookie_value_chars, At(o + Len(w) + 1) # Quote
  PROVE  IsFound(o, w, s, g, name, value)
<1>1. PICK ln \in Nat, lv \in Nat, size \in Nat :
         ln = Len(name) /\ lv = Len(value) /\ size = Len(w)
  OBVIOUS
<1>2. ln >= 1
  <2>1. name # << >>
    BY DEF is_valid_token
  <2> QED BY <1>1, <2>1
<1>3. \A d \in 1..ln : name[d] \in token_chars
  <2>1. \A d \in DOMAIN name : name[d] \in token_chars
    BY DEF is_valid_token
  <2>2. DOMAIN name = 1..ln
    BY <1>1
  <2> QED BY <2>1, <2>2
<1>4. End \in Nat /\ End = Len(header) + 1
  BY EndFacts
<1>5. size = s + g + ln + 1 + lv /\ o + size <= End - 1
  <2>1. Len(header) = End - 1
    BY <1>4
  <2> QED BY <1>1, <2>1 DEF IsCarried
<1>6. PICK a \in 1..End, n \in 1..End, v \in 1..End :
           /\ a = o + s + g + 1 /\ n = a + ln /\ v = o + size + 1
           /\ v = n + 1 + lv /\ a < n /\ n + 1 <= v
           /\ a - 1 = o + s + g /\ n - 1 = (a - 1) + ln /\ n = o + s + g + ln + 1
           /\ v - 1 = n + lv
  BY <1>2, <1>4, <1>5, Places
<1>7. ASSUME NEW p \in 1..ln PROVE At((a - 1) + p) = name[p]
  BY <1>1, <1>6 DEF IsCarried
<1>8. ASSUME NEW p \in 1..lv PROVE At(n + p) = value[p]
  BY <1>1, <1>6 DEF IsCarried
<1>9. At(n) = Pad
  BY <1>1, <1>6 DEF IsCarried
<1>10. ASSUME NEW d \in a..(n - 1) PROVE At(d) \in token_chars
  <2>1. PICK b \in Nat : b = a - 1 /\ b + 1 = a /\ n - 1 = b + ln
    BY <1>6
  <2>2. d - b \in 1..ln /\ b + (d - b) = d
    BY <2>1, Offsets
  <2> QED BY <1>3, <1>7, <2>1, <2>2
<1>11. \/ /\ At(n + 1) # Quote
          /\ \A d \in (n + 1)..(v - 1) : At(d) \in cookie_value_chars
          /\ At(v) \notin cookie_value_chars
       \/ /\ At(n + 1) = Quote
          /\ n + 3 <= v
          /\ \A d \in (n + 2)..(v - 2) : At(d) \in cookie_value_chars
          /\ At(v - 1) = Quote
  <2>1. At(v) \notin cookie_value_chars /\ At(v) # Quote
    BY <1>1, <1>6
  <2>2. n \in Nat /\ v \in Nat
    BY <1>4
  <2>3. \A p \in 1..Len(value) : At(n + p) = value[p]
    BY <1>1, <1>8
  <2>4. v = n + 1 + Len(value)
    BY <1>1, <1>6
  <2> QED BY <2>1, <2>2, <2>3, <2>4, ValueIsSkipped
<1>12. IsPair(PairOf(a, n, v), a)
  <2>1. (n + 1) + 2 = n + 3 /\ (n + 1) + 1 = n + 2
    BY <1>4
  <2> QED BY <1>6, <1>9, <1>10, <1>11, <2>1 DEF IsPair, PairOf, View
<1>13. TextOf(View(a, n)) = name
  <2>1. a \in Nat /\ a >= 1 /\ n = a + Len(name) /\ a + Len(name) <= Len(header) + 1
    BY <1>1, <1>4, <1>6
  <2>2. ASSUME NEW p \in 1..Len(name) PROVE header[(a - 1) + p] = name[p]
    <3>1. At((a - 1) + p) = name[p] /\ (a - 1) + p \in Int /\ name[p] # NoChar
      BY <1>1, <1>7, <2>1 DEF NoChar
    <3> QED BY <3>1, AtFacts
  <2> QED BY <2>1, <2>2, SubtextIs
<1>14. TextOf(View(n + 1, v)) = value
  <2>1. PICK b \in Nat : b = n + 1 /\ b - 1 = n /\ v = b + Len(value) /\ b >= 1
    <3>1. PICK b \in Nat : b = n + 1
      BY <1>4
    <3>2. v = b + lv /\ b - 1 = n /\ b >= 1
      BY <1>4, <1>6, <3>1
    <3> QED BY <1>1, <3>1, <3>2
  <2>2. b + Len(value) <= Len(header) + 1
    BY <1>4, <2>1
  <2>3. ASSUME NEW p \in 1..Len(value) PROVE header[(b - 1) + p] = value[p]
    <3>1. At(n + p) = value[p] /\ n + p \in Int /\ value[p] # NoChar
      BY <1>1, <1>4, <1>8 DEF NoChar
    <3> QED BY <2>1, <3>1, AtFacts
  <2> QED BY <2>1, <2>2, <2>3, SubtextIs
<1> QED BY <1>1, <1>6, <1>12, <1>13, <1>14 DEF IsFound

\* Cookie k in the header: a pair of the grammar, with its name and its value.
IsCookie(pair, k) ==
  \E a, n, v \in 1..End :
    /\ pair = PairOf(a, n, v)
    /\ IsPair(pair, a)
    /\ TextOf(pair.name) = jar[k].name
    /\ TextOf(pair.value) = jar[k].value

\* Cookie k of the jar is read where it was written.
LEMMA CookieIsPair ==
  ASSUME header \in Seq(Nat), IsJar(jar),
         NEW r, IsRendered(r, jar, Len(jar)),
         NEW o, Carries(o, r[Len(jar)]), NEW k \in 1..Len(jar)
  PROVE  LET a == FirstOf(o, r, k)
             n == a + Len(jar[k].name)
         IN  IsCookie(PairOf(a, n, o + Len(r[k]) + 1), k)
<1>1. jar \in Seq(CookieType) /\ is_valid_token(jar[k].name) /\ is_sent_value(jar[k].value)
  BY DEF IsJar, CookieType
<1>2. PICK s \in Nat, g \in Nat : s = Len(r[k - 1]) /\ g = (IF k = 1 THEN 0 ELSE 2)
  BY <1>1, CarriedParts
<1>3. PICK name \in Seq(Nat), value \in Seq(Nat) :
         name = jar[k].name /\ value = jar[k].value
  BY <1>1, CarriedParts
<1>4. IsCarried(o, r[k], s, g, name, value)
  BY <1>1, <1>2, <1>3, CarriedParts
<1>5. /\ r[k] \in Seq(Nat) /\ o \in Nat
      /\ At(o + Len(r[k]) + 1) \notin cookie_value_chars
      /\ At(o + Len(r[k]) + 1) # Quote
  <2>1. r[k] \in Seq(Nat)
    BY <1>1, RenderedType
  <2> QED BY <1>1, <2>1, BehindCookie DEF Carries
<1>6. PICK a \in 1..End, n \in 1..End, v \in 1..End :
           /\ a = o + s + g + 1 /\ n = a + Len(name) /\ v = o + Len(r[k]) + 1
           /\ IsPair(PairOf(a, n, v), a)
           /\ TextOf(View(a, n)) = name
           /\ TextOf(View(n + 1, v)) = value
  <2>1. is_valid_token(name) /\ is_sent_value(value)
    BY <1>1, <1>3
  <2>2. PICK w : w = r[k]
    OBVIOUS
  <2>3. /\ w \in Seq(Nat) /\ o \in Nat /\ IsCarried(o, w, s, g, name, value)
        /\ At(o + Len(w) + 1) \notin cookie_value_chars
        /\ At(o + Len(w) + 1) # Quote
    BY <1>4, <1>5, <2>2
  <2>4. IsFound(o, w, s, g, name, value)
    BY <2>1, <2>3, PairFromParts
  <2> QED BY <2>2, <2>4 DEF IsFound
<1>7. a = FirstOf(o, r, k) /\ n = FirstOf(o, r, k) + Len(jar[k].name)
  BY <1>2, <1>3, <1>6 DEF FirstOf
<1>8. IsCookie(PairOf(a, n, v), k)
  BY <1>3, <1>6 DEF IsCookie, PairOf
<1> QED BY <1>6, <1>7, <1>8

\* vs are where the cookies of the jar are in the header, one behind the other.
Laid(vs) ==
  /\ \A k \in 1..Len(jar) : IsCookie(vs[k], k)
  /\ Leads(vs[1].name[1])
  /\ \A k \in 2..Len(jar) : Continues(vs[k].name[1], vs[k - 1].value[2])
  /\ At(vs[Len(jar)].value[2]) # Semicolon

\* The cookies that a header carries are laid out in it.
LEMMA CarriedIsLaid ==
  ASSUME header \in Seq(Nat), IsJar(jar), jar # << >>,
         NEW r, IsRendered(r, jar, Len(jar)),
         NEW o, Carries(o, r[Len(jar)])
  PROVE  \E vs : Laid(vs)
<1>1. PICK m \in Nat : m = Len(jar) /\ m >= 1
  BY DEF IsJar
<1>2. PICK vs : vs = [k \in 1..m |-> PairOf(FirstOf(o, r, k),
                                            FirstOf(o, r, k) + Len(jar[k].name),
                                            o + Len(r[k]) + 1)]
  OBVIOUS
<1>3. ASSUME NEW k \in 1..m
      PROVE  /\ vs[k].name[1] = FirstOf(o, r, k)
             /\ vs[k].value[2] = o + Len(r[k]) + 1
             /\ IsCookie(vs[k], k)
  <2>1. vs[k] = PairOf(FirstOf(o, r, k), FirstOf(o, r, k) + Len(jar[k].name),
                       o + Len(r[k]) + 1)
    BY <1>2
  <2> QED BY <1>1, <2>1, CookieIsPair DEF PairOf, View
<1>4. jar \in Seq(CookieType) /\ o \in Nat
  BY DEF IsJar, CookieType, Carries
<1>5. \A k \in 0..m : r[k] \in Seq(Nat) /\ Len(r[k]) \in Nat
  BY <1>1, <1>4, RenderedType
<1>6. Leads(vs[1].name[1])
  <2>1. 1 \in 1..m
    BY <1>1
  <2>2. FirstOf(o, r, 1) = o + 1
    <3>1. r[0] = << >>
      BY <1>4, RenderedType
    <3> QED BY <1>4, <3>1 DEF FirstOf
  <2>3. \A d \in 1..((o + 1) - 1) : At(d) \in ows_chars
    <3> SUFFICES ASSUME NEW d \in 1..((o + 1) - 1) PROVE At(d) \in ows_chars
      OBVIOUS
    <3>1. d \in 1..o
      BY <1>4
    <3>2. header[d] \in ows_chars /\ o <= Len(header)
      BY <1>1, <1>4, <1>5, <3>1 DEF Carries
    <3>3. d \in DOMAIN header
      BY <1>4, <3>1, <3>2
    <3> QED BY <3>2, <3>3 DEF At
  <2>4. At(o + 1) \notin ows_chars
    <3>1. PICK a \in 1..End, n \in 1..End, v \in 1..End :
             vs[1] = PairOf(a, n, v) /\ IsPair(vs[1], a)
      BY <1>3, <2>1 DEF IsCookie
    <3>2. a = o + 1 /\ a < n /\ \A d \in a..(n - 1) : At(d) \in token_chars
      BY <1>3, <2>1, <2>2, <3>1 DEF IsPair, PairOf, View
    <3>3. a \in a..(n - 1)
      BY <3>2, EndFacts
    <3> QED BY <3>2, <3>3, Kinds
  <2> QED BY <1>3, <2>1, <2>2, <2>3, <2>4 DEF Leads
<1>7. ASSUME NEW k \in 2..m
      PROVE  Continues(vs[k].name[1], vs[k - 1].value[2])
  <2>1. PICK q : q = k - 1
    OBVIOUS
  <2>2. q \in 1..m /\ k \in 1..m /\ q < m /\ k # 1 /\ q \in 0..m
    BY <1>1, <2>1
  <2>3. /\ At(o + Len(r[q]) + 1) = Semicolon /\ At(o + Len(r[q]) + 2) = Space
    BY <1>1, <1>4, <2>2, BehindCookie
  <2>4. PICK l \in Nat : l = Len(r[q])
    BY <1>5, <2>2
  <2>5. FirstOf(o, r, k) = o + l + 2 + 1
    BY <2>1, <2>2, <2>4 DEF FirstOf
  <2>6. /\ vs[k].name[1] = o + l + 2 + 1 /\ vs[q].value[2] = o + l + 1
    BY <1>3, <2>2, <2>4, <2>5
  <2>7. o + l + 2 + 1 = (o + l + 1) + 2 /\ o + l + 2 = (o + l + 1) + 1
    BY <1>4
  <2> QED BY <2>1, <2>3, <2>4, <2>6, <2>7 DEF Continues
<1>8. At(vs[m].value[2]) # Semicolon
  <2>1. m \in 1..m
    BY <1>1
  <2> QED BY <1>1, <1>3, <1>4, <2>1, BehindCookie
<1> QED BY <1>1, <1>3, <1>6, <1>7, <1>8 DEF Laid

\* The header of a well behaved client.
LEMMA JarHeader ==
  ASSUME IsJar(jar), NEW before \in {<< >>, <<Space>>, <<Tab>>},
         NEW behind \in {<< >>, <<Space>>},
         header = before \o Render(jar) \o behind
  PROVE  /\ header \in Seq(Nat)
         /\ \E r, o : IsRendered(r, jar, Len(jar)) /\ Carries(o, r[Len(jar)])
<1>1. jar \in Seq(CookieType)
  BY DEF IsJar, CookieType
<1>2. PICK r : IsRendered(r, jar, Len(jar)) /\ Render(jar) = r[Len(jar)]
  BY <1>1, RenderedFacts
<1>3. PICK R : R = r[Len(jar)]
  OBVIOUS
<1>4. R \in Seq(Nat) /\ header = (before \o R) \o behind
  <2>1. Len(jar) \in 0..Len(jar)
    BY <1>1
  <2> QED BY <1>1, <1>2, <1>3, <2>1, RenderedType
<1>5. /\ before \in Seq(Nat) /\ behind \in Seq(Nat)
      /\ \A d \in 1..Len(before) : before[d] \in ows_chars
      /\ Len(behind) = 0 \/ (Len(behind) = 1 /\ behind[1] = Space)
  <2>1. /\ before \in Seq(Nat)
        /\ \A d \in 1..Len(before) : before[d] \in ows_chars
    <3>1. CASE before = << >>
      BY <3>1
    <3>2. CASE before = <<Space>>
      BY <3>2 DEF Space, ows_chars
    <3>3. CASE before = <<Tab>>
      BY <3>3 DEF Tab, ows_chars
    <3> QED BY <3>1, <3>2, <3>3
  <2>2. /\ behind \in Seq(Nat)
        /\ Len(behind) = 0 \/ (Len(behind) = 1 /\ behind[1] = Space)
    <3>1. CASE behind = << >>
      BY <3>1
    <3>2. CASE behind = <<Space>>
      BY <3>2 DEF Space
    <3> QED BY <3>1, <3>2
  <2> QED BY <2>1, <2>2
<1>6. PICK t : t = before \o R
  OBVIOUS
<1>7. /\ t \in Seq(Nat) /\ Len(t) = Len(before) + Len(R)
      /\ \A p \in 1..Len(before) : t[p] = before[p]
      /\ \A p \in 1..Len(R) : t[Len(before) + p] = R[p]
  BY <1>4, <1>5, <1>6, Joined
<1>8. /\ header \in Seq(Nat) /\ Len(header) = Len(t) + Len(behind)
      /\ \A p \in 1..Len(t) : header[p] = t[p]
      /\ \A p \in 1..Len(behind) : header[Len(t) + p] = behind[p]
  BY <1>4, <1>5, <1>6, <1>7, Joined
<1>9. PICK o \in Nat, l \in Nat, b \in Nat :
         o = Len(before) /\ l = Len(R) /\ b = Len(behind)
  BY <1>4, <1>5
<1>10. Len(t) = o + l /\ Len(header) = o + l + b /\ DOMAIN header = 1..(o + l + b)
  BY <1>7, <1>8, <1>9
<1>11. ASSUME NEW p \in 1..l PROVE header[o + p] = R[p]
  <2>1. o + p \in 1..Len(t)
    BY <1>10
  <2> QED BY <1>7, <1>8, <1>9, <2>1
<1>12. ASSUME NEW d \in 1..o PROVE header[d] \in ows_chars
  <2>1. d \in 1..Len(t)
    BY <1>10
  <2> QED BY <1>5, <1>7, <1>8, <1>9, <2>1
<1>13. At(o + l + 1) \in {NoChar, Space}
  <2>1. CASE b = 0
    <3>1. o + l + 1 \notin DOMAIN header
      BY <1>10, <2>1
    <3> QED BY <3>1 DEF At
  <2>2. CASE b = 1 /\ behind[1] = Space
    <3>1. o + l + 1 \in DOMAIN header /\ 1 \in 1..b
      BY <1>10, <2>2
    <3>2. header[o + l + 1] = Space
      BY <1>8, <1>9, <1>10, <2>2, <3>1
    <3> QED BY <3>1, <3>2 DEF At
  <2> QED BY <1>5, <1>9, <2>1, <2>2
<1>14. Carries(o, R)
  <2>1. o + l <= Len(header)
    BY <1>10
  <2> QED BY <1>4, <1>9, <1>11, <1>12, <1>13, <2>1 DEF Carries
<1> QED BY <1>2, <1>3, <1>8, <1>14

\* None of the first k cookies is that of the session.
NoneOf(k) == \A l \in 1..k : jar[l].name # session_cookie_name

\* How far the iterator is on its way over the cookies of the jar.
Reached(vs) ==
  /\ lookup = "searching" =>
       \E k \in 1..Len(jar) : next = vs[k].value[2] /\ NoneOf(k)
  /\ lookup = "found" =>
       \E k \in 1..Len(jar) :
         jar[k].name = session_cookie_name /\ NoneOf(k - 1) /\ val = vs[k]
  /\ lookup = "requires_auth" => NoneOf(Len(jar))

\* The inductive invariant behind SessionIdReturns.
JarInv ==
  /\ header \in Seq(Nat)
  /\ lookup \in {"begin", "searching", "found", "requires_auth"}
  /\ jar # << >> => IsJar(jar) /\ \E vs : Laid(vs) /\ Reached(vs)

\* Neither the header nor the jar changes.
LEMMA JarNext ==
  ASSUME header' = header, jar' = jar
  PROVE  /\ \A vs : Laid(vs)' <=> Laid(vs)
         /\ \A k : NoneOf(k)' <=> NoneOf(k)
         /\ IsJar(jar)' <=> IsJar(jar)
<1>1. \A a : At(a)' = At(a)
  BY DEF At
<1>2. End' = End
  BY DEF End
<1>3. \A v : TextOf(v)' = TextOf(v)
  BY DEF TextOf
<1>4. \A p, a : IsPair(p, a)' <=> IsPair(p, a)
  BY <1>1 DEF IsPair
<1>5. \A a : Leads(a)' <=> Leads(a)
  BY <1>1 DEF Leads
<1>6. \A a, b : Continues(a, b)' <=> Continues(a, b)
  BY <1>1 DEF Continues
<1>7. \A p, k : IsCookie(p, k)' <=> IsCookie(p, k)
  BY <1>2, <1>3, <1>4 DEF IsCookie, PairOf
<1>8. \A vs : Laid(vs)' <=> Laid(vs)
  BY <1>1, <1>5, <1>6, <1>7 DEF Laid
<1>9. \A k : NoneOf(k)' <=> NoneOf(k)
  BY DEF NoneOf
<1>10. IsJar(jar)' <=> IsJar(jar)
  BY DEF IsJar
<1> QED BY <1>8, <1>9, <1>10

\* One cookie more that is not of the session.
LEMMA NoneOfMore ==
  ASSUME NEW k \in Nat, NoneOf(k), jar[k + 1].name # session_cookie_name
  PROVE  NoneOf(k + 1)
<1>1. \A l \in 1..(k + 1) : l \in 1..k \/ l = k + 1
  OBVIOUS
<1> QED BY <1>1 DEF NoneOf

\* What the iterator does where cookie k begins.
LEMMA ToCookie ==
  ASSUME header \in Seq(Nat), NEW vs, Laid(vs), NEW k \in 1..Len(jar),
         Len(jar) \in Nat, NoneOf(k - 1),
         increment_from(vs[k].name[1]), header' = header, jar' = jar
  PROVE  /\ lookup' \in {"searching", "found"}
         /\ Reached(vs)'
<1>1. PICK a \in 1..End, n \in 1..End, v \in 1..End :
         /\ vs[k] = PairOf(a, n, v)
         /\ IsPair(vs[k], a)
         /\ TextOf(vs[k].name) = jar[k].name
  BY DEF Laid, IsCookie
<1>2. vs[k].name[1] = a
  BY <1>1 DEF PairOf, View
<1>3. Accepts(vs[k])
  BY <1>1, <1>2, IncrementToPair
<1>4. /\ val' = vs[k] /\ next' = vs[k].value[2]
      /\ lookup' = IF jar[k].name = session_cookie_name THEN "found" ELSE "searching"
  BY <1>1, <1>3 DEF Accepts
<1>5. CASE jar[k].name = session_cookie_name
  <2>1. lookup' = "found"
    BY <1>4, <1>5
  <2>2. NoneOf(k - 1)'
    BY JarNext
  <2>3. \E q \in 1..Len(jar') :
          /\ jar'[q].name = session_cookie_name /\ NoneOf(q - 1)' /\ val' = vs[q]
    BY <1>4, <1>5, <2>2
  <2> QED BY <2>1, <2>3 DEF Reached
<1>6. CASE jar[k].name # session_cookie_name
  <2>1. lookup' = "searching"
    BY <1>4, <1>6
  <2>2. NoneOf(k)
    <3>1. k - 1 \in Nat /\ (k - 1) + 1 = k
      OBVIOUS
    <3> QED BY <1>6, <3>1, NoneOfMore
  <2>3. NoneOf(k)'
    BY <2>2, JarNext
  <2>4. \E q \in 1..Len(jar') : next' = vs[q].value[2] /\ NoneOf(q)'
    BY <1>4, <2>3
  <2> QED BY <2>1, <2>4 DEF Reached
<1> QED BY <1>4, <1>5, <1>6

\* begin() finds the first cookie of the jar.
LEMMA BeginReaches ==
  ASSUME JarInv, Begin, NEW vs, jar # << >>, Laid(vs), Len(jar) \in Nat \ {0}
  PROVE  lookup' \in {"searching", "found"} /\ Reached(vs)'
<1>1. PICK a : a = vs[1].name[1]
  OBVIOUS
<1>2. 1 \in 1..Len(jar) /\ header \in Seq(Nat)
  BY DEF JarInv
<1>3. a \in 1..End /\ a # End
  <2>1. PICK b \in 1..End, n \in 1..End, v \in 1..End :
           vs[1] = PairOf(b, n, v) /\ IsPair(vs[1], b)
    BY <1>2 DEF Laid, IsCookie
  <2>2. b = a /\ b < n
    BY <1>1, <2>1 DEF IsPair, PairOf, View
  <2> QED BY <1>2, <2>1, <2>2, EndFacts
<1>4. Skip(1, ows_chars) = a
  <2>1. 1 \in 1..End
    BY <1>2, EndFacts
  <2> QED BY <1>1, <1>2, <1>3, <2>1, SkipIs DEF Laid, Leads
<1>5. increment_from(a) /\ header' = header /\ jar' = jar
  BY <1>3, <1>4 DEF Begin
<1>6. NoneOf(1 - 1)
  BY DEF NoneOf
<1> QED BY <1>1, <1>2, <1>5, <1>6, ToCookie

\* operator++ finds the next cookie of the jar, or that there is none.
LEMMA IncrementReaches ==
  ASSUME JarInv, Increment, NEW vs, jar # << >>, Laid(vs), Reached(vs),
         Len(jar) \in Nat \ {0}
  PROVE  lookup' \in {"searching", "found", "requires_auth"} /\ Reached(vs)'
<1>1. /\ lookup = "searching" /\ header' = header /\ jar' = jar /\ header \in Seq(Nat)
      /\ IF At(next) = Semicolon /\ At(next + 1) = Space
         THEN increment_from(next + 2) ELSE reset
  BY DEF JarInv, Increment
<1>2. PICK k \in 1..Len(jar) : next = vs[k].value[2] /\ NoneOf(k)
  BY <1>1 DEF Reached
<1>3. CASE k = Len(jar)
  <2>1. At(next) # Semicolon
    BY <1>2, <1>3 DEF Laid
  <2>2. lookup' = "requires_auth"
    BY <1>1, <2>1 DEF reset
  <2>3. NoneOf(k)'
    BY <1>1, <1>2, JarNext
  <2>4. \A l \in 1..Len(jar') : jar'[l].name # session_cookie_name
    BY <1>1, <1>3, <2>3 DEF NoneOf
  <2> QED BY <2>2, <2>4 DEF Reached, NoneOf
<1>4. CASE k # Len(jar)
  <2>1. PICK q : q = k + 1
    OBVIOUS
  <2>2. q \in 2..Len(jar) /\ q \in 1..Len(jar) /\ q - 1 = k
    BY <1>4, <2>1
  <2>3. /\ vs[q].name[1] = next + 2 /\ At(next) = Semicolon /\ At(next + 1) = Space
    BY <1>2, <2>2 DEF Laid, Continues
  <2>4. increment_from(vs[q].name[1])
    BY <1>1, <2>3
  <2>5. NoneOf(q - 1)
    BY <1>2, <2>2
  <2> QED BY <1>1, <2>2, <2>4, <2>5, ToCookie
<1> QED BY <1>3, <1>4

\* A jar that is sent is laid out in the header, and nothing has been read.
LEMMA InitJar == CookieInit => JarInv
<1> SUFFICES ASSUME CookieInit PROVE JarInv
  OBVIOUS
<1>1. lookup = "begin"
  BY DEF CookieInit
<1>2. CASE jar = << >> /\ header \in Headers
  BY <1>1, <1>2, CookiesAssumption DEF JarInv
<1>3. CASE /\ jar \in Jars
           /\ \E before \in {<< >>, <<Space>>, <<Tab>>}, behind \in {<< >>, <<Space>>} :
                header = before \o Render(jar) \o behind
  <2>1. IsJar(jar)
    BY <1>3, CookiesAssumption
  <2>2. PICK before \in {<< >>, <<Space>>, <<Tab>>}, behind \in {<< >>, <<Space>>} :
          header = before \o Render(jar) \o behind
    BY <1>3
  <2>3. /\ header \in Seq(Nat)
        /\ \E r, o : IsRendered(r, jar, Len(jar)) /\ Carries(o, r[Len(jar)])
    BY <2>1, <2>2, JarHeader
  <2>4. jar # << >> => \E vs : Laid(vs)
    BY <2>1, <2>3, CarriedIsLaid
  <2>5. \A vs : Reached(vs)
    BY <1>1 DEF Reached
  <2> QED BY <1>1, <2>1, <2>3, <2>4, <2>5 DEF JarInv
<1> QED BY <1>2, <1>3 DEF CookieInit

\* Nothing is listed before begin().
LEMMA InitList == CookieInit => ListInv
<1> SUFFICES ASSUME CookieInit PROVE ListInv
  OBVIOUS
<1>1. header \in Seq(Nat)
  BY InitJar DEF JarInv
<1>2. lookup = "begin" /\ pairs = << >>
  BY DEF CookieInit
<1>3. IteratorInv
  BY <1>1, <1>2 DEF IteratorInv
<1>4. ListIsGrammar
  BY <1>2 DEF ListIsGrammar
<1> QED BY <1>3, <1>4 DEF ListInv

\* Every pair of the list is one of the grammar, and no one is left out.
THEOREM ListIsGrammarHolds == CookieSpec => []ListIsGrammar
<1>1. ListInv /\ [CookieStep]_cookieVars => ListInv'
  <2>1. ASSUME ListInv, UNCHANGED cookieVars PROVE ListInv'
    <3>1. /\ header' = header /\ next' = next /\ pairs' = pairs /\ lookup' = lookup
      BY <2>1 DEF cookieVars
    <3>2. Listed(pairs) /\ (lookup = "requires_auth" => Ends(pairs))
      BY <2>1, GrammarParts DEF ListInv
    <3>3. ListIsGrammar'
      BY <3>1, <3>2, GrammarPartsNext
    <3>4. End' = End
      BY <3>1 DEF End
    <3>5. IteratorInv'
      BY <2>1, <3>1, <3>4 DEF ListInv, IteratorInv
    <3> QED BY <3>3, <3>5 DEF ListInv
  <2> QED BY <2>1, BeginKeeps, IncrementStepKeeps DEF CookieStep
<1>2. ListInv => ListIsGrammar
  BY DEF ListInv
<1> QED BY <1>1, <1>2, InitList, PTL DEF CookieSpec

\* A step of the iterator keeps its place in the jar.
LEMMA JarInvNext == JarInv /\ [CookieStep]_cookieVars => JarInv'
<1> SUFFICES ASSUME JarInv, [CookieStep]_cookieVars PROVE JarInv'
  OBVIOUS
<1>1. header' = header /\ jar' = jar /\ header \in Seq(Nat)
  BY DEF JarInv, CookieStep, Begin, Increment, cookieVars
<1>2. lookup' \in {"begin", "searching", "found", "requires_auth"}
  BY DEF JarInv, CookieStep, Begin, Increment, cookieVars, increment_from, reset
<1>3. ASSUME jar # << >>
      PROVE  IsJar(jar)' /\ \E vs : Laid(vs)' /\ Reached(vs)'
  <2>1. PICK vs : Laid(vs) /\ Reached(vs)
    BY <1>3 DEF JarInv
  <2>2. IsJar(jar) /\ Len(jar) \in Nat \ {0}
    <3>1. jar \in Seq([name : Seq(Nat), value : Seq(Nat)])
      BY <1>3 DEF JarInv, IsJar
    <3> QED BY <1>3, <3>1 DEF JarInv
  <2>3. IsJar(jar)' /\ Laid(vs)'
    BY <1>1, <2>1, <2>2, JarNext
  <2>4. CASE Begin
    BY <1>3, <2>1, <2>2, <2>3, <2>4, BeginReaches
  <2>5. CASE Increment
    BY <1>3, <2>1, <2>2, <2>3, <2>5, IncrementReaches
  <2>6. CASE UNCHANGED cookieVars
    <3>1. Reached(vs)'
      BY <2>1, <2>6 DEF Reached, NoneOf, cookieVars
    <3> QED BY <2>3, <3>1
  <2> QED BY <2>4, <2>5, <2>6 DEF CookieStep
<1> QED BY <1>1, <1>2, <1>3 DEF JarInv

\* base64_encode() makes values of cookies: the log-in's cookie is legal.
LEMMA EncodedIsCookieValue ==
  ASSUME NEW id \in Seq(Byte), id # << >>
  PROVE  is_valid_cookie_value(base64_encode(id, TRUE))
<1>1. PICK e : e = base64_encode(id, TRUE)
  OBVIOUS
<1>2. PICK n, dc, pd :
         n = Len(id) /\ dc = DigitCount(n) /\ pd = get_padding(n)
  OBVIOUS
<1>3. /\ e \in Seq(Nat) /\ Len(e) = dc + pd
      /\ \A d \in 1..dc : e[d] \in Digit
      /\ \A d \in (dc + 1)..Len(e) : e[d] = Pad
  BY <1>1, <1>2, EncodedText
<1>4. n \in Nat /\ n >= 1
  BY <1>2
<1>5. dc \in Nat /\ dc >= 1 /\ pd \in Nat
  BY <1>2, <1>4 DEF DigitCount, get_padding
<1>6. e # << >> /\ DOMAIN e = 1..Len(e) /\ Len(e) \in Nat /\ Len(e) >= 1
  BY <1>3, <1>5
<1>7. ASSUME NEW d \in 1..Len(e) PROVE e[d] \in cookie_value_chars
  <2>1. d \in 1..dc \/ d \in (dc + 1)..Len(e)
    BY <1>5, <1>6
  <2> QED BY <1>3, <2>1 DEF cookie_value_chars
<1> QED BY <1>1, <1>6, <1>7 DEF is_valid_cookie_value

\* The session's cookie is found behind cookies of other names, and with the
\* very value that the log-in gave it.
LEMMA JarReturns == JarInv => SessionIdReturns
<1> SUFFICES ASSUME JarInv PROVE SessionIdReturns
  OBVIOUS
<1> SUFFICES ASSUME NEW id \in SessionIds
             PROVE  LET cookie == session_cookie(id)
                    IN  /\ cookie.ok
                        /\ \A k \in DOMAIN jar :
                             /\ jar[k] = [name |-> cookie.name, value |-> cookie.value]
                             /\ \A l \in 1..(k - 1) : jar[l].name # session_cookie_name
                             /\ lookup \in {"found", "requires_auth"}
                             => /\ lookup = "found"
                                /\ TextOf(val.value) = base64_encode(id, TRUE)
  BY DEF SessionIdReturns
<1>1. PICK e : e = base64_encode(id, TRUE)
  OBVIOUS
<1>2. session_cookie(id) = [ok |-> TRUE, name |-> session_cookie_name, value |-> e]
  <2>1. is_valid_cookie_value(e)
    BY <1>1, CookiesAssumption, EncodedIsCookieValue
  <2> QED BY <1>1, <2>1, CookiesAssumption DEF session_cookie, set_cookie_builder
<1>3. ASSUME NEW k \in DOMAIN jar,
             jar[k] = [name |-> session_cookie_name, value |-> e],
             \A l \in 1..(k - 1) : jar[l].name # session_cookie_name,
             lookup \in {"found", "requires_auth"}
      PROVE  lookup = "found" /\ TextOf(val.value) = e
  <2>1. jar # << >>
    OBVIOUS
  <2>2. PICK vs : Laid(vs) /\ Reached(vs)
    BY <2>1 DEF JarInv
  <2>3. PICK m \in Nat : m = Len(jar) /\ DOMAIN jar = 1..m
    <3>1. jar \in Seq([name : Seq(Nat), value : Seq(Nat)])
      BY <2>1 DEF JarInv, IsJar
    <3> QED BY <3>1
  <2>4. k \in 1..m /\ jar[k].name = session_cookie_name /\ jar[k].value = e
    BY <1>3, <2>3
  <2>5. lookup = "found"
    BY <1>3, <2>2, <2>3, <2>4 DEF Reached, NoneOf
  <2>6. PICK q \in 1..m :
           jar[q].name = session_cookie_name /\ NoneOf(q - 1) /\ val = vs[q]
    BY <2>2, <2>3, <2>5 DEF Reached
  <2>7. q = k
    <3>1. q < k => q \in 1..(k - 1)
      BY <2>4, <2>6
    <3>2. k < q => k \in 1..(q - 1)
      BY <2>4, <2>6
    <3>3. ~(q < k)
      BY <1>3, <2>6, <3>1
    <3>4. ~(k < q)
      BY <2>4, <2>6, <3>2 DEF NoneOf
    <3> QED BY <2>3, <2>4, <3>3, <3>4
  <2>8. TextOf(val.value) = jar[k].value
    BY <2>2, <2>3, <2>6, <2>7 DEF Laid, IsCookie
  <2> QED BY <2>4, <2>5, <2>8
<1>4. PICK c : c = session_cookie(id)
  OBVIOUS
<1>5. c.ok
  BY <1>2, <1>4
<1>6. c.name = session_cookie_name /\ c.value = e
  BY <1>2, <1>4
<1>7. \A k \in DOMAIN jar :
        /\ jar[k] = [name |-> c.name, value |-> c.value]
        /\ \A l \in 1..(k - 1) : jar[l].name # session_cookie_name
        /\ lookup \in {"found", "requires_auth"}
        => lookup = "found" /\ TextOf(val.value) = e
  BY <1>3, <1>6
<1> QED BY <1>1, <1>4, <1>5, <1>7

\* A log-in's cookie brings the session's id back.
THEOREM SessionIdReturnsHolds == CookieSpec => []SessionIdReturns
BY InitJar, JarInvNext, JarReturns, PTL DEF CookieSpec
-----------------------------------------------------------------------------
\* verify_password().

\* One parameter more: it gives its own name its value, and no other one.
LEMMA GivesNext ==
  ASSUME NEW ps \in Seq(ParamType), NEW n \in Nat, n < Len(ps),
         NEW name, NEW default \in Int, NEW v \in Int,
         Gives(ps, n, name, default, v)
  PROVE  Gives(ps, n + 1, name, default,
               IF ps[n + 1].name = name THEN ps[n + 1].value ELSE v)
<1>1. CASE ps[n + 1].name = name
  <2>1. n + 1 \in 1..(n + 1) /\ \A l \in (n + 2)..(n + 1) : FALSE
    OBVIOUS
  <2> QED BY <1>1, <2>1 DEF Gives
<1>2. CASE ps[n + 1].name # name /\ \E k \in 1..n :
             /\ ps[k].name = name /\ ps[k].value = v
             /\ \A l \in (k + 1)..n : ps[l].name # name
  <2>1. PICK k \in 1..n :
             /\ ps[k].name = name /\ ps[k].value = v
             /\ \A l \in (k + 1)..n : ps[l].name # name
    BY <1>2
  <2>2. k \in 1..(n + 1)
    OBVIOUS
  <2>3. \A l \in (k + 1)..(n + 1) : ps[l].name # name
    BY <1>2, <2>1
  <2> QED BY <1>2, <2>1, <2>2, <2>3 DEF Gives
<1>3. CASE ps[n + 1].name # name /\ v = default /\ \A k \in 1..n : ps[k].name # name
  <2>1. \A k \in 1..(n + 1) : ps[k].name # name
    BY <1>3
  <2> QED BY <1>3, <2>1 DEF Gives
<1> QED BY <1>1, <1>2, <1>3 DEF Gives

\* What all parameters of the string give is what it states.
LEMMA StoredFields ==
  ASSUME stored \in StoredType
  PROVE  /\ stored.params \in Seq(ParamType)
         /\ stored.hash \in HashType
         /\ stored.salt \in Salts \cup {"illegal"}
         /\ stored.dollars \in Int
BY DEF StoredType

\* The last occurrence of a parameter is what the string states.
LEMMA StatedIsGiven ==
  ASSUME stored \in StoredType, NEW name, NEW default \in Int, NEW v \in Int,
         Gives(stored.params, Len(stored.params), name, default, v)
  PROVE  Stated(name, default) = v
<1> DEFINE ps == stored.params
           places == {k \in DOMAIN ps : ps[k].name = name}
           last == CHOOSE k \in places : \A l \in places : l <= k
<1>1. ps \in Seq(ParamType) /\ DOMAIN ps = 1..Len(ps)
  BY StoredFields
<1>2. Stated(name, default) = IF places = {} THEN default ELSE ps[last].value
  BY DEF Stated
<1>3. CASE v = default /\ \A k \in 1..Len(ps) : ps[k].name # name
  BY <1>1, <1>2, <1>3
<1>4. CASE \E k \in 1..Len(ps) :
             /\ ps[k].name = name /\ ps[k].value = v
             /\ \A l \in (k + 1)..Len(ps) : ps[l].name # name
  <2>1. PICK k \in 1..Len(ps) :
             /\ ps[k].name = name /\ ps[k].value = v
             /\ \A l \in (k + 1)..Len(ps) : ps[l].name # name
    BY <1>4
  <2>2. k \in places /\ \A l \in places : l \in 1..Len(ps) /\ l <= k
    BY <1>1, <2>1
  <2>3. last \in places /\ k <= last
    BY <2>2
  <2>4. last = k
    BY <2>2, <2>3
  <2> QED BY <1>2, <2>1, <2>2, <2>4
<1> QED BY <1>3, <1>4 DEF Gives

\* A hash of the server's own, or one computed with the parameters that the
\* database was filled with.
LEMMA HashIsHash ==
  ASSUME NEW password \in Passwords, NEW salt \in Salts,
         NEW ps \in [ln : Int, r : Int, p : Int], NEW len \in Int
  PROVE  Hash(password, salt, ps, len) \in
           HashType
BY DEF Hash, HashType

\* The parameters of hash_password() are ones that the parser accepts.
LEMMA DefaultsType == default_params \in [ln : 2..max_ln, r : 1..max_r, p : {1}]
BY DEF default_params, max_ln, max_r

\* What hash_password() makes, field by field.
LEMMA OwnFields ==
  ASSUME NEW password \in Passwords, NEW salt \in Salts
  PROVE  LET own == hash_password(password, salt)
             h == Hash(password, salt, default_params, 32)
         IN  /\ own \in StoredType
             /\ own = [first |-> "$", dollars |-> 3, algorithm |-> "scrypt",
                       params |-> own.params, salt |-> salt, hash |-> h]
             /\ Len(own.params) = 3
             /\ own.params[1] = [name |-> "ln", value |-> 14]
             /\ own.params[2] = [name |-> "r", value |-> 8]
             /\ own.params[3] = [name |-> "p", value |-> 1]
<1> DEFINE ps == <<[name |-> "ln", value |-> 14], [name |-> "r", value |-> 8],
                   [name |-> "p", value |-> 1]>>
           h == Hash(password, salt, default_params, 32)
<1>1. hash_password(password, salt) =
        [first |-> "$", dollars |-> 3, algorithm |-> "scrypt",
         params |-> ps, salt |-> salt, hash |-> h]
  BY DEF hash_password, scrypt_phc_serialize, Text, default_params, hash_size
<1>2. ps \in Seq(ParamType) /\ Len(ps) = 3
  BY DEF ParamType
<1>3. h \in HashType
  BY DefaultsType, HashIsHash DEF max_ln, max_r
<1> HIDE DEF ps, h
<1>4. hash_password(password, salt) \in StoredType
  BY <1>1, <1>2, <1>3 DEF StoredType
<1> QED BY <1>1, <1>2, <1>4 DEF ps, h

\* What the database may hold has the fields of a PHC string.
LEMMA InitStored ==
  ASSUME PasswordInit
  PROVE  stored \in StoredType
<1>1. PICK password \in Passwords, salt \in Salts :
       LET own == hash_password(password, salt)
       IN  \/ stored = own
           \/ \E c \in {"", "x"} : stored = [own EXCEPT !.first = c]
           \/ \E n \in 0..4 : stored = [own EXCEPT !.dollars = n]
           \/ stored = [own EXCEPT !.algorithm = "argon2id"]
           \/ stored = [own EXCEPT !.salt = "illegal"]
           \/ stored = [own EXCEPT !.hash = IllegalHash]
           \/ \E len \in {0, hash_size - 1, hash_size + 1} :
                stored = [own EXCEPT !.hash.len = len]
           \/ \E ps \in ParamLists, made \in HashParams :
                stored = [own EXCEPT !.params = ps,
                                     !.hash = Hash(password, salt, made, hash_size)]
  BY DEF PasswordInit
<1>2. PICK own \in StoredType : own = hash_password(password, salt)
  BY OwnFields
<1>3. CASE \E c \in {"", "x"} : stored = [own EXCEPT !.first = c]
  BY <1>2, <1>3 DEF StoredType
<1>4. CASE \E n \in 0..4 : stored = [own EXCEPT !.dollars = n]
  <2>1. PICK n \in 0..4 : stored = [own EXCEPT !.dollars = n]
    BY <1>4
  <2>2. n \in Int
    OBVIOUS
  <2> QED BY <2>1, <2>2 DEF StoredType
<1>5. CASE stored = [own EXCEPT !.algorithm = "argon2id"]
  BY <1>2, <1>5 DEF StoredType
<1>6. CASE stored = [own EXCEPT !.salt = "illegal"]
  BY <1>2, <1>6 DEF StoredType
<1>7. CASE stored = [own EXCEPT !.hash = IllegalHash]
  <2>1. IllegalHash \in HashType
    BY DefaultsType DEF IllegalHash, Hash, HashType, max_ln, max_r
  <2> QED BY <1>7, <2>1 DEF StoredType
<1>8. CASE \E len \in {0, hash_size - 1, hash_size + 1} :
             stored = [own EXCEPT !.hash.len = len]
  <2>1. PICK len \in {0, hash_size - 1, hash_size + 1} :
             stored = [own EXCEPT !.hash.len = len]
    BY <1>8
  <2>2. len \in Int
    BY DEF hash_size
  <2>6. own.hash \in HashType
    BY DEF StoredType
  <2>3. PICK h : h = [own.hash EXCEPT !.len = len]
    OBVIOUS
  <2>4. h \in HashType
    BY <2>2, <2>3, <2>6 DEF HashType
  <2>5. stored = [own EXCEPT !.hash = h]
    BY <2>1, <2>3
  <2> QED BY <2>4, <2>5 DEF StoredType
<1>9. CASE \E ps \in ParamLists, made \in HashParams :
             stored = [own EXCEPT !.params = ps,
                                  !.hash = Hash(password, salt, made, hash_size)]
  <2>1. PICK ps \in ParamLists, made \in HashParams :
             stored = [own EXCEPT !.params = ps,
                                  !.hash = Hash(password, salt, made, hash_size)]
    BY <1>9
  <2>2. Hash(password, salt, made, hash_size) \in HashType
    BY HashIsHash, PasswordAssumption DEF hash_size
  <2>3. ps \in Seq(ParamType)
    <3>1. PICK n \in 1..MaxParams : ps \in [1..n -> Params]
      BY DEF ParamLists
    <3>2. Params \subseteq ParamType
      BY PasswordAssumption DEF Params, ParamType
    <3>3. n \in Nat
      BY PasswordAssumption
    <3> QED BY <3>1, <3>2, <3>3
  <2> QED BY <2>1, <2>2, <2>3 DEF StoredType
<1> QED BY <1>1, <1>2, <1>3, <1>4, <1>5, <1>6, <1>7, <1>8, <1>9

\* The invariant of verify_password() holds at the start.
LEMMA InitPassword == PasswordInit => PasswordIInv
<1> SUFFICES ASSUME PasswordInit PROVE PasswordIInv
  OBVIOUS
<1>1. stored \in StoredType
  BY InitStored
<1>2. attempt \in Passwords /\ rest = << >> /\ params = default_params /\ verified = "begin"
  BY DEF PasswordInit
<1>3. OwnHashVerifies /\ MatchMeansHashed
  BY <1>2 DEF OwnHashVerifies, MatchMeansHashed
<1> QED BY <1>1, <1>2, <1>3 DEF PasswordIInv

\* A string that is found malformed is not one that hash_password() wrote.
LEMMA MalformedKeeps ==
  ASSUME PasswordIInv, Malformed,
         \A password \in Passwords, salt \in Salts : stored # hash_password(password, salt)
  PROVE  PasswordIInv'
<1>1. /\ attempt' = attempt /\ stored' = stored /\ verified' = "malformed"
  BY DEF Malformed
<1>2. OwnHashVerifies' /\ MatchMeansHashed'
  BY <1>1 DEF OwnHashVerifies, MatchMeansHashed
<1> QED BY <1>1, <1>2 DEF PasswordIInv

\* The fields before the parameters keep the invariant.
LEMMA ParseHeadKeeps == PasswordIInv /\ ParseHead => PasswordIInv'
<1> SUFFICES ASSUME PasswordIInv, ParseHead PROVE PasswordIInv'
  OBVIOUS
<1>1. stored.params \in Seq(ParamType)
  BY StoredFields DEF PasswordIInv
<1>2. CASE /\ stored.first = "$" /\ stored.dollars >= 2 /\ stored.algorithm = "scrypt"
  <2>1. /\ verified' = "params" /\ rest' = stored.params
        /\ attempt' = attempt /\ stored' = stored /\ params' = default_params
    BY <1>2 DEF ParseHead, PasswordIInv
  <2>2. Parsed' = 0
    BY <1>1, <2>1 DEF Parsed
  <2>3. rest' = SubSeq(stored.params, 0 + 1, Len(stored.params))
    BY <1>1, <2>1
  <2>4. /\ Gives(stored.params, 0, "ln", default_params.ln, default_params.ln)
        /\ Gives(stored.params, 0, "r", default_params.r, default_params.r)
        /\ Gives(stored.params, 0, "p", default_params.p, default_params.p)
    BY DEF Gives
  <2>5. Len(stored.params) \in Nat
    BY <1>1
  <2>6. ParsedInv'
    BY <2>1, <2>2, <2>3, <2>4, <2>5, DefaultsType DEF ParsedInv
  <2>7. OwnHashVerifies' /\ MatchMeansHashed'
    BY <2>1 DEF OwnHashVerifies, MatchMeansHashed
  <2> QED BY <2>1, <2>6, <2>7 DEF PasswordIInv
<1>3. CASE ~(/\ stored.first = "$" /\ stored.dollars >= 2 /\ stored.algorithm = "scrypt")
  <2>1. \A password \in Passwords, salt \in Salts : stored # hash_password(password, salt)
    BY <1>3, OwnFields
  <2>2. Malformed
    BY <1>3 DEF ParseHead
  <2> QED BY <2>1, <2>2, MalformedKeeps
<1> QED BY <1>2, <1>3

\* So does a parameter.
LEMMA ParseParamKeeps == PasswordIInv /\ ParseParam => PasswordIInv'
<1> SUFFICES ASSUME PasswordIInv, ParseParam PROVE PasswordIInv'
  OBVIOUS
<1>1. stored.params \in Seq(ParamType)
  BY StoredFields DEF PasswordIInv
<1>2. ParsedInv /\ verified = "params" /\ rest # << >>
  BY DEF PasswordIInv, ParseParam
<1>3. PICK ps, n : ps = stored.params /\ n = Parsed
  OBVIOUS
<1>4. /\ n \in 0..Len(ps) /\ ps \in Seq(ParamType)
      /\ rest = SubSeq(ps, n + 1, Len(ps))
  BY <1>1, <1>2, <1>3 DEF ParsedInv
<1>5. n < Len(ps) /\ Len(rest) = Len(ps) - n /\ rest \in Seq(ParamType)
  BY <1>2, <1>4
<1>6. Head(rest) = ps[n + 1] /\ Tail(rest) = SubSeq(ps, n + 2, Len(ps))
  BY <1>4, <1>5
<1>7. ps[n + 1] \in ParamType
  BY <1>4, <1>5
<1>8. CASE Acceptable(Head(rest))
  <2>1. PICK param : param = ps[n + 1]
    OBVIOUS
  <2>2. PICK ln, r : /\ ln = IF param.name = "ln" THEN param.value ELSE params.ln
                     /\ r = IF param.name = "r" THEN param.value ELSE params.r
    OBVIOUS
  <2>3. /\ params' = [params EXCEPT !.ln = ln, !.r = r]
        /\ rest' = Tail(rest)
        /\ attempt' = attempt /\ stored' = stored /\ verified' = verified
    <3>1. params' = [params EXCEPT
             !.ln = IF Head(rest).name = "ln" THEN Head(rest).value ELSE params.ln,
             !.r = IF Head(rest).name = "r" THEN Head(rest).value ELSE params.r]
      BY <1>8 DEF ParseParam
    <3> QED BY <1>6, <1>8, <2>1, <2>2, <3>1 DEF ParseParam
  <2>4. params \in [ln : 2..max_ln, r : 1..max_r, p : {1}]
    BY <1>2 DEF ParsedInv
  <2>5. ln \in 2..max_ln /\ r \in 1..max_r
    BY <1>6, <1>7, <1>8, <2>1, <2>2, <2>4 DEF Acceptable
  <2>6. /\ params' \in [ln : 2..max_ln, r : 1..max_r, p : {1}]
        /\ params'.ln = ln /\ params'.r = r
    BY <2>3, <2>4, <2>5
  <2>7. Parsed' = n + 1
    <3>1. Len(Tail(rest)) = Len(ps) - (n + 1)
      BY <1>2, <1>4, <1>5
    <3>2. Parsed' = Len(ps) - Len(Tail(rest))
      BY <1>3, <2>3 DEF Parsed
    <3>3. Len(ps) \in Nat /\ n \in Nat
      BY <1>4
    <3>4. Len(ps) - (Len(ps) - (n + 1)) = n + 1
      BY <3>3
    <3> QED BY <3>1, <3>2, <3>4
  <2>8. \A k \in 1..(n + 1) : Acceptable(ps[k])
    <3>1. \A k \in 1..n : Acceptable(ps[k])
      BY <1>2, <1>3 DEF ParsedInv
    <3>2. \A k \in 1..(n + 1) : k \in 1..n \/ k = n + 1
      BY <1>4
    <3> QED BY <1>6, <1>8, <3>1, <3>2
  <2>9. /\ Gives(ps, n, "ln", default_params.ln, params.ln)
        /\ Gives(ps, n, "r", default_params.r, params.r)
        /\ Gives(ps, n, "p", default_params.p, params.p)
    BY <1>2, <1>3 DEF ParsedInv
  <2>10. /\ default_params.ln \in Int /\ default_params.r \in Int /\ default_params.p = 1
         /\ params.ln \in Int /\ params.r \in Int /\ params.p = 1
    BY <2>4, DefaultsType DEF max_ln, max_r
  <2>11. /\ Gives(ps, n + 1, "ln", default_params.ln, ln)
         /\ Gives(ps, n + 1, "r", default_params.r, r)
         /\ Gives(ps, n + 1, "p", default_params.p,
                  IF param.name = "p" THEN param.value ELSE params.p)
    BY <1>4, <1>5, <2>1, <2>2, <2>9, <2>10, GivesNext
  <2>15. params'.p = IF param.name = "p" THEN param.value ELSE params.p
    BY <1>6, <1>7, <1>8, <2>1, <2>6, <2>10 DEF Acceptable
  <2>12. n + 1 \in 0..Len(ps) /\ rest' = SubSeq(ps, (n + 1) + 1, Len(ps))
    <3>1. (n + 1) + 1 = n + 2
      BY <1>4
    <3>2. n + 1 \in 0..Len(ps)
      BY <1>4, <1>5
    <3>3. rest' = SubSeq(ps, (n + 1) + 1, Len(ps))
      BY <1>6, <2>3, <3>1
    <3> QED BY <3>2, <3>3
  <2>13. ParsedInv'
    BY <1>3, <2>3, <2>6, <2>7, <2>8, <2>11, <2>12, <2>15 DEF ParsedInv
  <2>14. OwnHashVerifies' /\ MatchMeansHashed'
    BY <1>2, <2>3 DEF OwnHashVerifies, MatchMeansHashed
  <2> QED BY <1>2, <2>3, <2>13, <2>14 DEF PasswordIInv
<1>9. CASE ~Acceptable(Head(rest))
  <2>1. ASSUME NEW password \in Passwords, NEW salt \in Salts,
               stored = hash_password(password, salt)
        PROVE  FALSE
    <3>1. /\ Len(ps) = 3 /\ ps[1] = [name |-> "ln", value |-> 14]
          /\ ps[2] = [name |-> "r", value |-> 8] /\ ps[3] = [name |-> "p", value |-> 1]
      BY <1>3, <2>1, OwnFields
    <3>2. n + 1 \in {1, 2, 3}
      BY <1>4, <1>5, <3>1
    <3> QED BY <1>6, <1>9, <3>1, <3>2 DEF Acceptable, NoEquals, max_ln, max_r
  <2>2. Malformed
    BY <1>9 DEF ParseParam
  <2> QED BY <2>1, <2>2, MalformedKeeps
<1> QED BY <1>8, <1>9

\* Hashes are equal as far as they go, and equally long: they are the same.
LEMMA EqualHashes ==
  ASSUME NEW h1 \in HashType, NEW h2 \in HashType, h2.len # 0
  PROVE  time_safe_equals(h1, h2) <=> h1 = h2
<1>1. ASSUME h1.len = h2.len, [h1 EXCEPT !.len = 0] = [h2 EXCEPT !.len = 0]
      PROVE  h1 = h2
  <2>1. PICK g1, g2 : g1 = [h1 EXCEPT !.len = 0] /\ g2 = [h2 EXCEPT !.len = 0]
    OBVIOUS
  <2>2. /\ g1.password = h1.password /\ g1.salt = h1.salt /\ g1.ln = h1.ln /\ g1.r = h1.r
        /\ g2.password = h2.password /\ g2.salt = h2.salt /\ g2.ln = h2.ln /\ g2.r = h2.r
    BY <2>1 DEF HashType
  <2>3. /\ h1 = [password |-> h1.password, salt |-> h1.salt, ln |-> h1.ln, r |-> h1.r,
                 len |-> h1.len]
        /\ h2 = [password |-> h2.password, salt |-> h2.salt, ln |-> h2.ln, r |-> h2.r,
                 len |-> h2.len]
    BY DEF HashType
  <2> QED BY <1>1, <2>1, <2>2, <2>3
<1> QED BY <1>1 DEF time_safe_equals

\* The parameters of hash_password() are affordable.
LEMMA DefaultsComputable ==
  ASSUME NEW ps \in [ln : 2..max_ln, r : 1..max_r, p : {1}],
         ps.ln = default_params.ln, ps.r = default_params.r
  PROVE  Computable(ps)
<1>1. ps.ln = 14 /\ ps.r = 8 /\ ps.p = 1
  BY DEF default_params
<1>2. 2 ^ 14 = 16384 /\ 2 ^ 20 = 1048576
  OBVIOUS
<1> QED BY <1>1, <1>2 DEF Computable

\* So does the comparison of the hashes.
LEMMA VerifyKeeps == PasswordIInv /\ Verify => PasswordIInv'
<1> SUFFICES ASSUME PasswordIInv, Verify PROVE PasswordIInv'
  OBVIOUS
<1>1. /\ stored.params \in Seq(ParamType) /\ stored.hash \in HashType
      /\ stored.salt \in Salts \cup {"illegal"}
  BY StoredFields DEF PasswordIInv
<1>2. ParsedInv /\ verified = "params" /\ rest = << >> /\ attempt \in Passwords
  BY DEF PasswordIInv, Verify
<1>3. Parsed = Len(stored.params)
  BY <1>1, <1>2 DEF Parsed
<1>4. /\ params \in [ln : 2..max_ln, r : 1..max_r, p : {1}]
      /\ \A k \in 1..Len(stored.params) : Acceptable(stored.params[k])
      /\ Gives(stored.params, Len(stored.params), "ln", default_params.ln, params.ln)
      /\ Gives(stored.params, Len(stored.params), "r", default_params.r, params.r)
      /\ Gives(stored.params, Len(stored.params), "p", default_params.p, params.p)
  BY <1>2, <1>3 DEF ParsedInv
<1>5. /\ default_params.ln \in Int /\ default_params.r \in Int
      /\ params.ln \in Int /\ params.r \in Int
  BY <1>4, DefaultsType DEF max_ln, max_r
<1>6. stored \in StoredType
  BY DEF PasswordIInv
<1>7. ASSUME NEW password \in Passwords, NEW salt \in Salts,
             stored = hash_password(password, salt)
      PROVE  /\ stored.dollars = 3 /\ stored.salt = salt /\ stored.salt # "illegal"
             /\ stored.hash = Hash(password, salt, default_params, hash_size)
             /\ stored.hash # IllegalHash
             /\ params.ln = default_params.ln /\ params.r = default_params.r
  <2>1. /\ stored.dollars = 3 /\ stored.salt = salt
        /\ stored.hash = Hash(password, salt, default_params, 32)
    BY <1>7, OwnFields
  <2>2. salt # "illegal"
    BY PasswordAssumption
  <2>3. stored.hash.len = 32 /\ IllegalHash.len = 0
    BY <2>1 DEF Hash, IllegalHash
  <2>4. PICK ps : ps = stored.params
    OBVIOUS
  <2>5. /\ Len(ps) = 3 /\ ps[1] = [name |-> "ln", value |-> 14]
        /\ ps[2] = [name |-> "r", value |-> 8] /\ ps[3] = [name |-> "p", value |-> 1]
    BY <1>7, <2>4, OwnFields
  <2>6. /\ Gives(ps, 3, "ln", default_params.ln, params.ln)
        /\ Gives(ps, 3, "r", default_params.r, params.r)
    BY <1>4, <2>4, <2>5
  <2>7. \A k \in 1..3 : k = 1 \/ k = 2 \/ k = 3
    OBVIOUS
  <2>8. params.ln = 14 /\ params.r = 8
    BY <2>5, <2>6, <2>7 DEF Gives
  <2> QED BY <2>1, <2>2, <2>3, <2>8 DEF default_params, hash_size
<1>8. CASE /\ stored.dollars = 3 /\ stored.salt # "illegal" /\ stored.hash # IllegalHash
  <2>1. PICK h : h = Hash(attempt, stored.salt, params, hash_size)
    OBVIOUS
  <2>2. h \in HashType /\ h.len = 32
    <3>1. h = [password |-> attempt, salt |-> stored.salt, ln |-> params.ln,
               r |-> params.r, len |-> 32]
      BY <2>1 DEF Hash, hash_size
    <3>2. attempt \in Passwords \cup {""} /\ stored.salt \in Salts \cup {"illegal"}
      BY <1>1, <1>2
    <3>3. params.ln \in Int /\ params.r \in Int /\ 32 \in Int
      BY <1>5
    <3>4. h \in HashType
      BY <3>1, <3>2, <3>3 DEF HashType
    <3> QED BY <3>1, <3>4
  <2>3. time_safe_equals(stored.hash, h) <=> stored.hash = h
    BY <1>1, <2>2, EqualHashes
  <2>4. /\ attempt' = attempt /\ stored' = stored /\ rest' = rest /\ params' = params
        /\ verified' = IF ~Computable(params) THEN "throws"
                       ELSE IF stored.hash = h THEN "match" ELSE "differs"
    BY <1>8, <2>1, <2>3 DEF Verify
  <2>5. OwnHashVerifies'
    <3>1. ASSUME NEW password \in Passwords, NEW salt \in Salts,
                 stored = hash_password(password, salt)
          PROVE  verified' = IF attempt = password THEN "match" ELSE "differs"
      <4>1. /\ stored.salt = salt
            /\ stored.hash = Hash(password, salt, default_params, hash_size)
            /\ params.ln = default_params.ln /\ params.r = default_params.r
        BY <1>7, <3>1
      <4>2. Computable(params)
        BY <1>4, <4>1, DefaultsComputable
      <4>3. stored.hash = h <=> attempt = password
        BY <2>1, <4>1 DEF Hash
      <4> QED BY <2>4, <4>2, <4>3
    <3> QED BY <2>4, <3>1 DEF OwnHashVerifies
  <2>6. MatchMeansHashed'
    <3>1. SUFFICES ASSUME stored.hash = h
          PROVE  MatchMeansHashed'
      BY <2>4 DEF MatchMeansHashed
    <3>2. /\ Stated("ln", default_params.ln) = params.ln
          /\ Stated("r", default_params.r) = params.r
      BY <1>4, <1>5, <1>6, StatedIsGiven
    <3>3. Hash(attempt, stored.salt, [ln |-> params.ln, r |-> params.r], hash_size) = h
      BY <2>1 DEF Hash
    <3>4. Stated("p", 1) = 1
      <4>1. default_params.p = 1 /\ params.p = 1
        BY <1>4 DEF default_params
      <4> QED BY <1>4, <1>6, <4>1, StatedIsGiven
    <3>5. /\ Stated("ln", default_params.ln)' = Stated("ln", default_params.ln)
          /\ Stated("r", default_params.r)' = Stated("r", default_params.r)
          /\ Stated("p", 1)' = Stated("p", 1)
      BY <2>4 DEF Stated
    <3>6. params.ln \in 2..max_ln /\ params.r \in 1..max_r
      BY <1>4
    <3> QED BY <2>4, <3>1, <3>2, <3>3, <3>4, <3>5, <3>6 DEF MatchMeansHashed
  <2> QED BY <1>2, <2>4, <2>5, <2>6 DEF PasswordIInv
<1>9. CASE ~(/\ stored.dollars = 3 /\ stored.salt # "illegal" /\ stored.hash # IllegalHash)
  <2>1. \A password \in Passwords, salt \in Salts : stored # hash_password(password, salt)
    BY <1>7, <1>9
  <2>2. Malformed
    BY <1>9 DEF Verify
  <2> QED BY <2>1, <2>2, MalformedKeeps
<1> QED BY <1>8, <1>9

\* The inductive invariant holds in every reachable state.
THEOREM PasswordIInvHolds == PasswordSpec => []PasswordIInv
<1>1. PasswordIInv /\ [PasswordStep]_passwordVars => PasswordIInv'
  <2>1. PasswordIInv /\ UNCHANGED passwordVars => PasswordIInv'
    <3> SUFFICES ASSUME PasswordIInv, UNCHANGED passwordVars PROVE PasswordIInv'
      OBVIOUS
    <3>1. /\ attempt' = attempt /\ stored' = stored /\ rest' = rest
          /\ params' = params /\ verified' = verified
      BY DEF passwordVars
    <3>2. Parsed' = Parsed
      BY <3>1 DEF Parsed
    <3>3. ParsedInv' <=> ParsedInv
      BY <3>1, <3>2 DEF ParsedInv
    <3>4. OwnHashVerifies' <=> OwnHashVerifies
      BY <3>1 DEF OwnHashVerifies
    <3>5. MatchMeansHashed' <=> MatchMeansHashed
      BY <3>1 DEF MatchMeansHashed, Stated
    <3> QED BY <3>1, <3>3, <3>4, <3>5 DEF PasswordIInv
  <2> QED BY <2>1, ParseHeadKeeps, ParseParamKeeps, VerifyKeeps DEF PasswordStep
<1> QED BY <1>1, InitPassword, PTL DEF PasswordSpec

\* An account is opened by its own password and by no other.
THEOREM OwnHashVerifiesHolds == PasswordSpec => []OwnHashVerifies
<1>1. PasswordIInv => OwnHashVerifies
  BY DEF PasswordIInv
<1> QED BY <1>1, PasswordIInvHolds, PTL

\* A match is one of the whole hash, under the parameters the string states.
THEOREM MatchMeansHashedHolds == PasswordSpec => []MatchMeansHashed
<1>1. PasswordIInv => MatchMeansHashed
  BY DEF PasswordIInv
<1> QED BY <1>1, PasswordIInvHolds, PTL
=============================================================================
