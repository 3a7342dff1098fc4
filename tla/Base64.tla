-------------------------------- MODULE Base64 --------------------------------
(***************************************************************************)
(* base64_decode(): a cursor over a text, four digits at a time, into a    *)
(* buffer whose size was computed from the length of the text.  The text   *)
(* may be any bytes.                                                       *)
(*                                                                         *)
(* A character's digit is looked up with the character as a plain char.    *)
(* Where char is signed, one from 0x80 on becomes an index beyond the      *)
(* table, and what is found in the memory there stands for a digit.        *)
(***************************************************************************)
EXTENDS Base64Ops

CONSTANTS
  Texts,    \* what is decoded
  Messages, \* byte strings whose encodings are decoded as well
  wide_tab  \* what inverse[] gives for Wide: the -1 of inverse_tab[] where char
            \* is unsigned, and whatever the build put beyond it where it is signed

ASSUME Base64Assumption ==
  /\ Texts \subseteq Seq(Byte)
  /\ Messages \subseteq Seq(Byte)
  /\ wide_tab \in [Wide -> (-128)..127]

VARIABLES
  source,  \* the message that the input is the encoding of, if any
  text,    \* the input
  padded,  \* with_padding
  src,     \* how many characters have been consumed
  c4,      \* the digits of the current group; older ones behind them
  i,       \* how many of them are of the current group
  out,     \* what has been written to the buffer
  decoded  \* "running", or how the function returned

decodeVars == <<source, text, padded, src, c4, i, out, decoded>>

DecodeInit ==
  /\ padded \in BOOLEAN
  /\ \/ source = << >> /\ text \in Texts
     \/ \E m \in Messages : source = <<m>> /\ text = base64_encode(m, padded)
  /\ src = 0
  /\ c4 = <<0, 0, 0, 0>>
  /\ i = 0
  /\ out = << >>
  /\ decoded = "running"
-----------------------------------------------------------------------------
\* The digit of a character, -1 if it has none.
inverse(c) ==
  IF c \in Digit THEN c ELSE IF c \in Wide THEN wide_tab[c] ELSE -1

\* The loop goes on up to the end or to the first '='.
AtDigits == src < Len(text) /\ text[src + 1] # Pad

\* One digit, kept as an unsigned char; with the fourth the group becomes three
\* bytes.
ReadDigit ==
  /\ decoded = "running"
  /\ AtDigits
  /\ inverse(text[src + 1]) # -1
  /\ src' = src + 1
  /\ c4' = [c4 EXCEPT ![i + 1] = inverse(text[src + 1]) % 256]
  /\ IF i + 1 = 4 THEN i' = 0 /\ out' = out \o Bytes(c4')
                  ELSE i' = i + 1 /\ UNCHANGED out
  /\ UNCHANGED <<source, text, padded, decoded>>

\* No digit was found.
ReadOther ==
  /\ decoded = "running"
  /\ AtDigits
  /\ inverse(text[src + 1]) = -1
  /\ decoded' = "invalid"
  /\ UNCHANGED <<source, text, padded, src, c4, i, out>>

\* Mutants: a byte too many is taken from the last group; what follows the
\* padding is not looked at.
FinishWithAllBytes ==
  /\ decoded = "running"
  /\ ~AtDigits
  /\ out' = out \o SubSeq(Bytes(c4), 1, i)
  /\ decoded' =
       LET padding == IF padded THEN get_padding(Len(out')) ELSE 0
       IN  IF /\ src + padding = Len(text)
              /\ \A d \in (src + 1)..Len(text) : text[d] = Pad
           THEN "ok" ELSE "invalid"
  /\ UNCHANGED <<source, text, padded, src, c4, i>>

FinishBeforeTheEnd ==
  /\ decoded = "running"
  /\ ~AtDigits
  /\ out' = out \o SubSeq(Bytes(c4), 1, i - 1)
  /\ decoded' =
       LET padding == IF padded THEN get_padding(Len(out')) ELSE 0
       IN  IF /\ src + padding <= Len(text)
              /\ \A d \in (src + 1)..(src + padding) : text[d] = Pad
           THEN "ok" ELSE "invalid"
  /\ UNCHANGED <<source, text, padded, src, c4, i>>

\* The bytes of a group that is not full, then the padding, which has to be
\* what the number of bytes asks for, with nothing behind it.
Finish ==
  /\ decoded = "running"
  /\ ~AtDigits
  /\ out' = out \o SubSeq(Bytes(c4), 1, i - 1)
  /\ decoded' =
       LET padding == IF padded THEN get_padding(Len(out')) ELSE 0
       IN  IF /\ src + padding = Len(text)
              /\ \A d \in (src + 1)..Len(text) : text[d] = Pad
           THEN "ok" ELSE "invalid"
  /\ UNCHANGED <<source, text, padded, src, c4, i>>

DecodeStep == ReadDigit \/ ReadOther \/ Finish

DecodeSpec == DecodeInit /\ [][DecodeStep]_decodeVars
-----------------------------------------------------------------------------
\* Nothing is written behind the end of the buffer, whatever the text and
\* whatever its bytes from 0x80 on are taken for; the digits of an unfinished
\* group, and the stale ones behind them, included.
WritesFit == Len(out) <= decoded_size(Len(text))

\* What base64_encode() wrote is read back as it was: session ids, salts and
\* hashes survive.
RoundTrip ==
  source # << >> /\ decoded # "running" =>
    decoded = "ok" /\ out = source[1]

\* A text of ASCII that is accepted is the encoding of what it is decoded to,
\* but for the bits of its last digit that stand for nothing: six of them when a
\* digit is left over, which is not an error.  Of a text with bytes from 0x80 on
\* nothing of the kind holds where char is signed.
IsAscii(t) == \A d \in DOMAIN t : t[d] \notin Wide

UnusedBits(n) == CASE n % 4 = 0 -> 1 [] n % 4 = 1 -> 64
                   [] n % 4 = 2 -> 16 [] n % 4 = 3 -> 4

AcceptedIsEncoding ==
  decoded = "ok" /\ IsAscii(text) =>
    LET e == base64_encode(out, padded)
    IN  /\ Len(text) = Len(e) + IF src % 4 = 1 THEN 1 ELSE 0
        /\ \A d \in 1..Len(text) :
             IF d = src
             THEN src % 4 = 1 \/ text[d] \div UnusedBits(src) = e[d] \div UnusedBits(src)
             ELSE text[d] = e[d]

\* What the digits of the text are taken for, and byte j of what such digits
\* stand for.
Taken == [d \in 1..Len(text) |-> inverse(text[d]) % 256]

ByteOf(t, j) ==
  LET g == 4 * ((j - 1) \div 3)
  IN  CASE j % 3 = 1 -> (4 * t[g + 1] + (t[g + 2] % 64) \div 16) % 256
        [] j % 3 = 2 -> 16 * (t[g + 2] % 16) + (t[g + 3] % 64) \div 4
        [] j % 3 = 0 -> (64 * (t[g + 3] % 4) + t[g + 4]) % 256

\* The inductive invariant: where the cursor is tells what has been written,
\* and the buffer holds the bytes of what the text was taken for and no stale
\* ones.
DecodeIInv ==
  /\ \/ source = << >>
     \/ \E m \in Messages : source = <<m>> /\ text = base64_encode(m, padded)
  /\ padded \in BOOLEAN
  /\ text \in Seq(Byte)
  /\ decoded \in {"running", "ok", "invalid"}
  /\ src \in 0..Len(text)
  /\ i = src % 4
  /\ c4 \in [1..4 -> Byte]
  /\ out \in Seq(Byte)
  /\ \A d \in 1..src : inverse(text[d]) # -1
  /\ \A d \in 1..i : c4[d] = Taken[src - i + d]
  /\ \/ Len(out) = 3 * (src \div 4)
     \/ decoded # "running" /\ i > 0 /\ Len(out) = 3 * (src \div 4) + i - 1
  /\ \A j \in 1..Len(out) : out[j] = ByteOf(Taken, j)
  /\ decoded = "ok" =>
       /\ Len(out) = IF i > 0 THEN 3 * (src \div 4) + i - 1 ELSE 3 * (src \div 4)
       /\ Len(text) = src + IF padded THEN get_padding(Len(out)) ELSE 0
       /\ \A d \in (src + 1)..Len(text) : text[d] = Pad
=============================================================================
