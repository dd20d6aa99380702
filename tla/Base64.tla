------------------------------- MODULE Base64 -------------------------------
(***************************************************************************)
(* utils_base64_encode and utils_base64_decode.  A character is its place  *)
(* in the table; `Pad` is the equals sign, a greater number any character  *)
(* outside the table.                                                      *)
(***************************************************************************)
EXTENDS Integers, Sequences, SequencesExt

Octets == 0..255
Pad == 64

EncodedLength(n) == 4 * ((n + 2) \div 3)

OctetAt(octets, i) == IF i <= Len(octets) THEN octets[i] ELSE 0

(* Mutant: the last characters are padded as if octets came in pairs.      *)
CharacterPaired(octets, g, j) ==
    LET a == OctetAt(octets, 3 * g + 1)
        b == OctetAt(octets, 3 * g + 2)
        c == OctetAt(octets, 3 * g + 3)
    IN  CASE j = 1 -> a \div 4
          [] j = 2 -> 16 * (a % 4) + b \div 16
          [] j = 3 -> IF 3 * g + 3 <= Len(octets)
                      THEN 4 * (b % 16) + c \div 64 ELSE Pad
          [] j = 4 -> IF 3 * g + 3 <= Len(octets) THEN c % 64 ELSE Pad

(* The j-th of the four characters of the g-th three octets, from zero;    *)
(* what is missing of the last three counts as zero, and is padded.        *)
Character(octets, g, j) ==
    LET a == OctetAt(octets, 3 * g + 1)
        b == OctetAt(octets, 3 * g + 2)
        c == OctetAt(octets, 3 * g + 3)
    IN  CASE j = 1 -> a \div 4
          [] j = 2 -> 16 * (a % 4) + b \div 16
          [] j = 3 -> IF 3 * g + 2 <= Len(octets)
                      THEN 4 * (b % 16) + c \div 64 ELSE Pad
          [] j = 4 -> IF 3 * g + 3 <= Len(octets) THEN c % 64 ELSE Pad

Encode(octets) ==
    [k \in 1..EncodedLength(Len(octets)) |->
        Character(octets, (k - 1) \div 4, 1 + ((k - 1) % 4))]

(* The octets of the four characters that follow the first `i` of a text.  *)
DecodedGroup(text, i) ==
    LET a == text[i + 1]
        b == text[i + 2]
        c == IF text[i + 3] = Pad THEN 0 ELSE text[i + 3]
        d == text[i + 4]
        first  == 4 * a + b \div 16
        second == 16 * (b % 16) + c \div 4
        third  == 64 * (c % 4) + d
    IN  IF text[i + 3] # Pad
        THEN IF d # Pad THEN <<first, second, third>> ELSE <<first, second>>
        ELSE IF d # Pad THEN <<first, third>> ELSE <<first>>

(* What the decoder refuses: a length that is not a multiple of four, too  *)
(* small a buffer, and characters outside the table.                       *)
Decodable(text, capacity) ==
    LET n       == Len(text)
        padding == (IF n >= 1 /\ text[n] = Pad THEN 1 ELSE 0)
                   + (IF n >= 2 /\ text[n - 1] = Pad THEN 1 ELSE 0)
    IN  /\ n % 4 = 0
        /\ 3 * (n \div 4) - padding <= capacity
        /\ \A k \in 1..n :
               text[k] < Pad \/ (text[k] = Pad /\ k % 4 \in {3, 0})

Decode(text) ==
    FlattenSeq([g \in 1..(Len(text) \div 4) |-> DecodedGroup(text, 4 * g - 4)])
=============================================================================
