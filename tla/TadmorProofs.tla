---------------------------- MODULE TadmorProofs ----------------------------
(***************************************************************************)
(* For outputs of every length and every limit on messages: what the       *)
(* encoder writes the decoder reads, whole; and an output that passes the  *)
(* test of respond_stdio fits in the buffers and in the message it is      *)
(* written to, from which it can be decoded.                               *)
(***************************************************************************)
EXTENDS Tadmor, FiniteSetTheorems, SequenceTheorems, WellFoundedInduction,
        TLAPS

-----------------------------------------------------------------------------
(* Base64, a group of three octets at a time                               *)

Groups(octets) == 0..((Len(octets) + 2) \div 3 - 1)

(* The octets of a group: three, or what is left for the last one.         *)
GroupOf(octets, g) ==
    LET left == Len(octets) - 3 * g
    IN  [i \in 1..(IF left < 3 THEN left ELSE 3) |-> octets[3 * g + i]]

(* The four characters of a group are those of its octets.                *)
LEMMA GroupCharacters ==
    ASSUME NEW octets \in Seq(Octets), NEW g \in Groups(octets), NEW j \in 1..4
    PROVE  Encode(octets)[4 * g + j] = Character(octets, g, j)
<1>1. /\ g \in Nat /\ Len(octets) \in Nat
      /\ 4 * g + j \in 1..EncodedLength(Len(octets))
  BY DEF Groups, EncodedLength
<1>2. (4 * g + j - 1) \div 4 = g /\ 1 + ((4 * g + j - 1) % 4) = j
  BY <1>1
<1> QED
  BY <1>1, <1>2 DEF Encode

(* The arithmetic: six bits of each character make up the octets again.    *)
LEMMA Bits ==
    ASSUME NEW a \in Octets, NEW b \in Octets, NEW c \in Octets
    PROVE  /\ 4 * (a \div 4) + (16 * (a % 4) + b \div 16) \div 16 = a
           /\ 16 * ((16 * (a % 4) + b \div 16) % 16)
                  + (4 * (b % 16) + c \div 64) \div 4 = b
           /\ 64 * ((4 * (b % 16) + c \div 64) % 4) + (c % 64) = c
           /\ 4 * (b % 16) + c \div 64 # Pad /\ c % 64 # Pad
<1>1. /\ a \in Int /\ 0 <= a /\ a <= 255
      /\ b \in Int /\ 0 <= b /\ b <= 255
      /\ c \in Int /\ 0 <= c /\ c <= 255
  BY DEF Octets
<1> QED
  BY <1>1 DEF Pad

(* utils_base64_decode of what utils_base64_encode wrote gives the octets  *)
(* of each group of an output of any length, the padded last one included. *)
THEOREM GroupIsDecoded ==
    ASSUME NEW octets \in Seq(Octets), NEW g \in Groups(octets)
    PROVE  DecodedGroup(Encode(octets), 4 * g) = GroupOf(octets, g)
<1> DEFINE n == Len(octets)
           t == Encode(octets)
           a == OctetAt(octets, 3 * g + 1)
           b == OctetAt(octets, 3 * g + 2)
           c == OctetAt(octets, 3 * g + 3)
<1>1. n \in Nat /\ g \in Nat /\ 3 * g + 1 <= n
  BY DEF Groups
<1>2. /\ a \in Octets /\ b \in Octets /\ c \in Octets
      /\ a = octets[3 * g + 1]
      /\ 3 * g + 2 <= n => b = octets[3 * g + 2]
      /\ 3 * g + 3 <= n => c = octets[3 * g + 3]
      /\ 3 * g + 2 > n => b = 0
      /\ 3 * g + 3 > n => c = 0
  <2>1. 0 \in Octets
    BY DEF Octets
  <2>2. \A i \in 1..n : octets[i] \in Octets
    OBVIOUS
  <2> QED
    BY <1>1, <2>1, <2>2 DEF OctetAt
<1>3. /\ t[4 * g + 1] = a \div 4
      /\ t[4 * g + 2] = 16 * (a % 4) + b \div 16
      /\ t[4 * g + 3] = IF 3 * g + 2 <= n
                        THEN 4 * (b % 16) + c \div 64 ELSE Pad
      /\ t[4 * g + 4] = IF 3 * g + 3 <= n THEN c % 64 ELSE Pad
  BY GroupCharacters DEF Character
<1> HIDE DEF n, t, a, b, c
<1>4. CASE 3 * g + 3 <= n
  <2>1. DecodedGroup(t, 4 * g) = <<a, b, c>>
    BY <1>1, <1>2, <1>3, <1>4, Bits, SMTT(20) DEF DecodedGroup
  <2>2. GroupOf(octets, g) = <<a, b, c>>
    BY <1>1, <1>2, <1>4, SMTT(20) DEF GroupOf, n
  <2> QED
    BY <2>1, <2>2 DEF t
<1>5. CASE 3 * g + 2 = n
  <2>1. DecodedGroup(t, 4 * g) = <<a, b>>
    BY <1>1, <1>2, <1>3, <1>5, Bits DEF DecodedGroup
  <2>2. GroupOf(octets, g) = <<a, b>>
    BY <1>1, <1>2, <1>5 DEF GroupOf, n
  <2> QED
    BY <2>1, <2>2 DEF t
<1>6. CASE 3 * g + 1 = n
  <2>1. DecodedGroup(t, 4 * g) = <<a>>
    BY <1>1, <1>2, <1>3, <1>6, Bits DEF DecodedGroup
  <2>2. GroupOf(octets, g) = <<a>>
    BY <1>1, <1>2, <1>6 DEF GroupOf, n
  <2> QED
    BY <2>1, <2>2 DEF t
<1> QED
  BY <1>1, <1>4, <1>5, <1>6

-----------------------------------------------------------------------------
(* The whole output                                                        *)

(* What the concatenation of a sequence of sequences is defined by.        *)
IsFlattening(f, seqs) ==
    f = [i \in 1..Len(seqs) |-> IF i = 1 THEN seqs[i] ELSE f[i - 1] \o seqs[i]]

(* A non-empty set of naturals has a least element: the induction below is *)
(* on the least counterexample.                                            *)
LEMMA Least ==
    ASSUME NEW S \in SUBSET Nat, S # {}
    PROVE  \E x \in S : \A y \in S : x <= y
<1> DEFINE R == {ss \in Nat \X Nat : ss[1] < ss[2]}
<1>1. IsWellFoundedOn(R, Nat)
  BY NatLessThanWellFounded DEF OpToRel
<1>2. ASSUME NEW x \in Nat, NEW y \in Nat, y < x
      PROVE  <<y, x>> \in R
  <2>1. <<y, x>> \in Nat \X Nat /\ <<y, x>>[1] = y /\ <<y, x>>[2] = x
    OBVIOUS
  <2>2. <<y, x>>[1] < <<y, x>>[2]
    BY <1>2, <2>1
  <2> QED
    BY <2>1, <2>2, Zenon
<1> HIDE DEF R
<1>3. PICK x \in S : \A y \in S : <<y, x>> \notin R
  BY <1>1, WFMin
<1>4. \A y \in S : x <= y
  <2>1. \A y \in S : ~(y < x)
    BY <1>2, <1>3
  <2> QED
    BY <2>1
<1> QED
  BY <1>4

(* The concatenation is the last of any such function: there is only one.  *)
LEMMA Flattened ==
    ASSUME NEW seqs, NEW f, IsFlattening(f, seqs),
           Len(seqs) \in Nat, Len(seqs) # 0
    PROVE  FlattenSeq(seqs) = f[Len(seqs)]
<1> DEFINE n == Len(seqs)
           g == CHOOSE h : IsFlattening(h, seqs)
           Wrong == {i \in 1..n : f[i] # g[i]}
<1>1. IsFlattening(g, seqs)
  OBVIOUS
<1>2. FlattenSeq(seqs) = g[n]
  BY DEF FlattenSeq, IsFlattening
<1> HIDE DEF g
<1>3. ASSUME Wrong # {}
      PROVE  FALSE
  <2>1. PICK i \in Wrong : \A y \in Wrong : i <= y
    <3>1. Wrong \in SUBSET Nat
      OBVIOUS
    <3> QED
      BY <1>3, <3>1, Least
  <2>2. /\ f[i] = IF i = 1 THEN seqs[i] ELSE f[i - 1] \o seqs[i]
        /\ g[i] = IF i = 1 THEN seqs[i] ELSE g[i - 1] \o seqs[i]
    BY <1>1 DEF IsFlattening
  <2>3. CASE i = 1
    BY <2>2, <2>3
  <2>4. CASE i # 1
    <3>1. i - 1 \in 1..n /\ ~(i <= i - 1)
      BY <2>4
    <3>2. f[i - 1] = g[i - 1]
      BY <2>1, <3>1
    <3> QED
      BY <2>2, <2>4, <3>2
  <2> QED
    BY <2>3, <2>4
<1> QED
  BY <1>2, <1>3

(* The first octets of an output, up to the end of its g-th group.         *)
Prefix(octets, g) ==
    [i \in 1..(IF 3 * g < Len(octets) THEN 3 * g ELSE Len(octets)) |-> octets[i]]

(* A function on the first naturals with values in S is a sequence.        *)
LEMMA Listed ==
    ASSUME NEW S, NEW m \in Nat, NEW s, DOMAIN s = 1..m, s = [i \in 1..m |-> s[i]],
           \A i \in 1..m : s[i] \in S
    PROVE  s \in Seq(S) /\ Len(s) = m
<1>1. s \in [1..m -> S]
  OBVIOUS
<1> QED
  BY <1>1

(* A prefix is the one before it and the last of its groups.               *)
LEMMA LastGroup ==
    ASSUME NEW octets \in Seq(Octets), NEW N \in Nat, 3 * N <= Len(octets) + 2,
           NEW g \in 1..N, g # 1
    PROVE  \E p \in Nat, r \in Nat :
               /\ p + r <= Len(octets)
               /\ Prefix(octets, g - 1) = [i \in 1..p |-> octets[i]]
               /\ GroupOf(octets, g - 1) = [i \in 1..r |-> octets[p + i]]
               /\ Prefix(octets, g) = [i \in 1..(p + r) |-> octets[i]]
<1>1. PICK n \in Nat : n = Len(octets)
  OBVIOUS
<1>2. g \in Nat /\ g - 1 \in 1..N /\ 3 * g <= n + 2
  BY <1>1
<1>3. PICK p \in Nat : p = 3 * (g - 1) /\ p < n
  BY <1>1, <1>2
<1>4. Prefix(octets, g - 1) = [i \in 1..p |-> octets[i]]
  BY <1>1, <1>3 DEF Prefix
<1>5. CASE n - p < 3
  <2>1. PICK r \in Nat : r = n - p /\ p + r = n
    <3>1. n - p \in Nat /\ p + (n - p) = n
      BY <1>1, <1>3
    <3> QED
      BY <3>1
  <2>2. ~(3 * g < n)
    BY <1>1, <1>2, <1>3, <1>5
  <2>3. Prefix(octets, g) = [i \in 1..n |-> octets[i]]
    BY <1>1, <2>2 DEF Prefix
  <2>4. GroupOf(octets, g - 1) = [i \in 1..r |-> octets[p + i]]
    BY <1>1, <1>3, <1>5, <2>1 DEF GroupOf
  <2>5. /\ p + r <= Len(octets)
        /\ Prefix(octets, g) = [i \in 1..(p + r) |-> octets[i]]
    BY <1>1, <2>1, <2>3
  <2> QED
    BY <1>3, <1>4, <2>1, <2>4, <2>5
<1>6. CASE ~(n - p < 3)
  <2>1. p + 3 <= n /\ 3 * g = p + 3
    BY <1>1, <1>2, <1>3, <1>6
  <2>2. Prefix(octets, g) = [i \in 1..(p + 3) |-> octets[i]]
    <3>1. CASE p + 3 < n
      BY <1>1, <2>1, <3>1 DEF Prefix
    <3>2. CASE p + 3 = n
      BY <1>1, <2>1, <3>2 DEF Prefix
    <3> QED
      BY <1>1, <1>3, <2>1, <3>1, <3>2
  <2>3. GroupOf(octets, g - 1) = [i \in 1..3 |-> octets[p + i]]
    BY <1>1, <1>3, <1>6 DEF GroupOf
  <2>4. PICK r \in Nat : r = 3
    OBVIOUS
  <2>5. /\ p + r <= Len(octets)
        /\ GroupOf(octets, g - 1) = [i \in 1..r |-> octets[p + i]]
        /\ Prefix(octets, g) = [i \in 1..(p + r) |-> octets[i]]
    BY <1>1, <2>1, <2>2, <2>3, <2>4
  <2> QED
    BY <1>3, <1>4, <2>4, <2>5
<1> QED
  BY <1>5, <1>6

(* The decoder reads what the encoder wrote, for an output of any length.  *)
LEMMA Decoded ==
    ASSUME NEW octets \in Seq(Octets)
    PROVE  Decode(Encode(octets)) = octets
<1> DEFINE n == Len(octets)
           N == (n + 2) \div 3
           t == Encode(octets)
           groups == [g \in 1..N |-> DecodedGroup(t, 4 * g - 4)]
           f == [g \in 1..N |-> Prefix(octets, g)]
<1>0. \A i \in 1..n : octets[i] \in Octets
  OBVIOUS
<1>1. n \in Nat /\ N \in Nat /\ n <= 3 * N /\ 3 * N <= n + 2
      /\ octets \in [1..n -> Octets]
  OBVIOUS
<1>2. Len(t) = 4 * N
  BY <1>1 DEF Encode, EncodedLength
<1>3. Len(t) \div 4 = N
  BY <1>1, <1>2
<1>4. Decode(t) = FlattenSeq(groups) /\ Len(groups) = N
  BY <1>1, <1>3 DEF Decode
<1>5. ASSUME NEW g \in 1..N
      PROVE  groups[g] = GroupOf(octets, g - 1)
  <2>1. g - 1 \in Groups(octets) /\ 4 * g - 4 = 4 * (g - 1)
    BY <1>1 DEF Groups
  <2>2. groups[g] = DecodedGroup(t, 4 * (g - 1))
    BY <2>1
  <2> QED
    BY <2>1, <2>2, GroupIsDecoded
<1> HIDE DEF t, groups, N
<1>6. CASE N = 0
  <2>1. n = 0
    BY <1>1, <1>6
  <2>2. Len(groups) = 0 /\ groups = << >>
    BY <1>4, <1>6 DEF groups
  <2>3. FlattenSeq(groups) = groups
    BY <2>2 DEF FlattenSeq
  <2> QED
    BY <1>1, <1>4, <2>1, <2>2, <2>3 DEF t
<1>7. CASE N # 0
  <2>1. ASSUME NEW g \in 1..N
        PROVE  f[g] = IF g = 1 THEN groups[g] ELSE f[g - 1] \o groups[g]
    <3>1. f[g] = Prefix(octets, g) /\ groups[g] = GroupOf(octets, g - 1)
      BY <1>5
    <3>2. CASE g = 1
      BY <1>1, <3>1, <3>2 DEF Prefix, GroupOf
    <3>3. CASE g # 1
      <4>1. PICK p \in Nat, r \in Nat :
                /\ p + r <= n
                /\ Prefix(octets, g - 1) = [i \in 1..p |-> octets[i]]
                /\ GroupOf(octets, g - 1) = [i \in 1..r |-> octets[p + i]]
                /\ Prefix(octets, g) = [i \in 1..(p + r) |-> octets[i]]
        BY <1>1, <3>3, LastGroup
      <4>2. f[g - 1] = [i \in 1..p |-> octets[i]]
        <5>1. g - 1 \in 1..N
          BY <1>1, <3>3
        <5> QED
          BY <4>1, <5>1
      <4>3. groups[g] = [i \in 1..r |-> octets[p + i]]
        BY <3>1, <4>1
      <4>4. f[g] = [i \in 1..(p + r) |-> octets[i]]
        BY <3>1, <4>1
      <4>5. \A i \in 1..(p + r) : octets[i] \in Octets
        <5>1. \A i \in 1..(p + r) : i \in 1..n
          BY <1>1, <4>1
        <5> QED
          BY <1>0, <5>1
      <4> HIDE DEF f, n
      <4>6. f[g - 1] \in Seq(Octets) /\ Len(f[g - 1]) = p
        <5>1. /\ DOMAIN f[g - 1] = 1..p /\ f[g - 1] = [i \in 1..p |-> f[g - 1][i]]
              /\ \A i \in 1..p : f[g - 1][i] \in Octets
          BY <4>1, <4>2, <4>5
        <5>2. p \in Nat
          BY <4>1
        <5> QED
          BY <5>1, <5>2, Listed
      <4>7. groups[g] \in Seq(Octets) /\ Len(groups[g]) = r
        <5>1. /\ DOMAIN groups[g] = 1..r
              /\ groups[g] = [i \in 1..r |-> groups[g][i]]
              /\ \A i \in 1..r : groups[g][i] \in Octets
          BY <4>1, <4>3, <4>5
        <5>2. r \in Nat
          BY <4>1
        <5> QED
          BY <5>1, <5>2, Listed
      <4>8. f[g] \in Seq(Octets) /\ Len(f[g]) = p + r
        <5>1. /\ DOMAIN f[g] = 1..(p + r) /\ f[g] = [i \in 1..(p + r) |-> f[g][i]]
              /\ \A i \in 1..(p + r) : f[g][i] \in Octets
          BY <4>1, <4>4, <4>5
        <5>2. p + r \in Nat
          BY <4>1
        <5> QED
          BY <5>1, <5>2, Listed
      <4>9. /\ f[g - 1] \o groups[g] \in Seq(Octets)
            /\ Len(f[g - 1] \o groups[g]) = p + r
            /\ \A i \in 1..(p + r) :
                   (f[g - 1] \o groups[g])[i] =
                       IF i <= p THEN f[g - 1][i] ELSE groups[g][i - p]
        BY <4>6, <4>7, ConcatProperties
      <4>10. \A i \in 1..(p + r) : f[g][i] = (f[g - 1] \o groups[g])[i]
        BY <4>1, <4>2, <4>3, <4>4, <4>9
      <4>11. f[g] = f[g - 1] \o groups[g]
        BY <4>8, <4>9, <4>10, SeqEqual
      <4> QED
        BY <3>3, <4>11
    <3> QED
      BY <3>2, <3>3
  <2>2. IsFlattening(f, groups)
    <3>1. f = [g \in 1..N |-> f[g]]
      OBVIOUS
    <3> HIDE DEF f
    <3> QED
      BY <1>4, <2>1, <3>1 DEF IsFlattening
  <2>3. FlattenSeq(groups) = f[N]
    BY <1>1, <1>4, <1>7, <2>2, Flattened
  <2>4. f[N] = octets
    BY <1>1, <1>7 DEF Prefix
  <2> QED
    BY <1>4, <2>3, <2>4 DEF t
<1> QED
  BY <1>6, <1>7

(* And it finds nothing in it to refuse.                                   *)
LEMMA EncodedDecodable ==
    ASSUME NEW octets \in Seq(Octets)
    PROVE  Decodable(Encode(octets), Len(Encode(octets)))
<1> DEFINE n == Len(octets)
           t == Encode(octets)
<1>1. n \in Nat
  OBVIOUS
<1>2. PICK N \in Nat : N = (n + 2) \div 3
  BY <1>1
<1>3. Len(t) = 4 * N
  BY <1>1, <1>2 DEF Encode, EncodedLength
<1>4. ASSUME NEW k \in 1..(4 * N)
      PROVE  t[k] < Pad \/ (t[k] = Pad /\ k % 4 \in {3, 0})
  <2>1. PICK g \in Nat, j \in 1..4 : g = (k - 1) \div 4 /\ k = 4 * g + j
    <3>1. k - 1 = 4 * ((k - 1) \div 4) + ((k - 1) % 4)
          /\ (k - 1) \div 4 \in Nat /\ (k - 1) % 4 \in 0..3
      BY <1>2
    <3>2. ((k - 1) % 4) + 1 \in 1..4 /\ k = 4 * ((k - 1) \div 4) + (((k - 1) % 4) + 1)
      BY <1>2, <3>1
    <3> QED
      BY <3>1, <3>2
  <2>2. g \in Groups(octets)
    BY <1>1, <1>2, <2>1 DEF Groups
  <2>3. t[k] = Character(octets, g, j)
    BY <2>1, <2>2, GroupCharacters
  <2> DEFINE a == OctetAt(octets, 3 * g + 1)
             b == OctetAt(octets, 3 * g + 2)
             c == OctetAt(octets, 3 * g + 3)
  <2>4. a \in 0..255 /\ b \in 0..255 /\ c \in 0..255
    <3>1. \A i \in Nat \ {0} : OctetAt(octets, i) \in 0..255
      <4>1. \A i \in 1..n : octets[i] \in Octets
        OBVIOUS
      <4> QED
        BY <1>1, <4>1 DEF OctetAt, Octets
    <3>2. 3 * g + 1 \in Nat \ {0} /\ 3 * g + 2 \in Nat \ {0}
          /\ 3 * g + 3 \in Nat \ {0}
      BY <2>1
    <3> QED
      BY <3>1, <3>2
  <2>5. j \in {1, 2} => t[k] < Pad
    <3> HIDE DEF a, b, c
    <3>1. a \div 4 < 64 /\ 16 * (a % 4) + b \div 16 < 64
      BY <2>4
    <3> QED
      BY <2>3, <3>1 DEF Character, Pad, a, b, c
  <2>6. j \in {3, 4} => t[k] <= Pad
    <3> HIDE DEF a, b, c
    <3>1. 4 * (b % 16) + c \div 64 < 64 /\ c % 64 < 64
          /\ 4 * (b % 16) + c \div 64 \in Int /\ c % 64 \in Int
      BY <2>4
    <3> QED
      BY <2>3, <3>1 DEF Character, Pad, a, b, c
  <2>7. t[k] \in Int
    <3> HIDE DEF a, b, c
    <3>1. a \div 4 \in Int /\ 16 * (a % 4) + b \div 16 \in Int
          /\ 4 * (b % 16) + c \div 64 \in Int /\ c % 64 \in Int
      BY <2>4
    <3> QED
      BY <2>3, <3>1 DEF Character, Pad, a, b, c
  <2>8. j \in {3, 4} => k % 4 \in {3, 0}
    BY <2>1
  <2> QED
    BY <2>5, <2>6, <2>7, <2>8 DEF Pad
<1>5. (4 * N) % 4 = 0 /\ (4 * N) \div 4 = N
  BY <1>2
<1>6. 3 * N - 0 <= 4 * N /\ 3 * N - 1 <= 4 * N /\ 3 * N - 2 <= 4 * N
  BY <1>2
<1> HIDE DEF t
<1> QED
  BY <1>3, <1>4, <1>5, <1>6 DEF Decodable, t

-----------------------------------------------------------------------------
(* Messages with an output                                                 *)

(* The 64 octets the test sets aside are more than what comes around the   *)
(* text of the output.                                                     *)
LEMMA FitsIsEnough ==
    ASSUME NEW octets \in Seq(Octets), Fits(octets)
    PROVE  Sendable(octets)
<1>1. Len(octets) \in Nat /\ Limit \in Nat
  BY TadmorAssumption
<1>2. EncodedLength(Len(octets)) \in Int
  BY <1>1 DEF EncodedLength
<1> QED
  BY <1>1, <1>2 DEF Fits, Sendable, Header, Frame

(* The output chosen at the start is a sequence of octets.                 *)
LEMMA OutputOfOctets ==
    ASSUME Init
    PROVE  output \in Seq(Octets)
<1>1. output \in Outputs \cup {<<>>}
  BY DEF Init
<1>2. CASE output \in Outputs
  BY <1>2, TadmorAssumption
<1>3. CASE output = <<>>
  BY <1>3
<1> QED
  BY <1>1, <1>2, <1>3

OutputInv == output \in Seq(Octets) /\ OutputFits

(* OutputFits: erraid never finds out halfway that a reply has no room.    *)
THEOREM EveryOutputFits == Spec => []OutputFits
<1>1. Init => OutputInv
  <2> SUFFICES ASSUME Init PROVE OutputInv
    OBVIOUS
  <2>1. output \in Seq(Octets)
    BY OutputOfOctets
  <2>2. stage = "typed"
    BY DEF Init
  <2> QED
    BY <2>1, <2>2 DEF OutputInv, OutputFits
<1>2. OutputInv /\ [Next]_vars => OutputInv'
  <2> SUFFICES ASSUME OutputInv, [Next]_vars PROVE OutputInv'
    OBVIOUS
  <2> USE DEF OutputInv, OutputFits
  <2>1. CASE Send
    BY <2>1 DEF Send
  <2>2. CASE SendRaw
    BY <2>2 DEF SendRaw
  <2>3. CASE Create
    BY <2>3 DEF Create
  <2>4. CASE Load
    BY <2>4 DEF Load
  <2>5. CASE Answer
    BY <2>5, FitsIsEnough DEF Answer
  <2>6. CASE HandleReply
    BY <2>6 DEF HandleReply
  <2>7. CASE UNCHANGED vars
    BY <2>7 DEF vars
  <2> QED
    BY <2>1, <2>2, <2>3, <2>4, <2>5, <2>6, <2>7 DEF Next
<1>3. OutputInv => OutputFits
  BY DEF OutputInv
<1> QED
  BY <1>1, <1>2, <1>3, PTL DEF Spec

(* The reply that was written is the text of the output and its end.       *)
ReplyInv ==
    /\ output \in Seq(Octets)
    /\ stage = "answered" => text = Encode(output) \o <<EndQuote, EndBrace>>

(* ReplyCarriesOutput: whatever its octets and its length, an output can   *)
(* be decoded whole from the reply of respond_stdio.                       *)
THEOREM RepliesCarryOutputs == Spec => []ReplyCarriesOutput
<1>1. Init => ReplyInv
  <2> SUFFICES ASSUME Init PROVE ReplyInv
    OBVIOUS
  <2>1. output \in Seq(Octets)
    BY OutputOfOctets
  <2>2. stage = "typed"
    BY DEF Init
  <2> QED
    BY <2>1, <2>2 DEF ReplyInv
<1>2. ReplyInv /\ [Next]_vars => ReplyInv'
  <2> SUFFICES ASSUME ReplyInv, [Next]_vars PROVE ReplyInv'
    OBVIOUS
  <2>1. output' = output
    BY DEF Next, Send, SendRaw, Create, Load, Answer, HandleReply, vars
  <2>2. CASE Send \/ SendRaw \/ Create \/ Load \/ HandleReply
    <3>1. stage' # "answered"
      BY <2>2 DEF Send, SendRaw, Create, Load, HandleReply
    <3> QED
      BY <2>1, <3>1 DEF ReplyInv
  <2>3. CASE Answer
    BY <2>1, <2>3 DEF ReplyInv, Answer
  <2>4. CASE UNCHANGED vars
    BY <2>4 DEF ReplyInv, vars
  <2> QED
    BY <2>2, <2>3, <2>4 DEF Next
<1>3. ReplyInv => ReplyCarriesOutput
  <2> SUFFICES ASSUME ReplyInv, stage = "answered"
               PROVE  LET value == SubSeq(text, 1, Len(text) - 2)
                      IN  /\ Decodable(value, Len(value))
                          /\ Decode(value) = output
    BY DEF ReplyCarriesOutput
  <2>1. PICK octets \in Seq(Octets) : octets = output
    BY DEF ReplyInv
  <2>2. PICK n \in Nat : n = EncodedLength(Len(octets))
    BY DEF EncodedLength
  <2>3. PICK e : e = Encode(octets)
    OBVIOUS
  <2>4. e = [k \in 1..n |-> e[k]] /\ Len(e) = n /\ DOMAIN e = 1..n
    BY <2>2, <2>3 DEF Encode
  <2>5. PICK S : \A k \in 1..n : e[k] \in S
    <3>1. \A k \in 1..n : e[k] \in {e[i] : i \in 1..n}
      OBVIOUS
    <3> QED
      BY <3>1
  <2>6. PICK T : T = S \cup {EndQuote, EndBrace}
    OBVIOUS
  <2>7. e \in Seq(T) /\ <<EndQuote, EndBrace>> \in Seq(T)
    <3>1. e \in Seq(T)
      BY <2>4, <2>5, <2>6, Listed
    <3>2. <<EndQuote, EndBrace>> \in Seq(T)
      BY <2>6
    <3> QED
      BY <3>1, <3>2
  <2>8. /\ text \in Seq(T) /\ Len(text) = n + 2
        /\ \A k \in 1..n : text[k] = e[k]
    <3>1. text = e \o <<EndQuote, EndBrace>>
      BY <2>1, <2>3 DEF ReplyInv
    <3> QED
      BY <2>4, <2>7, <3>1, ConcatProperties
  <2>9. SubSeq(text, 1, Len(text) - 2) = e
    <3>1. Len(text) - 2 = n /\ \A k \in 1..n : text[k] \in T
      BY <2>2, <2>8
    <3>2. /\ SubSeq(text, 1, n) \in Seq(T) /\ Len(SubSeq(text, 1, n)) = n
          /\ \A k \in 1..n : SubSeq(text, 1, n)[k] = text[k]
      BY <2>8
    <3>3. SubSeq(text, 1, n) = e
      BY <2>4, <2>7, <2>8, <3>2, SeqEqual
    <3> QED
      BY <3>1, <3>3
  <2>10. Decodable(e, Len(e)) /\ Decode(e) = octets
    BY <2>3, EncodedDecodable, Decoded
  <2> QED
    BY <2>1, <2>9, <2>10
<1> QED
  BY <1>1, <1>2, <1>3, PTL DEF Spec

-----------------------------------------------------------------------------
(* Recursive functions and induction                                       *)

(* Induction on a rank: what holds of an element when it holds of those of *)
(* lower rank holds of all.                                                *)
Inductive(D, rank, P) ==
    /\ \A d \in D : rank[d] \in Nat
    /\ \A d \in D : (\A e \in D : rank[e] < rank[d] => e \in P) => d \in P

(* Shown by taking the least rank of an element outside P.                 *)
LEMMA RankInduction ==
    ASSUME NEW D, NEW rank, NEW P, Inductive(D, rank, P)
    PROVE  D \subseteq P
<1> USE DEF Inductive
<1> DEFINE Wrong == {d \in D : d \notin P}
           Ranks == {rank[d] : d \in Wrong}
<1>1. ASSUME Wrong # {}
      PROVE  FALSE
  <2>1. Ranks \in SUBSET Nat /\ Ranks # {}
    BY <1>1
  <2> HIDE DEF Ranks
  <2>2. PICK r \in Ranks : \A y \in Ranks : r <= y
    BY <2>1, Least
  <2>3. PICK d \in Wrong : r = rank[d]
    BY <2>2 DEF Ranks
  <2>4. ASSUME NEW e \in D, rank[e] < rank[d], e \notin P
        PROVE  FALSE
    <3>1. rank[e] \in Ranks
      BY <2>4 DEF Ranks
    <3>2. rank[d] <= rank[e] /\ rank[d] \in Nat /\ rank[e] \in Nat
      BY <2>2, <2>3, <3>1
    <3> QED
      BY <2>4, <3>2
  <2> QED
    BY <2>3, <2>4
<1> QED
  BY <1>1

(* Each value is computed from those of lower rank, and of their type.     *)
Recursive(D, X, N, rank, step) ==
    /\ X # {} /\ N \in Nat
    /\ \A d \in D : rank[d] \in 0..N
    /\ \A d \in D : \A f \in [D -> X] : step[d][f] \in X
    /\ \A d \in D : \A f \in [D -> X] : \A g \in [D -> X] :
           (\A e \in D : rank[e] < rank[d] => f[e] = g[e])
               => step[d][f] = step[d][g]

Computes(f, D, step) == \A d \in D : f[d] = step[d][f]

(* Then there is a function with these values.                             *)
LEMMA Recursion ==
    ASSUME NEW D, NEW X, NEW N, NEW rank, NEW step, Recursive(D, X, N, rank, step)
    PROVE  \E f \in [D -> X] : Computes(f, D, step)
<1> USE DEF Recursive
<1> DEFINE Upto(n) == \E f \in [D -> X] :
                          \A d \in D : rank[d] < n => f[d] = step[d][f]
           Wrong == {n \in 0..(N + 1) : ~Upto(n)}
<1>1. ASSUME Wrong # {}
      PROVE  FALSE
  <2>1. PICK n \in Wrong : \A y \in Wrong : n <= y
    <3>1. Wrong \in SUBSET Nat
      OBVIOUS
    <3> QED
      BY <1>1, <3>1, Least
  <2>2. n # 0
    <3>1. PICK x : x \in X
      OBVIOUS
    <3>2. [d \in D |-> x] \in [D -> X]
      BY <3>1
    <3>3. \A d \in D : ~(rank[d] < 0)
      OBVIOUS
    <3>4. Upto(0)
      BY <3>2, <3>3
    <3> QED
      BY <2>1, <3>4
  <2>3. PICK f \in [D -> X] : \A d \in D : rank[d] < n - 1 => f[d] = step[d][f]
    <3>1. n - 1 \in 0..(N + 1) /\ ~(n <= n - 1)
      BY <2>1, <2>2
    <3> QED
      BY <2>1, <3>1
  <2> DEFINE g == [d \in D |-> IF rank[d] = n - 1 THEN step[d][f] ELSE f[d]]
  <2>4. g \in [D -> X]
    OBVIOUS
  <2>5. ASSUME NEW d \in D, rank[d] < n
        PROVE  g[d] = step[d][g]
    <3>1. \A e \in D : rank[e] < rank[d] => f[e] = g[e]
      BY <2>1, <2>2, <2>5
    <3>2. step[d][f] = step[d][g]
      BY <2>4, <3>1
    <3>3. CASE rank[d] = n - 1
      BY <3>2, <3>3
    <3>4. CASE rank[d] < n - 1
      BY <2>3, <3>2, <3>4
    <3>5. rank[d] = n - 1 \/ rank[d] < n - 1
      <4>1. n \in Nat
        BY <2>1
      <4>2. rank[d] \in Nat
        OBVIOUS
      <4>3. \A m \in Nat : \A r \in Nat : r < m => r = m - 1 \/ r < m - 1
        OBVIOUS
      <4> QED
        BY <2>5, <4>1, <4>2, <4>3, Zenon
    <3> QED
      BY <3>3, <3>4, <3>5
  <2>6. Upto(n)
    BY <2>4, <2>5
  <2> QED
    BY <2>1, <2>6
<1>2. Upto(N + 1)
  <2>1. N + 1 \in 0..(N + 1)
    OBVIOUS
  <2> QED
    BY <1>1, <2>1
<1>3. \A d \in D : rank[d] < N + 1
  OBVIOUS
<1> QED
  BY <1>2, <1>3 DEF Computes

-----------------------------------------------------------------------------
(* What the reader of a string computes at each place                      *)

Places(t) == 1..(Len(t) + 2)
FromEnd(t) == [i \in Places(t) |-> Len(t) + 2 - i]
Results(S) == [value : Seq(S), next : Nat]

(* The same as `string` in ReadString, over any function.                  *)
StringAt(t, letters, f, i) ==
    CASE At(t, i) = "end" -> Error
      [] At(t, i) = Quote -> Read(<<>>, i + 1)
      [] At(t, i) = Backslash -> IF At(t, i + 1) \in DOMAIN letters
                                 THEN After(letters[t[i + 1]], f[i + 2])
                                 ELSE Error
      [] OTHER -> After(t[i], f[i + 1])

IsString(f, t, letters) == f = [i \in Places(t) |-> StringAt(t, letters, f, i)]
TheString(t, letters) == CHOOSE f : IsString(f, t, letters)

Letters(letters, S) ==
    /\ "end" \notin DOMAIN letters
    /\ \A c \in DOMAIN letters : letters[c] \in S

(* A place before the end is followed by a place.                          *)
LEMMA NextPlace ==
    ASSUME NEW S, NEW t \in Seq(S), NEW i \in Places(t)
    PROVE  /\ Len(t) \in Nat /\ i \in Nat /\ i >= 1 /\ i <= Len(t) + 2
           /\ FromEnd(t)[i] = Len(t) + 2 - i /\ FromEnd(t)[i] \in 0..(Len(t) + 2)
           /\ At(t, i) # "end" => i \in 1..Len(t) /\ i + 1 \in Places(t)
                                  /\ At(t, i) = t[i] /\ t[i] \in S
           /\ \A j \in Places(t) : FromEnd(t)[j] < FromEnd(t)[i] <=> i < j
<1>1. Len(t) \in Nat /\ DOMAIN t = 1..Len(t) /\ \A j \in 1..Len(t) : t[j] \in S
  OBVIOUS
<1>2. At(t, i) # "end" => i \in 1..Len(t) /\ At(t, i) = t[i]
  BY <1>1 DEF At
<1> QED
  BY <1>1, <1>2 DEF Places, FromEnd

(* What After adds an element to is a result again, and an error stays     *)
(* one.                                                                    *)
LEMMA AfterIsResult ==
    ASSUME NEW S, NEW x \in S, NEW r \in Results(S)
    PROVE  /\ After(x, r) \in Results(S)
           /\ r.next = 0 => After(x, r) = Error
           /\ r.next # 0 => After(x, r) = Read(<<x>> \o r.value, r.next)
<1>1. r.value \in Seq(S) /\ <<x>> \in Seq(S) /\ r.next \in Nat
  BY DEF Results
<1>2. <<x>> \o r.value \in Seq(S) /\ <<>> \in Seq(S)
  BY <1>1
<1>3. Error \in Results(S) /\ Read(<<x>> \o r.value, r.next) \in Results(S)
  BY <1>1, <1>2 DEF Results, Error, Read
<1> QED
  BY <1>3 DEF After

(* ReadString has a value: TheString is a function of that equation, by    *)
(* Recursion on the distance from the end.                                 *)
LEMMA StringExists ==
    ASSUME NEW S, NEW t \in Seq(S), NEW letters, Letters(letters, S)
    PROVE  IsString(TheString(t, letters), t, letters)
<1> DEFINE D == Places(t)
           X == Results(S)
           step == [i \in D |-> [f \in [D -> X] |-> StringAt(t, letters, f, i)]]
<1>1. ASSUME NEW i \in D, At(t, i) = Backslash, At(t, i + 1) \in DOMAIN letters
      PROVE  i + 2 \in D /\ At(t, i + 1) = t[i + 1]
  <2>1. At(t, i + 1) # "end" /\ At(t, i) # "end"
    BY <1>1 DEF Letters, Backslash
  <2>2. i + 1 \in D
    BY <2>1, NextPlace
  <2>3. i + 1 \in 1..Len(t) /\ Len(t) \in Nat
    BY <2>1, <2>2, NextPlace
  <2> QED
    BY <2>1, <2>2, <2>3, NextPlace DEF Places
<1>2. ASSUME NEW i \in D, NEW f \in [D -> X]
      PROVE  StringAt(t, letters, f, i) \in X
  <2>1. Error \in X /\ Read(<<>>, i + 1) \in X
    BY NextPlace DEF Results, Error, Read
  <2>2. ASSUME At(t, i) = Backslash, At(t, i + 1) \in DOMAIN letters
        PROVE  After(letters[t[i + 1]], f[i + 2]) \in X
    BY <1>1, <2>2, AfterIsResult DEF Letters
  <2>3. ASSUME At(t, i) # "end"
        PROVE  After(t[i], f[i + 1]) \in X
    BY <2>3, NextPlace, AfterIsResult
  <2> HIDE DEF X, D
  <2> QED
    BY <2>1, <2>2, <2>3 DEF StringAt
<1>3. ASSUME NEW i \in D, NEW f \in [D -> X], NEW g \in [D -> X],
             \A j \in D : FromEnd(t)[j] < FromEnd(t)[i] => f[j] = g[j]
      PROVE  StringAt(t, letters, f, i) = StringAt(t, letters, g, i)
  <2>1. i \in Nat /\ \A j \in D : i < j => f[j] = g[j]
    BY <1>3, NextPlace
  <2>2. At(t, i) # "end" => f[i + 1] = g[i + 1]
    BY <2>1, NextPlace
  <2>3. At(t, i) = Backslash /\ At(t, i + 1) \in DOMAIN letters
            => f[i + 2] = g[i + 2]
    BY <1>1, <2>1
  <2> QED
    BY <2>2, <2>3 DEF StringAt
<1>4. X # {} /\ Len(t) + 2 \in Nat
  <2>1. Error \in X
    BY DEF Results, Error
  <2>2. Len(t) \in Nat
    OBVIOUS
  <2> QED
    BY <2>1, <2>2
<1>5. \A d \in D : FromEnd(t)[d] \in 0..(Len(t) + 2)
  BY NextPlace
<1>6. \A d \in D : \A f \in [D -> X] : step[d][f] = StringAt(t, letters, f, d)
  OBVIOUS
<1>7. \A d \in D : \A f \in [D -> X] : step[d][f] \in X
  BY <1>2, <1>6
<1>8. \A d \in D : \A f \in [D -> X] : \A g \in [D -> X] :
          (\A e \in D : FromEnd(t)[e] < FromEnd(t)[d] => f[e] = g[e])
              => step[d][f] = step[d][g]
  BY <1>3, <1>6
<1> HIDE DEF D, X, step
<1>9. Recursive(D, X, Len(t) + 2, FromEnd(t), step)
  BY <1>4, <1>5, <1>8, <1>7 DEF Recursive
<1>10. PICK f \in [D -> X] : Computes(f, D, step)
  BY <1>9, Recursion
<1>11. IsString(f, t, letters)
  BY <1>6, <1>10 DEF IsString, Computes, D
<1> QED
  BY <1>11 DEF TheString

(* The reader reads on from the next character, or the one after a letter. *)
LEMMA StringStep ==
    ASSUME NEW S, NEW t \in Seq(S), NEW letters, Letters(letters, S),
           NEW i \in Places(t)
    PROVE  /\ At(t, i) = "end" => ReadString(t, letters, i) = Error
           /\ At(t, i) = Quote =>
                  ReadString(t, letters, i) = Read(<<>>, i + 1)
           /\ At(t, i) = Backslash /\ At(t, i + 1) \notin DOMAIN letters =>
                  ReadString(t, letters, i) = Error
           /\ At(t, i) = Backslash /\ At(t, i + 1) \in DOMAIN letters =>
                  ReadString(t, letters, i) =
                      After(letters[t[i + 1]], ReadString(t, letters, i + 2))
           /\ At(t, i) \notin {"end", Quote, Backslash} =>
                  ReadString(t, letters, i) =
                      After(t[i], ReadString(t, letters, i + 1))
<1>1. \A j : ReadString(t, letters, j) = TheString(t, letters)[j]
  BY DEF ReadString, TheString, IsString, StringAt, Places
<1>2. TheString(t, letters)[i] = StringAt(t, letters, TheString(t, letters), i)
  BY StringExists DEF IsString
<1> QED
  BY <1>1, <1>2 DEF StringAt, Quote, Backslash

(* What is read is an error, or was read from the characters from here to  *)
(* the next place.                                                         *)
ReadFrom(i, t, S) ==
    {Error} \cup {r \in Results(S) : r.next \in (i + 1)..(Len(t) + 1)}

(* By induction on the distance from the end.                              *)
LEMMA StringRead ==
    ASSUME NEW S, NEW t \in Seq(S), NEW letters, Letters(letters, S),
           NEW i \in Places(t)
    PROVE  ReadString(t, letters, i) \in ReadFrom(i, t, S)
<1> DEFINE P == {j \in Places(t) :
                     ReadString(t, letters, j) \in ReadFrom(j, t, S)}
<1>1. ASSUME NEW j \in Places(t),
             \A k \in Places(t) : FromEnd(t)[k] < FromEnd(t)[j] => k \in P
      PROVE  j \in P
  <2>1. j \in Nat /\ \A k \in Places(t) : j < k => k \in P
    BY <1>1, NextPlace
  <2>2. ASSUME NEW x \in S, NEW k \in Places(t), j < k,
               ReadString(t, letters, j) = After(x, ReadString(t, letters, k))
        PROVE  j \in P
    <3>1. PICK r : r = ReadString(t, letters, k)
      OBVIOUS
    <3>2. r \in ReadFrom(k, t, S) /\ k \in Nat
      BY <2>1, <2>2, <3>1, NextPlace
    <3>3. CASE r = Error
      <4>1. After(x, r) = Error
        BY <3>3 DEF After, Error
      <4> QED
        BY <2>2, <3>1, <4>1 DEF ReadFrom
    <3>4. CASE r # Error
      <4>1. r \in Results(S) /\ r.next \in (k + 1)..(Len(t) + 1)
        BY <3>2, <3>4 DEF ReadFrom
      <4>2. /\ After(x, r) \in Results(S)
            /\ After(x, r) = Read(<<x>> \o r.value, r.next)
        BY <3>2, <4>1, AfterIsResult
      <4>3. After(x, r).next = r.next
        BY <4>2 DEF Read
      <4>4. j \in Nat /\ k \in Nat /\ j < k /\ Len(t) \in Nat
        BY <2>1, <2>2, <3>2, NextPlace
      <4>5. (k + 1)..(Len(t) + 1) \subseteq (j + 1)..(Len(t) + 1)
        BY <4>4
      <4>6. After(x, r).next \in (j + 1)..(Len(t) + 1)
        BY <4>1, <4>3, <4>5, Zenon
      <4> QED
        BY <2>2, <3>1, <4>2, <4>6 DEF ReadFrom
    <3> QED
      BY <3>3, <3>4
  <2>3. CASE At(t, j) = "end"
    BY <2>3, StringStep DEF ReadFrom
  <2>4. CASE At(t, j) = Quote
    <3>1. At(t, j) # "end"
      BY <2>4 DEF Quote
    <3>2. ReadString(t, letters, j) = Read(<<>>, j + 1)
      BY <2>4, <3>1, StringStep
    <3>3. j \in 1..Len(t) /\ Len(t) \in Nat
      BY <3>1, NextPlace
    <3>4. Read(<<>>, j + 1) \in Results(S) /\ Read(<<>>, j + 1).next = j + 1
      BY <2>1 DEF Results, Read
    <3> QED
      BY <2>1, <3>2, <3>3, <3>4 DEF ReadFrom
  <2>5. CASE At(t, j) = Backslash
    <3>1. At(t, j) # "end" /\ At(t, j) # Quote
      BY <2>5 DEF Quote, Backslash
    <3>2. CASE At(t, j + 1) \in DOMAIN letters
      <4>1. At(t, j + 1) # "end"
        BY <3>2 DEF Letters
      <4>2. j + 1 \in Places(t)
        BY <3>1, NextPlace
      <4>3. j + 1 \in 1..Len(t) /\ At(t, j + 1) = t[j + 1]
            /\ j + 1 + 1 \in Places(t) /\ Len(t) \in Nat
        BY <4>1, <4>2, NextPlace
      <4>4. j + 2 \in Places(t) /\ j < j + 2
        BY <2>1, <4>3 DEF Places
      <4>5. letters[t[j + 1]] \in S
        BY <3>2, <4>3 DEF Letters
      <4>6. ReadString(t, letters, j) =
                After(letters[t[j + 1]], ReadString(t, letters, j + 2))
        BY <2>5, <3>1, <3>2, StringStep
      <4> QED
        BY <2>2, <4>4, <4>5, <4>6
    <3>3. CASE At(t, j + 1) \notin DOMAIN letters
      BY <2>5, <3>1, <3>3, StringStep DEF ReadFrom
    <3> QED
      BY <3>2, <3>3
  <2>6. CASE At(t, j) \notin {"end", Quote, Backslash}
    <3>1. ReadString(t, letters, j) = After(t[j], ReadString(t, letters, j + 1))
      BY <2>6, StringStep
    <3>2. j + 1 \in Places(t) /\ j < j + 1 /\ t[j] \in S
      BY <2>1, <2>6, NextPlace
    <3> QED
      BY <2>2, <3>1, <3>2
  <2> QED
    BY <2>3, <2>4, <2>5, <2>6
<1>2. \A j \in Places(t) : FromEnd(t)[j] \in Nat
  BY NextPlace
<1> HIDE DEF P
<1>3. Inductive(Places(t), FromEnd(t), P)
  BY <1>1, <1>2 DEF Inductive
<1>4. Places(t) \subseteq P
  BY <1>3, RankInduction
<1> QED
  BY <1>4 DEF P

-----------------------------------------------------------------------------
(* What the reader of a command computes at each place                     *)

(* The same as `command` in ReadCommand, over any function.                *)
CommandAt(t, letters, closes, f, i) ==
    LET word == ReadString(t, letters, i + 1) IN
    CASE At(t, i) = "]" -> Read(<<>>, i + 1)
      [] At(t, i) # "]" /\ (At(t, i) # Quote \/ word.next = 0) -> Error
      [] OTHER ->
             IF At(t, word.next) = "]" /\ closes
             THEN Read(<<word.value>>, word.next + 1)
             ELSE IF At(t, word.next) \in {",", "]"}
             THEN After(word.value, f[word.next + 1])
             ELSE Error

IsCommand(f, t, letters, closes) ==
    f = [i \in Places(t) |-> CommandAt(t, letters, closes, f, i)]
TheCommand(t, letters, closes) == CHOOSE f : IsCommand(f, t, letters, closes)

(* After a word comes a place, if no error.                                *)
LEMMA AfterWord ==
    ASSUME NEW S, NEW t \in Seq(S), NEW letters, Letters(letters, S),
           NEW i \in Places(t), At(t, i) # "end",
           NEW word, word = ReadString(t, letters, i + 1), word.next # 0
    PROVE  /\ word.value \in Seq(S)
           /\ word.next \in Places(t) /\ i + 1 < word.next
           /\ At(t, word.next) # "end" =>
                  /\ word.next + 1 \in Places(t) /\ i < word.next + 1
                  /\ word.next + 1 \in Nat /\ word.next + 1 <= Len(t) + 1
<1>1. i + 1 \in Places(t) /\ i \in Nat /\ Len(t) \in Nat
  BY NextPlace
<1>2. word \in ReadFrom(i + 1, t, S) /\ word # Error
  BY <1>1, StringRead DEF Error
<1>3. word \in Results(S) /\ word.next \in (i + 1 + 1)..(Len(t) + 1)
  BY <1>2 DEF ReadFrom
<1>4. word.next \in Places(t)
  BY <1>1, <1>3 DEF Places
<1>5. At(t, word.next) # "end" => word.next + 1 \in Places(t)
                                  /\ word.next \in 1..Len(t)
  BY <1>4, NextPlace
<1> QED
  BY <1>1, <1>3, <1>4, <1>5 DEF Results

(* The reader of a command has a value, too.                               *)
LEMMA CommandExists ==
    ASSUME NEW S, NEW t \in Seq(S), NEW letters, Letters(letters, S),
           NEW closes \in BOOLEAN
    PROVE  IsCommand(TheCommand(t, letters, closes), t, letters, closes)
<1> DEFINE D == Places(t)
           X == Results(Seq(S))
           step == [i \in D |-> [f \in [D -> X] |->
                       CommandAt(t, letters, closes, f, i)]]
           Goes(i, word) == /\ At(t, i) = Quote
                            /\ word = ReadString(t, letters, i + 1)
                            /\ word.next # 0
                            /\ At(t, word.next) \in {",", "]"}
<1>1. ASSUME NEW i \in D, NEW word, Goes(i, word)
      PROVE  /\ word.value \in Seq(S) /\ word.next + 1 \in D /\ i < word.next + 1
             /\ word.next + 1 \in Nat
  <2>1. At(t, i) # "end" /\ At(t, word.next) # "end"
    BY <1>1 DEF Quote
  <2> QED
    BY <1>1, <2>1, AfterWord
<1>2. ASSUME NEW i \in D, NEW f \in [D -> X]
      PROVE  CommandAt(t, letters, closes, f, i) \in X
  <2>1. PICK word : word = ReadString(t, letters, i + 1)
    OBVIOUS
  <2>2. Error \in X /\ Read(<<>>, i + 1) \in X
    BY NextPlace DEF Results, Error, Read
  <2>3. ASSUME Goes(i, word)
        PROVE  /\ Read(<<word.value>>, word.next + 1) \in X
               /\ After(word.value, f[word.next + 1]) \in X
    <3>1. /\ word.value \in Seq(S) /\ word.next + 1 \in D
          /\ word.next + 1 \in Nat
      BY <1>1, <2>3
    <3>2. <<word.value>> \in Seq(Seq(S))
      BY <3>1
    <3>3. Read(<<word.value>>, word.next + 1) \in X
      BY <3>1, <3>2 DEF Results, Read
    <3>4. f[word.next + 1] \in X
      BY <3>1
    <3> QED
      BY <3>1, <3>3, <3>4, AfterIsResult
  <2> HIDE DEF X, D
  <2> QED
    BY <2>1, <2>2, <2>3 DEF CommandAt
<1>3. ASSUME NEW i \in D, NEW f \in [D -> X], NEW g \in [D -> X],
             \A j \in D : FromEnd(t)[j] < FromEnd(t)[i] => f[j] = g[j]
      PROVE  CommandAt(t, letters, closes, f, i) =
                 CommandAt(t, letters, closes, g, i)
  <2>1. i \in Nat /\ \A j \in D : i < j => f[j] = g[j]
    BY <1>3, NextPlace
  <2>2. PICK word : word = ReadString(t, letters, i + 1)
    OBVIOUS
  <2>3. Goes(i, word) => f[word.next + 1] = g[word.next + 1]
    BY <1>1, <2>1
  <2> HIDE DEF X, D
  <2> QED
    BY <2>2, <2>3 DEF CommandAt
<1>4. X # {} /\ Len(t) + 2 \in Nat
  <2>1. Error \in X
    BY DEF Results, Error
  <2>2. Len(t) \in Nat
    OBVIOUS
  <2> QED
    BY <2>1, <2>2
<1>5. \A d \in D : FromEnd(t)[d] \in 0..(Len(t) + 2)
  BY NextPlace
<1>6. \A d \in D : \A f \in [D -> X] :
          step[d][f] = CommandAt(t, letters, closes, f, d)
  OBVIOUS
<1>7. \A d \in D : \A f \in [D -> X] : step[d][f] \in X
  BY <1>2, <1>6
<1>8. \A d \in D : \A f \in [D -> X] : \A g \in [D -> X] :
          (\A e \in D : FromEnd(t)[e] < FromEnd(t)[d] => f[e] = g[e])
              => step[d][f] = step[d][g]
  BY <1>3, <1>6
<1> HIDE DEF D, X, step
<1>9. Recursive(D, X, Len(t) + 2, FromEnd(t), step)
  BY <1>4, <1>5, <1>7, <1>8 DEF Recursive
<1>10. PICK f \in [D -> X] : Computes(f, D, step)
  BY <1>9, Recursion
<1>11. IsCommand(f, t, letters, closes)
  BY <1>6, <1>10 DEF IsCommand, Computes, D
<1> QED
  BY <1>11 DEF TheCommand

(* The reader goes on behind a comma, and with `closes` ends behind the    *)
(* bracket after a word; without, it goes on there too.                    *)
CommandSteps(t, letters, closes, i, word) ==
    LET read == ReadCommand(t, letters, closes, i) IN
    /\ At(t, i) = "]" => read = Read(<<>>, i + 1)
    /\ At(t, i) \notin {"]", Quote} => read = Error
    /\ At(t, i) = Quote /\ word.next = 0 => read = Error
    /\ At(t, i) = Quote /\ word.next # 0 =>
           /\ At(t, word.next) = "]" /\ closes =>
                  read = Read(<<word.value>>, word.next + 1)
           /\ At(t, word.next) = "," \/ (At(t, word.next) = "]" /\ ~closes) =>
                  read = After(word.value,
                               ReadCommand(t, letters, closes, word.next + 1))
           /\ At(t, word.next) \notin {"]", ","} => read = Error

(* At a place it does what its equation says.                              *)
LEMMA CommandStep ==
    ASSUME NEW S, NEW t \in Seq(S), NEW letters, Letters(letters, S),
           NEW closes \in BOOLEAN, NEW i \in Places(t)
    PROVE  CommandSteps(t, letters, closes, i, ReadString(t, letters, i + 1))
<1>1. \A j : ReadCommand(t, letters, closes, j) = TheCommand(t, letters, closes)[j]
  BY DEF ReadCommand, TheCommand, IsCommand, CommandAt, Places
<1>2. TheCommand(t, letters, closes)[i] =
          CommandAt(t, letters, closes, TheCommand(t, letters, closes), i)
  BY CommandExists DEF IsCommand
<1>3. Quote # "]"
  BY DEF Quote
<1> QED
  BY <1>1, <1>2, <1>3 DEF CommandAt, CommandSteps

(* What is read of a command ends further on, within the text.             *)
LEMMA CommandRead ==
    ASSUME NEW S, NEW t \in Seq(S), NEW letters, Letters(letters, S),
           NEW closes \in BOOLEAN, NEW i \in Places(t)
    PROVE  ReadCommand(t, letters, closes, i) \in ReadFrom(i, t, Seq(S))
<1> DEFINE P == {j \in Places(t) : ReadCommand(t, letters, closes, j)
                                       \in ReadFrom(j, t, Seq(S))}
<1>1. ASSUME NEW j \in Places(t),
             \A k \in Places(t) : FromEnd(t)[k] < FromEnd(t)[j] => k \in P
      PROVE  j \in P
  <2>1. j \in Nat /\ \A k \in Places(t) : j < k => k \in P
    BY <1>1, NextPlace
  <2>2. PICK word : word = ReadString(t, letters, j + 1)
    OBVIOUS
  <2>3. CommandSteps(t, letters, closes, j, word)
    BY <2>2, CommandStep
  <2>4. ASSUME ReadCommand(t, letters, closes, j) = Error
        PROVE  j \in P
    BY <2>4 DEF ReadFrom
  <2>5. CASE At(t, j) = "]"
    <3>1. ReadCommand(t, letters, closes, j) = Read(<<>>, j + 1)
      BY <2>5, <2>3 DEF CommandSteps
    <3>2. j \in 1..Len(t) /\ Len(t) \in Nat
      BY <2>5, NextPlace
    <3>3. Read(<<>>, j + 1) \in Results(Seq(S)) /\ Read(<<>>, j + 1).next = j + 1
      BY <2>1 DEF Results, Read
    <3> QED
      BY <2>1, <3>1, <3>2, <3>3 DEF ReadFrom
  <2>6. CASE At(t, j) = Quote /\ word.next # 0 /\ At(t, word.next) \in {"]", ","}
    <3>1. At(t, j) # "end" /\ At(t, word.next) # "end"
      BY <2>6 DEF Quote
    <3>2. PICK k : k = word.next + 1
      OBVIOUS
    <3>3. /\ word.value \in Seq(S) /\ k \in Places(t) /\ j < k
          /\ k \in Nat /\ k <= Len(t) + 1
      BY <2>2, <2>6, <3>1, <3>2, AfterWord
    <3>4. Len(t) \in Nat
      OBVIOUS
    <3>5. CASE ReadCommand(t, letters, closes, j) = Read(<<word.value>>, k)
      <4>1. <<word.value>> \in Seq(Seq(S))
        BY <3>3
      <4>2. Read(<<word.value>>, k) \in Results(Seq(S))
            /\ Read(<<word.value>>, k).next = k
        BY <3>3, <4>1 DEF Results, Read
      <4> QED
        BY <2>1, <3>3, <3>4, <3>5, <4>2 DEF ReadFrom
    <3>6. CASE ReadCommand(t, letters, closes, j) =
                   After(word.value, ReadCommand(t, letters, closes, k))
      <4>1. PICK r : r = ReadCommand(t, letters, closes, k)
        OBVIOUS
      <4>2. r \in ReadFrom(k, t, Seq(S))
        BY <2>1, <3>3, <4>1
      <4>3. CASE r = Error
        <5>1. After(word.value, r) = Error
          BY <4>3 DEF After, Error
        <5> QED
          BY <2>4, <3>6, <4>1, <5>1
      <4>4. CASE r # Error
        <5>1. r \in Results(Seq(S)) /\ r.next \in (k + 1)..(Len(t) + 1)
          BY <4>2, <4>4 DEF ReadFrom
        <5>2. /\ After(word.value, r) \in Results(Seq(S))
              /\ After(word.value, r) = Read(<<word.value>> \o r.value, r.next)
          BY <3>3, <5>1, AfterIsResult
        <5>3. After(word.value, r).next \in (j + 1)..(Len(t) + 1)
          BY <2>1, <3>3, <3>4, <5>1, <5>2 DEF Read
        <5> QED
          BY <3>6, <4>1, <5>2, <5>3 DEF ReadFrom
      <4> QED
        BY <4>3, <4>4
    <3> QED
      BY <2>6, <2>3, <3>2, <3>5, <3>6 DEF CommandSteps
  <2> QED
    BY <2>4, <2>5, <2>6, <2>3 DEF CommandSteps
<1>2. \A j \in Places(t) : FromEnd(t)[j] \in Nat
  BY NextPlace
<1> HIDE DEF P
<1>3. Inductive(Places(t), FromEnd(t), P)
  BY <1>1, <1>2 DEF Inductive
<1>4. Places(t) \subseteq P
  BY <1>3, RankInduction
<1> QED
  BY <1>4 DEF P

-----------------------------------------------------------------------------
(* What the reader of the commands computes at each place                  *)

(* A command as a request has it.                                          *)
RequestCommand(t, i) == ReadCommand(t, JsonLetters, TRUE, i)

(* The same as `commands` in ReadCommands, over any function.              *)
CommandsAt(t, f, i) ==
    LET command == RequestCommand(t, i + 1) IN
    CASE At(t, i) = "]" -> Read(<<>>, i + 1)
      [] At(t, i) # "]" /\ (At(t, i) # "[" \/ command.next = 0) -> Error
      [] OTHER ->
             IF At(t, command.next) = "]"
             THEN Read(<<command.value>>, command.next + 1)
             ELSE After(command.value, f[IF At(t, command.next) = ","
                                         THEN command.next + 1
                                         ELSE command.next])

IsCommands(f, t) == f = [i \in Places(t) |-> CommandsAt(t, f, i)]
TheCommands(t) == CHOOSE f : IsCommands(f, t)

(* After a command comes a place, if no error.                             *)
LEMMA AfterCommand ==
    ASSUME NEW S, NEW t \in Seq(S), Letters(JsonLetters, S),
           NEW i \in Places(t), At(t, i) # "end",
           NEW command, command = RequestCommand(t, i + 1),
           command.next # 0
    PROVE  /\ command.value \in Seq(Seq(S))
           /\ command.next \in Places(t) /\ i < command.next
           /\ command.next \in Nat
           /\ At(t, command.next) # "end" =>
                  /\ command.next + 1 \in Places(t)
                  /\ i < command.next + 1
<1>1. i + 1 \in Places(t) /\ i \in Nat /\ Len(t) \in Nat
  BY NextPlace
<1>2. command \in ReadFrom(i + 1, t, Seq(S))
  <2>1. /\ TRUE \in BOOLEAN
        /\ command = ReadCommand(t, JsonLetters, TRUE, i + 1)
    BY DEF RequestCommand
  <2> QED
    BY <1>1, <2>1, CommandRead, Zenon
<1>3. PICK T : T = Seq(S)
  OBVIOUS
<1>4. command \in Results(T) /\ command.next \in (i + 1 + 1)..(Len(t) + 1)
  BY <1>2, <1>3 DEF ReadFrom, Error
<1>5. command.value \in Seq(T) /\ command.next \in Nat
  BY <1>4 DEF Results
<1>6. command.next \in Places(t) /\ i < command.next
  BY <1>1, <1>4 DEF Places
<1>7. At(t, command.next) # "end" => command.next + 1 \in Places(t)
  BY <1>6, NextPlace
<1> QED
  BY <1>1, <1>3, <1>5, <1>6, <1>7

(* The reader of the commands has a value.                                 *)
LEMMA CommandsExist ==
    ASSUME NEW S, NEW t \in Seq(S), Letters(JsonLetters, S)
    PROVE  IsCommands(TheCommands(t), t)
<1> DEFINE D == Places(t)
           X == Results(Seq(Seq(S)))
           step == [i \in D |-> [f \in [D -> X] |-> CommandsAt(t, f, i)]]
           Goes(i, command) ==
               /\ At(t, i) = "["
               /\ command = RequestCommand(t, i + 1)
               /\ command.next # 0
           Next_(command) == IF At(t, command.next) = "," THEN command.next + 1
                             ELSE command.next
<1>1. ASSUME NEW i \in D, NEW command, Goes(i, command)
      PROVE  /\ command.value \in Seq(Seq(S))
             /\ Next_(command) \in D /\ i < Next_(command)
             /\ command.next + 1 \in Nat
  <2>1. At(t, i) # "end"
    BY <1>1
  <2>2. /\ command.value \in Seq(Seq(S))
        /\ command.next \in Places(t) /\ i < command.next
        /\ command.next \in Nat
        /\ At(t, command.next) # "end" =>
               command.next + 1 \in Places(t) /\ i < command.next + 1
    BY <1>1, <2>1, AfterCommand, Zenon
  <2>3. CASE At(t, command.next) = ","
    <3>1. Next_(command) = command.next + 1 /\ At(t, command.next) # "end"
      BY <2>3
    <3>2. command.next + 1 \in Places(t) /\ i < command.next + 1 /\ command.next \in Nat
      BY <2>2, <3>1, Zenon
    <3> HIDE DEF Next_
    <3>3. /\ Next_(command) \in D /\ i < Next_(command)
          /\ command.next + 1 \in Nat
      BY <3>1, <3>2
    <3> QED
      BY <2>2, <3>3, Zenon
  <2>4. CASE At(t, command.next) # ","
    <3>1. Next_(command) = command.next
      BY <2>4
    <3>2. command.next \in Places(t) /\ i < command.next /\ command.next \in Nat
      BY <2>2, Zenon
    <3> HIDE DEF Next_
    <3>3. /\ Next_(command) \in D /\ i < Next_(command)
          /\ command.next + 1 \in Nat
      BY <3>1, <3>2
    <3> QED
      BY <2>2, <3>3, Zenon
  <2> QED
    BY <2>3, <2>4
<1>2. ASSUME NEW i \in D, NEW f \in [D -> X]
      PROVE  CommandsAt(t, f, i) \in X
  <2>1. PICK command : command = RequestCommand(t, i + 1)
    OBVIOUS
  <2>2. Error \in X /\ Read(<<>>, i + 1) \in X
    BY NextPlace DEF Results, Error, Read
  <2>3. ASSUME Goes(i, command)
        PROVE  /\ Read(<<command.value>>, command.next + 1) \in X
               /\ After(command.value, f[Next_(command)]) \in X
    <3>1. /\ command.value \in Seq(Seq(S)) /\ Next_(command) \in D
          /\ command.next + 1 \in Nat
      BY <1>1, <2>3
    <3>2. <<command.value>> \in Seq(Seq(Seq(S)))
      <4>1. PICK T, x : T = Seq(Seq(S)) /\ x = command.value
        OBVIOUS
      <4>2. x \in T
        BY <3>1, <4>1
      <4>3. <<x>> \in Seq(T)
        BY <4>2
      <4> QED
        BY <4>1, <4>3
    <3>3. Read(<<command.value>>, command.next + 1) \in X
      BY <3>1, <3>2 DEF Results, Read
    <3>4. f[Next_(command)] \in X
      BY <3>1
    <3> HIDE DEF Next_
    <3> QED
      BY <3>1, <3>3, <3>4, AfterIsResult
  <2> HIDE DEF X, D
  <2> QED
    BY <2>1, <2>2, <2>3 DEF CommandsAt
<1>3. ASSUME NEW i \in D, NEW f \in [D -> X], NEW g \in [D -> X],
             \A j \in D : FromEnd(t)[j] < FromEnd(t)[i] => f[j] = g[j]
      PROVE  CommandsAt(t, f, i) = CommandsAt(t, g, i)
  <2>1. i \in Nat /\ \A j \in D : i < j => f[j] = g[j]
    BY <1>3, NextPlace
  <2>2. PICK command : command = RequestCommand(t, i + 1)
    OBVIOUS
  <2>3. Goes(i, command) => f[Next_(command)] = g[Next_(command)]
    BY <1>1, <2>1
  <2> HIDE DEF X, D
  <2> QED
    BY <2>2, <2>3 DEF CommandsAt
<1>4. X # {} /\ Len(t) + 2 \in Nat
  <2>1. Error \in X
    BY DEF Results, Error
  <2>2. Len(t) \in Nat
    OBVIOUS
  <2> QED
    BY <2>1, <2>2
<1>5. \A d \in D : FromEnd(t)[d] \in 0..(Len(t) + 2)
  BY NextPlace
<1>6. \A d \in D : \A f \in [D -> X] : step[d][f] = CommandsAt(t, f, d)
  OBVIOUS
<1>7. \A d \in D : \A f \in [D -> X] : step[d][f] \in X
  BY <1>2, <1>6
<1>8. \A d \in D : \A f \in [D -> X] : \A g \in [D -> X] :
          (\A e \in D : FromEnd(t)[e] < FromEnd(t)[d] => f[e] = g[e])
              => step[d][f] = step[d][g]
  BY <1>3, <1>6
<1> HIDE DEF D, X, step
<1>9. Recursive(D, X, Len(t) + 2, FromEnd(t), step)
  BY <1>4, <1>5, <1>7, <1>8 DEF Recursive
<1>10. PICK f \in [D -> X] : Computes(f, D, step)
  BY <1>9, Recursion
<1>11. IsCommands(f, t)
  BY <1>6, <1>10 DEF IsCommands, Computes, D
<1> QED
  BY <1>11 DEF TheCommands

(* The reader ends behind the bracket after a command, and goes on behind  *)
(* a comma.                                                                *)
CommandsSteps(t, i, command) ==
    LET read == ReadCommands(t, i) IN
    /\ At(t, i) = "]" => read = Read(<<>>, i + 1)
    /\ At(t, i) = "[" /\ command.next = 0 => read = Error
    /\ At(t, i) = "[" /\ command.next # 0 =>
           /\ At(t, command.next) = "]" =>
                  read = Read(<<command.value>>, command.next + 1)
           /\ At(t, command.next) = "," =>
                  read = After(command.value, ReadCommands(t, command.next + 1))

(* At a place it does what its equation says.                              *)
LEMMA CommandsStep ==
    ASSUME NEW S, NEW t \in Seq(S), Letters(JsonLetters, S), NEW i \in Places(t)
    PROVE  CommandsSteps(t, i, RequestCommand(t, i + 1))
<1>1. \A j : ReadCommands(t, j) = TheCommands(t)[j]
  BY DEF ReadCommands, TheCommands, IsCommands, CommandsAt, Places, RequestCommand
<1>2. TheCommands(t)[i] = CommandsAt(t, TheCommands(t), i)
  BY CommandsExist DEF IsCommands
<1> QED
  BY <1>1, <1>2 DEF CommandsAt, CommandsSteps

-----------------------------------------------------------------------------
(* Concatenations                                                          *)

(* g[k] is the concatenation of the first k sequences.                     *)
Chain(g, seqs, S) ==
    /\ g \in [0..Len(seqs) -> Seq(S)]
    /\ g[0] = <<>>
    /\ \A k \in 1..Len(seqs) : g[k] = g[k - 1] \o seqs[k]

(* There is a chain: each value comes from the one before.                 *)
LEMMA ChainExists ==
    ASSUME NEW S, NEW seqs \in Seq(Seq(S))
    PROVE  \E g : Chain(g, seqs, S)
<1>1. PICK n \in Nat : n = Len(seqs)
  OBVIOUS
<1>2. PICK X : X = Seq(S)
  OBVIOUS
<1>3. \A k \in 1..n : seqs[k] \in X
  BY <1>1, <1>2
<1> DEFINE D == 0..n
           step == [k \in D |-> [f \in [D -> X] |->
                       IF k = 0 THEN <<>> ELSE f[k - 1] \o seqs[k]]]
           rank == [k \in D |-> k]
<1>4. ASSUME NEW k \in D, NEW f \in [D -> X]
      PROVE  step[k][f] \in X
  <2>1. CASE k = 0
    BY <1>2, <2>1
  <2>2. CASE k # 0
    <3>1. k - 1 \in D /\ k \in 1..n
      BY <2>2
    <3>2. f[k - 1] \in Seq(S) /\ seqs[k] \in Seq(S)
      BY <1>2, <1>3, <3>1
    <3>3. f[k - 1] \o seqs[k] \in Seq(S)
      BY <3>2
    <3> QED
      BY <1>2, <2>2, <3>3
  <2> QED
    BY <2>1, <2>2
<1>5. ASSUME NEW k \in D, NEW f \in [D -> X], NEW g \in [D -> X],
             \A e \in D : rank[e] < rank[k] => f[e] = g[e]
      PROVE  step[k][f] = step[k][g]
  <2>1. k # 0 => k - 1 \in D /\ rank[k - 1] < rank[k]
    OBVIOUS
  <2>2. k # 0 => f[k - 1] = g[k - 1]
    BY <1>5, <2>1
  <2> QED
    BY <2>2
<1>6. X # {}
  BY <1>2, EmptySeq
<1>7. \A k \in D : rank[k] \in 0..n
  OBVIOUS
<1>8. \A k \in D : \A f \in [D -> X] :
          step[k][f] = IF k = 0 THEN <<>> ELSE f[k - 1] \o seqs[k]
  OBVIOUS
<1> HIDE DEF D, step, rank
<1>9. Recursive(D, X, n, rank, step)
  BY <1>4, <1>5, <1>6, <1>7 DEF Recursive
<1>10. PICK g \in [D -> X] : Computes(g, D, step)
  BY <1>9, Recursion
<1>11. \A k \in D : g[k] = IF k = 0 THEN <<>> ELSE g[k - 1] \o seqs[k]
  BY <1>8, <1>10 DEF Computes
<1>12. 0 \in D /\ \A k \in 1..n : k \in D /\ k # 0
  BY DEF D
<1> QED
  BY <1>1, <1>2, <1>10, <1>11, <1>12 DEF Chain, D

(* The last of the chain is what FlattenSeq computes with a fold.          *)
LEMMA ChainIsFlatten ==
    ASSUME NEW S, NEW seqs \in Seq(Seq(S)), NEW g, Chain(g, seqs, S)
    PROVE  FlattenSeq(seqs) = g[Len(seqs)]
<1>1. PICK n \in Nat : n = Len(seqs)
  OBVIOUS
<1>2. CASE n = 0
  <2>1. seqs = <<>>
    <3>1. PICK X : X = Seq(S)
      OBVIOUS
    <3> QED
      BY <1>1, <1>2, <3>1, EmptySeq
  <2> QED
    BY <1>1, <1>2, <2>1 DEF FlattenSeq, Chain
<1>3. CASE n # 0
  <2> DEFINE f == [k \in 1..n |-> g[k]]
  <2>1. ASSUME NEW k \in 1..n
        PROVE  f[k] = IF k = 1 THEN seqs[k] ELSE f[k - 1] \o seqs[k]
    <3>1. g[k] = g[k - 1] \o seqs[k]
      BY <1>1 DEF Chain
    <3>2. CASE k = 1
      <4>1. seqs[k] \in Seq(S) /\ g[k - 1] = <<>>
        BY <1>1, <3>2 DEF Chain
      <4>2. <<>> \o seqs[k] = seqs[k]
        BY <4>1, ConcatEmptySeq
      <4> QED
        BY <3>1, <3>2, <4>1, <4>2
    <3>3. CASE k # 1
      <4>1. k - 1 \in 1..n
        BY <3>3
      <4> QED
        BY <3>1, <3>3, <4>1
    <3> QED
      BY <3>2, <3>3
  <2>2. f = [k \in 1..Len(seqs) |->
                IF k = 1 THEN seqs[k] ELSE f[k - 1] \o seqs[k]]
    BY <1>1, <2>1
  <2>3. f[n] = g[n]
    BY <1>3
  <2> HIDE DEF f
  <2>4. IsFlattening(f, seqs)
    BY <2>2 DEF IsFlattening
  <2>5. FlattenSeq(seqs) = f[n]
    BY <1>1, <1>3, <2>4, Flattened
  <2> QED
    BY <1>1, <2>3, <2>5
<1> QED
  BY <1>2, <1>3

(* The concatenation of one sequence more.                                 *)
LEMMA FlattenAppend ==
    ASSUME NEW S, NEW seqs \in Seq(Seq(S)), NEW s \in Seq(S)
    PROVE  /\ FlattenSeq(seqs) \in Seq(S)
           /\ FlattenSeq(Append(seqs, s)) = FlattenSeq(seqs) \o s
<1>1. PICK n \in Nat : n = Len(seqs)
  OBVIOUS
<1>2. PICK X : X = Seq(S)
  OBVIOUS
<1>3. PICK more : more = Append(seqs, s)
  OBVIOUS
<1>4. /\ more \in Seq(X) /\ Len(more) = n + 1
      /\ \A k \in 1..n : more[k] = seqs[k]
      /\ more[n + 1] = s
  BY <1>1, <1>2, <1>3, AppendProperties
<1>5. PICK g : Chain(g, more, S)
  BY <1>2, <1>4, ChainExists
<1> DEFINE h == [k \in 0..n |-> g[k]]
<1>6. Chain(h, seqs, S)
  <2>1. /\ g \in [0..(n + 1) -> X] /\ g[0] = <<>>
        /\ \A k \in 1..(n + 1) : g[k] = g[k - 1] \o more[k]
    BY <1>2, <1>4, <1>5 DEF Chain
  <2>2. h \in [0..n -> X] /\ h[0] = <<>>
    BY <2>1
  <2>3. ASSUME NEW k \in 1..n
        PROVE  h[k] = h[k - 1] \o seqs[k]
    <3>1. k \in 1..(n + 1) /\ k \in 0..n /\ k - 1 \in 0..n
      OBVIOUS
    <3>2. g[k] = g[k - 1] \o more[k] /\ more[k] = seqs[k]
      BY <1>4, <2>1, <3>1
    <3> QED
      BY <3>1, <3>2
  <2> HIDE DEF h
  <2> QED
    BY <1>1, <1>2, <2>2, <2>3 DEF Chain
<1>7. FlattenSeq(seqs) = g[n] /\ g[n] \in X
  <2>1. h[n] = g[n] /\ h[n] \in X
    BY <1>1, <1>2, <1>6 DEF Chain
  <2> HIDE DEF h
  <2> QED
    BY <1>1, <1>6, <2>1, ChainIsFlatten
<1>8. FlattenSeq(more) = g[n + 1]
  BY <1>2, <1>4, <1>5, ChainIsFlatten
<1>9. g[n + 1] = g[n] \o s
  <2>1. n + 1 \in 1..(n + 1) /\ (n + 1) - 1 = n
    OBVIOUS
  <2>2. g[n + 1] = g[(n + 1) - 1] \o more[n + 1]
    BY <1>4, <1>5, <2>1 DEF Chain
  <2> QED
    BY <1>4, <2>1, <2>2
<1> QED
  BY <1>2, <1>3, <1>7, <1>8, <1>9

(* s stands in t after the first i characters.                             *)
Stands(t, i, s) ==
    i + Len(s) <= Len(t) /\ \A k \in 1..Len(s) : t[i + k] = s[k]

(* A concatenation stands where its first part does and its second         *)
(* follows.                                                                *)
LEMMA StandsConcat ==
    ASSUME NEW S, NEW t \in Seq(S), NEW a \in Seq(S), NEW b \in Seq(S),
           NEW i \in Nat
    PROVE  Stands(t, i, a \o b) <=> Stands(t, i, a) /\ Stands(t, i + Len(a), b)
<1>1. PICK m \in Nat, n \in Nat, l \in Nat :
          m = Len(a) /\ n = Len(b) /\ l = Len(t)
  OBVIOUS
<1>2. PICK c : /\ c = a \o b /\ Len(c) = m + n
               /\ \A k \in 1..(m + n) : c[k] = IF k <= m THEN a[k] ELSE b[k - m]
  <2>1. PICK c : c = a \o b
    OBVIOUS
  <2>2. /\ Len(c) = Len(a) + Len(b)
        /\ \A k \in 1..(Len(a) + Len(b)) :
               c[k] = IF k <= Len(a) THEN a[k] ELSE b[k - Len(a)]
    BY <2>1, ConcatProperties
  <2> QED
    BY <1>1, <2>1, <2>2
<1>3. ASSUME Stands(t, i, c)
      PROVE  Stands(t, i, a) /\ Stands(t, i + m, b)
  <2>1. i + m + n <= l /\ \A k \in 1..(m + n) : t[i + k] = c[k]
    BY <1>1, <1>2, <1>3 DEF Stands
  <2>2. Stands(t, i, a)
    BY <1>1, <1>2, <2>1 DEF Stands
  <2>3. ASSUME NEW k \in 1..n
        PROVE  t[i + m + k] = b[k]
    <3>1. m + k \in 1..(m + n) /\ ~(m + k <= m) /\ (m + k) - m = k
          /\ i + (m + k) = i + m + k
      OBVIOUS
    <3>2. t[i + (m + k)] = c[m + k] /\ c[m + k] = b[(m + k) - m]
      BY <1>2, <2>1, <3>1
    <3> QED
      BY <3>1, <3>2
  <2> QED
    BY <1>1, <1>2, <2>1, <2>2, <2>3 DEF Stands
<1>4. ASSUME Stands(t, i, a), Stands(t, i + m, b)
      PROVE  Stands(t, i, c)
  <2>1. /\ i + m + n <= l
        /\ \A k \in 1..m : t[i + k] = a[k]
        /\ \A k \in 1..n : t[i + m + k] = b[k]
    BY <1>1, <1>4 DEF Stands
  <2>2. ASSUME NEW k \in 1..(m + n)
        PROVE  t[i + k] = c[k]
    <3>1. CASE k <= m
      BY <1>2, <2>1, <3>1
    <3>2. CASE ~(k <= m)
      <4>1. k - m \in 1..n /\ i + m + (k - m) = i + k
        BY <3>2
      <4> QED
        BY <1>2, <2>1, <3>2, <4>1
    <3> QED
      BY <3>1, <3>2
  <2> QED
    BY <1>1, <1>2, <2>1, <2>2 DEF Stands
<1> QED
  BY <1>1, <1>2, <1>3, <1>4

(* What stands in a part stands in the whole.                              *)
LEMMA StandsWithin ==
    ASSUME NEW S, NEW t \in Seq(S), NEW s \in Seq(S), NEW r \in Seq(S),
           NEW i \in Nat, NEW j \in Nat, Stands(t, i, s), Stands(s, j, r)
    PROVE  Stands(t, i + j, r)
<1>1. /\ Len(t) \in Nat /\ Len(s) \in Nat /\ Len(r) \in Nat
      /\ i + Len(s) <= Len(t) /\ j + Len(r) <= Len(s)
      /\ \A k \in 1..Len(s) : t[i + k] = s[k]
      /\ \A k \in 1..Len(r) : s[j + k] = r[k]
  BY DEF Stands
<1>2. i + j + Len(r) <= Len(t)
  BY <1>1
<1>3. ASSUME NEW k \in 1..Len(r)
      PROVE  t[i + j + k] = r[k]
  <2>1. j + k \in 1..Len(s) /\ i + (j + k) = i + j + k
    BY <1>1
  <2> QED
    BY <1>1, <2>1
<1> QED
  BY <1>3, <1>2 DEF Stands

(* The places of the parts in a concatenation.                             *)
Layout(seqs, t, p) ==
    /\ p \in [0..Len(seqs) -> Nat] /\ p[0] = 0 /\ p[Len(seqs)] = Len(t)
    /\ \A k \in 1..Len(seqs) :
           p[k] = p[k - 1] + Len(seqs[k]) /\ Stands(t, p[k - 1], seqs[k])

(* In a flattened sequence each part has its place, one after the other.   *)
LEMMA FlattenLayout ==
    ASSUME NEW S, NEW seqs \in Seq(Seq(S))
    PROVE  FlattenSeq(seqs) \in Seq(S) /\ \E p : Layout(seqs, FlattenSeq(seqs), p)
<1>1. PICK n \in Nat : n = Len(seqs)
  OBVIOUS
<1>2. \A k \in 1..n : seqs[k] \in Seq(S)
  BY <1>1
<1>3. PICK g : Chain(g, seqs, S)
  BY ChainExists
<1>4. /\ \A k \in 0..n : g[k] \in Seq(S) /\ Len(g[k]) \in Nat
      /\ g[0] = <<>>
      /\ \A k \in 1..n : g[k] = g[k - 1] \o seqs[k]
  <2>1. \A k \in 0..n : g[k] \in Seq(S)
    BY <1>1, <1>3 DEF Chain
  <2>2. \A k \in 0..n : Len(g[k]) \in Nat
    BY <2>1
  <2> QED
    BY <1>1, <1>3, <2>1, <2>2 DEF Chain
<1> DEFINE p == [k \in 0..n |-> Len(g[k])]
           D == 0..n
           rank == [k \in D |-> k]
           P == {m \in D : \A k \in 1..m : Stands(g[m], p[k - 1], seqs[k])}
<1>5. \A k \in 1..n : p[k] = p[k - 1] + Len(seqs[k]) /\ k - 1 \in D
  <2>1. \A k \in 1..n : k - 1 \in D /\ k \in D
    OBVIOUS
  <2>2. ASSUME NEW k \in 1..n
        PROVE  Len(g[k]) = Len(g[k - 1]) + Len(seqs[k])
    <3>1. g[k - 1] \in Seq(S) /\ seqs[k] \in Seq(S) /\ g[k] = g[k - 1] \o seqs[k]
      BY <1>2, <1>4, <2>1
    <3> QED
      BY <3>1, ConcatProperties
  <2> QED
    BY <2>1, <2>2
<1>6. \A m \in D : p[m] \in Nat /\ p[m] = Len(g[m])
  BY <1>4
<1> HIDE DEF p
<1>7. ASSUME NEW m \in D, \A e \in D : rank[e] < rank[m] => e \in P
      PROVE  m \in P
  <2>1. CASE m = 0
    BY <2>1
  <2>2. CASE m # 0
    <3>1. m - 1 \in D /\ m \in 1..n /\ rank[m - 1] < rank[m]
      BY <2>2
    <3>2. m - 1 \in P
      BY <1>7, <3>1
    <3>3. \A k \in 1..(m - 1) : Stands(g[m - 1], p[k - 1], seqs[k])
      BY <3>2
    <3>4. /\ g[m - 1] \in Seq(S) /\ seqs[m] \in Seq(S) /\ g[m] \in Seq(S)
          /\ g[m] = g[m - 1] \o seqs[m]
      BY <1>2, <1>4, <3>1
    <3>5. Stands(g[m], 0, g[m])
      BY <3>4 DEF Stands
    <3>6. Stands(g[m], 0, g[m - 1]) /\ Stands(g[m], 0 + Len(g[m - 1]), seqs[m])
      <4>1. PICK h \in Seq(S), a \in Seq(S), b \in Seq(S) :
                h = g[m] /\ a = g[m - 1] /\ b = seqs[m]
        BY <3>4
      <4>2. Stands(h, 0, a \o b) /\ 0 \in Nat
        BY <3>4, <3>5, <4>1
      <4>3. Stands(h, 0, a) /\ Stands(h, 0 + Len(a), b)
        BY <4>2, StandsConcat, Zenon
      <4> QED
        BY <4>1, <4>3
    <3>7. ASSUME NEW k \in 1..m
          PROVE  Stands(g[m], p[k - 1], seqs[k])
      <4>1. CASE k = m
        <5>1. 0 + Len(g[m - 1]) = p[k - 1]
          BY <1>6, <3>1, <4>1
        <5> QED
          BY <3>6, <4>1, <5>1
      <4>2. CASE k # m
        <5>1. k \in 1..(m - 1) /\ k \in 1..n /\ k - 1 \in D
          BY <4>2
        <5>2. p[k - 1] \in Nat /\ 0 + p[k - 1] = p[k - 1] /\ 0 \in Nat
              /\ seqs[k] \in Seq(S)
          BY <1>2, <1>6, <5>1
        <5>3. Stands(g[m - 1], p[k - 1], seqs[k])
          BY <3>3, <5>1
        <5>4. Stands(g[m], 0 + p[k - 1], seqs[k])
          BY <3>4, <3>6, <5>2, <5>3, StandsWithin
        <5> QED
          BY <5>2, <5>4
      <4> QED
        BY <4>1, <4>2
    <3> QED
      BY <3>7
  <2> QED
    BY <2>1, <2>2
<1>8. \A m \in D : rank[m] \in Nat
  OBVIOUS
<1>9. Inductive(D, rank, P)
  BY <1>7, <1>8 DEF Inductive
<1>10. n \in P
  <2> HIDE DEF P, rank
  <2>1. D \subseteq P
    BY <1>9, RankInduction
  <2> QED
    BY <2>1
<1>11. FlattenSeq(seqs) = g[n] /\ g[n] \in Seq(S)
  BY <1>1, <1>3, <1>4, ChainIsFlatten
<1>12. p \in [0..n -> Nat] /\ p[0] = 0 /\ p[n] = Len(g[n])
  BY <1>4 DEF p
<1>13. Layout(seqs, g[n], p)
  BY <1>1, <1>5, <1>10, <1>12 DEF Layout
<1> QED
  BY <1>11, <1>13

(* Each character of a concatenation is in one of its parts.               *)
LEMMA Inside ==
    ASSUME NEW S, NEW seqs \in Seq(Seq(S)), NEW t \in Seq(S), NEW p,
           Layout(seqs, t, p), NEW x \in 1..Len(t)
    PROVE  \E k \in 1..Len(seqs) : p[k - 1] < x /\ x <= p[k]
<1>1. PICK n \in Nat : n = Len(seqs)
  OBVIOUS
<1>2. /\ \A k \in 0..n : p[k] \in Nat
      /\ p[0] = 0 /\ p[n] = Len(t)
  BY <1>1 DEF Layout
<1> DEFINE Reach == {k \in 0..n : x <= p[k]}
<1>3. n \in Reach
  BY <1>2
<1>4. PICK k \in Reach : \A y \in Reach : k <= y
  <2>1. Reach \in SUBSET Nat /\ Reach # {}
    BY <1>3
  <2> QED
    BY <2>1, Least
<1>5. k # 0
  BY <1>2
<1>6. k - 1 \in 0..n /\ k \in 1..n
  BY <1>5
<1>7. ~(x <= p[k - 1])
  BY <1>4, <1>6
<1>8. p[k - 1] < x /\ x <= p[k]
  BY <1>2, <1>6, <1>7
<1> QED
  BY <1>1, <1>6, <1>8

-----------------------------------------------------------------------------
(* A written string, and what is read of it                                *)

(* Characters that are escapes, and what is written after the backslash.   *)
Escapes(escapes, S) ==
    /\ Quote \in S /\ Backslash \in S
    /\ \A c \in DOMAIN escapes : escapes[c] \in S

(* The k-th character of the word is written in t after place p[k - 1].    *)
StringIn(t, i, word, escapes, p) ==
    /\ p \in [0..Len(word) -> Nat] /\ p[0] = i + 1
    /\ t[i + 1] = Quote
    /\ \A k \in 0..Len(word) : p[k] + 1 <= Len(t)
    /\ t[p[Len(word)] + 1] = Quote
    /\ \A k \in 1..Len(word) :
           \/ /\ word[k] \in DOMAIN escapes
              /\ p[k] = p[k - 1] + 2
              /\ t[p[k - 1] + 1] = Backslash
              /\ t[p[k - 1] + 2] = escapes[word[k]]
           \/ /\ word[k] \notin DOMAIN escapes
              /\ p[k] = p[k - 1] + 1
              /\ t[p[k - 1] + 1] = word[k]

(* One character as it is written.                                         *)
Written(c, escapes) == IF c \in DOMAIN escapes
                       THEN <<Backslash, escapes[c]>> ELSE <<c>>

(* A sequence of one stands where its character is.                        *)
LEMMA StandsOne ==
    ASSUME NEW t, NEW i \in Nat, NEW c
    PROVE  Stands(t, i, <<c>>) <=> i + 1 <= Len(t) /\ t[i + 1] = c
BY DEF Stands

(* A written word stands in a text with its characters at such places.     *)
LEMMA StringLayout ==
    ASSUME NEW S, NEW t \in Seq(S), NEW i \in Nat, NEW word \in Seq(S),
           NEW escapes, Escapes(escapes, S)
    PROVE  /\ WrittenString(word, escapes) \in Seq(S)
           /\ Len(WrittenString(word, escapes)) >= 2
           /\ Stands(t, i, WrittenString(word, escapes)) =>
                  \E p : /\ StringIn(t, i, word, escapes, p)
                         /\ p[Len(word)] + 1 =
                                i + Len(WrittenString(word, escapes))
<1> DEFINE pieces == [k \in 1..Len(word) |-> Written(word[k], escapes)]
           F == FlattenSeq(pieces)
<1>1. PICK n \in Nat : n = Len(word)
  OBVIOUS
<1>2. \A k \in 1..n : word[k] \in S
  BY <1>1
<1>3. WrittenString(word, escapes) = <<Quote>> \o F \o <<Quote>>
  <2>1. DOMAIN word = 1..Len(word)
    OBVIOUS
  <2> QED
    BY <2>1 DEF WrittenString, Written
<1>4. \A k \in 1..n : Written(word[k], escapes) \in Seq(S)
  BY <1>2 DEF Written, Escapes
<1>5. pieces \in Seq(Seq(S)) /\ Len(pieces) = n
      /\ \A k \in 1..n : pieces[k] = Written(word[k], escapes)
  <2>1. PICK X : X = Seq(S)
    OBVIOUS
  <2>2. pieces \in [1..n -> X]
    BY <1>1, <1>4, <2>1
  <2> QED
    BY <1>1, <2>1, <2>2
<1> HIDE DEF pieces
<1>6. F \in Seq(S) /\ \E q : Layout(pieces, F, q)
  BY <1>5, FlattenLayout
<1>7. PICK q : Layout(pieces, F, q)
  BY <1>6
<1>8. PICK G \in Seq(S), m \in Nat : G = F /\ m = Len(G)
  BY <1>6
<1>9. /\ q \in [0..n -> Nat] /\ q[0] = 0 /\ q[n] = m
      /\ \A k \in 1..n : /\ q[k] = q[k - 1] + Len(Written(word[k], escapes))
                         /\ Stands(G, q[k - 1], Written(word[k], escapes))
  BY <1>5, <1>7, <1>8 DEF Layout
<1> HIDE DEF F
<1>10. <<Quote>> \in Seq(S) /\ Len(<<Quote>>) = 1
  BY DEF Escapes
<1>11. /\ <<Quote>> \o G \in Seq(S) /\ Len(<<Quote>> \o G) = 1 + m
       /\ <<Quote>> \o G \o <<Quote>> \in Seq(S)
       /\ Len(<<Quote>> \o G \o <<Quote>>) = m + 2
  <2>1. <<Quote>> \o G \in Seq(S) /\ Len(<<Quote>> \o G) = 1 + m
    BY <1>8, <1>10, ConcatProperties
  <2>2. /\ <<Quote>> \o G \o <<Quote>> \in Seq(S)
        /\ Len(<<Quote>> \o G \o <<Quote>>) = 1 + m + 1
    BY <1>8, <1>10, <2>1, ConcatProperties
  <2> QED
    BY <2>1, <2>2
<1>12. ASSUME Stands(t, i, <<Quote>> \o G \o <<Quote>>)
       PROVE  \E p : /\ StringIn(t, i, word, escapes, p)
                     /\ p[n] + 1 = i + (m + 2)
  <2>1. /\ Stands(t, i, <<Quote>>) /\ Stands(t, i + 1, G)
        /\ Stands(t, i + (1 + m), <<Quote>>)
    <3>1. Stands(t, i, <<Quote>> \o G) /\ Stands(t, i + (1 + m), <<Quote>>)
      BY <1>10, <1>11, <1>12, StandsConcat
    <3> QED
      BY <1>8, <1>10, <3>1, StandsConcat
  <2>2. PICK l \in Nat : l = Len(t)
    OBVIOUS
  <2>3. /\ t[i + 1] = Quote
        /\ i + (1 + m) + 1 <= l /\ t[i + (1 + m) + 1] = Quote
    <3>1. i + (1 + m) \in Nat
      BY <1>8
    <3> QED
      BY <2>1, <2>2, <3>1, StandsOne
  <2> DEFINE p == [k \in 0..n |-> i + 1 + q[k]]
  <2>4. ASSUME NEW k \in 1..n
        PROVE  Stands(t, p[k - 1], Written(word[k], escapes)) /\ k - 1 \in 0..n
    <3>1. k - 1 \in 0..n
      OBVIOUS
    <3>2. q[k - 1] \in Nat /\ i + 1 \in Nat
      BY <1>9, <3>1
    <3>3. Stands(t, i + 1 + q[k - 1], Written(word[k], escapes))
      BY <1>4, <1>8, <1>9, <2>1, <3>2, StandsWithin
    <3> QED
      BY <3>1, <3>3
  <2>5. /\ p \in [0..n -> Nat] /\ p[0] = i + 1 /\ p[n] = i + (1 + m)
        /\ \A k \in 0..n : p[k] = i + 1 + q[k]
    BY <1>9
  <2> HIDE DEF p
  <2>6. ASSUME NEW k \in 1..n
        PROVE  \/ /\ word[k] \in DOMAIN escapes
                  /\ p[k] = p[k - 1] + 2
                  /\ t[p[k - 1] + 1] = Backslash
                  /\ t[p[k - 1] + 2] = escapes[word[k]]
               \/ /\ word[k] \notin DOMAIN escapes
                  /\ p[k] = p[k - 1] + 1
                  /\ t[p[k - 1] + 1] = word[k]
    <3>1. k \in 0..n /\ k - 1 \in 0..n
      OBVIOUS
    <3>2. /\ q[k - 1] \in Nat /\ q[k] \in Nat
          /\ p[k - 1] = i + 1 + q[k - 1] /\ p[k] = i + 1 + q[k]
      BY <1>9, <2>5, <3>1
    <3>3. PICK a \in Nat, b \in Nat, x \in Nat, y \in Nat :
              /\ a = p[k - 1] /\ b = p[k]
              /\ x = q[k - 1] /\ y = q[k]
              /\ a = i + 1 + x /\ b = i + 1 + y
      BY <3>2
    <3>4. CASE word[k] \in DOMAIN escapes
      <4>1. Written(word[k], escapes) = <<Backslash, escapes[word[k]]>>
        BY <3>4 DEF Written
      <4>2. q[k] = q[k - 1] + 2
        BY <1>9, <4>1
      <4>3. y = x + 2 /\ Stands(t, a, <<Backslash, escapes[word[k]]>>)
        BY <2>4, <3>3, <4>1, <4>2
      <4>4. t[a + 1] = Backslash /\ t[a + 2] = escapes[word[k]]
        BY <4>3 DEF Stands
      <4>5. i + 1 + (x + 2) = i + 1 + x + 2
        OBVIOUS
      <4>6. b = a + 2
        BY <3>3, <4>3, <4>5
      <4> QED
        BY <3>3, <3>4, <4>4, <4>6
    <3>5. CASE word[k] \notin DOMAIN escapes
      <4>1. Written(word[k], escapes) = <<word[k]>>
        BY <3>5 DEF Written
      <4>2. q[k] = q[k - 1] + 1
        BY <1>9, <4>1
      <4>3. y = x + 1 /\ Stands(t, a, <<word[k]>>)
        BY <2>4, <3>3, <4>1, <4>2
      <4>4. t[a + 1] = word[k]
        BY <4>3 DEF Stands
      <4>5. i + 1 + (x + 1) = i + 1 + x + 1
        OBVIOUS
      <4>6. b = a + 1
        BY <3>3, <4>3, <4>5
      <4> QED
        BY <3>3, <3>5, <4>4, <4>6
    <3> QED
      BY <3>4, <3>5
  <2>7. \A k \in 0..n : p[k] + 1 <= l
    <3>1. \A k \in 1..n : p[k - 1] + 1 <= l
      <4>1. ASSUME NEW k \in 1..n
            PROVE  p[k - 1] + 1 <= l
        <5>1. PICK a \in Nat : a = p[k - 1]
          BY <2>4, <2>5
        <5>2. Stands(t, a, Written(word[k], escapes))
          BY <2>4, <5>1
        <5>3. Len(Written(word[k], escapes)) \in {1, 2}
          <6>1. CASE word[k] \in DOMAIN escapes
            BY <6>1 DEF Written
          <6>2. CASE word[k] \notin DOMAIN escapes
            BY <6>2 DEF Written
          <6> QED
            BY <6>1, <6>2
        <5>4. a + Len(Written(word[k], escapes)) <= l
          BY <2>2, <5>2 DEF Stands
        <5>5. PICK b \in 1..2 : b = Len(Written(word[k], escapes))
          BY <5>3
        <5>6. a + b <= l
          BY <5>4, <5>5
        <5>7. a + 1 <= l
          <6>1. a \in Nat /\ b \in Nat /\ b >= 1 /\ l \in Nat
            OBVIOUS
          <6> QED
            BY <5>6, <6>1
        <5> QED
          BY <5>1, <5>7
      <4> QED
        BY <4>1
    <3>2. p[n] + 1 <= l
      BY <2>3, <2>5
    <3>3. ASSUME NEW k \in 0..n
          PROVE  p[k] + 1 <= l
      <4>1. CASE k = n
        BY <3>2, <4>1
      <4>2. CASE k # n
        <5>1. k + 1 \in 1..n /\ (k + 1) - 1 = k
          BY <4>2
        <5>2. p[(k + 1) - 1] + 1 <= l
          BY <3>1, <5>1
        <5> QED
          BY <5>1, <5>2
      <4> QED
        BY <4>1, <4>2
    <3> QED
      BY <3>3
  <2>8. StringIn(t, i, word, escapes, p)
    BY <1>1, <2>2, <2>3, <2>5, <2>6, <2>7 DEF StringIn
  <2>9. p[n] + 1 = i + (m + 2)
    BY <2>5
  <2> QED
    BY <2>8, <2>9
<1> QED
  BY <1>1, <1>3, <1>8, <1>11, <1>12

-----------------------------------------------------------------------------
(* Reading a list element by element                                       *)

(* r[k] is what is read behind the k-th element; the elements in `good`    *)
(* can be read, and the list ends before the place `next`.                 *)
Reading(r, items, good, next) ==
    /\ r[Len(items)] = Read(<<>>, next)
    /\ \A k \in 1..Len(items) :
           r[k - 1] = IF k \in good THEN After(items[k], r[k]) ELSE Error

(* Then the first element has read all of them, if none of them is lost.   *)
LEMMA ListRead ==
    ASSUME NEW S, NEW items \in Seq(S), NEW next \in Nat, NEW r, NEW good,
           Reading(r, items, good, next)
    PROVE  r[0] = IF next # 0 /\ 1..Len(items) \subseteq good
                  THEN Read(items, next) ELSE Error
<1>1. PICK n \in Nat : n = Len(items)
  OBVIOUS
<1> DEFINE D == 0..n
           rank == [k \in D |-> n - k]
           Good(k) == next # 0 /\ (k + 1)..n \subseteq good
           P == {k \in D : r[k] = IF Good(k)
                                  THEN Read(SubSeq(items, k + 1, n), next)
                                  ELSE Error}
<1>2. ASSUME NEW k \in D, \A e \in D : rank[e] < rank[k] => e \in P
      PROVE  k \in P
  <2>1. CASE k = n
    <3>1. r[k] = Read(<<>>, next)
      BY <1>1, <2>1 DEF Reading
    <3>2. SubSeq(items, k + 1, n) = <<>>
      BY <2>1, SubSeqEmpty
    <3>3. next = 0 => Read(<<>>, next) = Error
      BY DEF Read, Error
    <3>4. (k + 1)..n \subseteq good
      BY <2>1
    <3> QED
      BY <3>1, <3>2, <3>3, <3>4
  <2>2. CASE k # n
    <3>1. k + 1 \in 1..n /\ k + 1 \in D /\ (k + 1) - 1 = k
          /\ rank[k + 1] < rank[k]
      BY <2>2
    <3>2. k + 1 \in P
      BY <1>2, <3>1
    <3>3. PICK x, rest : x = items[k + 1] /\ rest = SubSeq(items, k + 2, n)
      OBVIOUS
    <3>4. r[k + 1] = IF Good(k + 1) THEN Read(rest, next) ELSE Error
      <4>1. (k + 1) + 1 = k + 2
        OBVIOUS
      <4> QED
        BY <3>2, <3>3, <4>1
    <3>5. r[k] = IF k + 1 \in good THEN After(x, r[k + 1]) ELSE Error
      BY <1>1, <3>1, <3>3 DEF Reading
    <3>6. SubSeq(items, k + 1, n) = <<x>> \o rest
      <4>1. k + 1 \in 1..Len(items) /\ n \in (k + 1)..Len(items)
            /\ (k + 1) + 1 = k + 2
        BY <1>1, <3>1
      <4> QED
        BY <3>3, <4>1, SubSeqRecursiveFirst
    <3>7. Good(k) <=> k + 1 \in good /\ Good(k + 1)
      <4>1. \A m : m \in (k + 1)..n <=> m = k + 1 \/ m \in (k + 1 + 1)..n
        BY <3>1
      <4> QED
        BY <4>1
    <3>8. After(x, Error) = Error
      BY DEF After, Error
    <3>9. next # 0 => After(x, Read(rest, next)) = Read(<<x>> \o rest, next)
      BY DEF After, Read
    <3>10. r[k] = IF Good(k) THEN Read(<<x>> \o rest, next) ELSE Error
      <4>1. Good(k + 1) => next # 0
        OBVIOUS
      <4> HIDE DEF Good
      <4> QED
        BY <3>4, <3>5, <3>7, <3>8, <3>9, <4>1
    <3> QED
      BY <3>6, <3>10
  <2> QED
    BY <2>1, <2>2
<1>3. \A k \in D : rank[k] \in Nat
  OBVIOUS
<1>4. 0 \in P
  <2> HIDE DEF P, rank
  <2>1. Inductive(D, rank, P)
    BY <1>2, <1>3 DEF Inductive
  <2>2. D \subseteq P
    BY <2>1, RankInduction
  <2> QED
    BY <2>2
<1>5. SubSeq(items, 0 + 1, n) = items
  BY <1>1, SubSeqFull
<1>6. r[0] = IF Good(0) THEN Read(items, next) ELSE Error
  BY <1>4, <1>5
<1> QED
  BY <1>1, <1>6

-----------------------------------------------------------------------------
(* A character is read as it was written, or its letter is not known.      *)
Understood(c, escapes, letters) ==
    IF c \in DOMAIN escapes
    THEN escapes[c] \in DOMAIN letters /\ letters[escapes[c]] = c
    ELSE c \notin {"end", Quote, Backslash}

(* An escape the reader does not know.                                     *)
Lost(c, escapes, letters) ==
    c \in DOMAIN escapes /\ escapes[c] \notin DOMAIN letters

(* A word none of whose characters is lost.                                *)
Clear(word, escapes, letters) ==
    \A k \in 1..Len(word) : Understood(word[k], escapes, letters)

(* Letters and escapes such that a character is understood or lost.        *)
Coding(S, escapes, letters) ==
    /\ Escapes(escapes, S) /\ Letters(letters, S)
    /\ \A c \in S : Understood(c, escapes, letters) \/ Lost(c, escapes, letters)

(* A written word is read as it is, or not at all.                         *)
LEMMA WordRead ==
    ASSUME NEW S, NEW t \in Seq(S), NEW i \in Nat, NEW word \in Seq(S),
           NEW escapes, NEW letters, Coding(S, escapes, letters),
           Stands(t, i, WrittenString(word, escapes))
    PROVE  ReadString(t, letters, i + 2) =
               IF Clear(word, escapes, letters)
               THEN Read(word, i + Len(WrittenString(word, escapes)) + 1)
               ELSE Error
<1>1. Letters(letters, S)
  BY DEF Coding
<1>2. PICK n \in Nat, l \in Nat : n = Len(word) /\ l = Len(t)
  OBVIOUS
<1>3. PICK m \in Nat : m = Len(WrittenString(word, escapes))
  <2>1. WrittenString(word, escapes) \in Seq(S)
    BY StringLayout DEF Coding
  <2> QED
    BY <2>1
<1>4. PICK p : StringIn(t, i, word, escapes, p) /\ p[n] + 1 = i + m
  BY <1>2, <1>3, StringLayout DEF Coding
<1>5. /\ p \in [0..n -> Nat] /\ p[0] = i + 1 /\ p[n] + 1 = i + m
      /\ \A k \in 0..n : p[k] + 1 <= l
      /\ t[p[n] + 1] = Quote
  BY <1>2, <1>4 DEF StringIn
<1>6. \A x \in 1..l : x \in Places(t) /\ At(t, x) = t[x]
  BY <1>2 DEF Places, At
<1>7. \A k \in 0..n : p[k] \in Nat /\ p[k] + 1 \in 1..l
  BY <1>5
<1> DEFINE r == [k \in 0..n |-> ReadString(t, letters, p[k] + 1)]
           good == {k \in 1..n : Understood(word[k], escapes, letters)}
<1>8. r[n] = Read(<<>>, p[n] + 2)
  <2>1. PICK x : x = p[n] + 1 /\ x \in 1..l /\ x + 1 = p[n] + 2
    BY <1>7
  <2>2. At(t, x) = Quote /\ x \in Places(t)
    BY <1>5, <1>6, <2>1
  <2>3. ReadString(t, letters, x) = Read(<<>>, x + 1)
    BY <2>2, <1>1, StringStep
  <2> QED
    BY <2>1, <2>3
<1>9. ASSUME NEW k \in 1..n
      PROVE  r[k - 1] = IF k \in good THEN After(word[k], r[k]) ELSE Error
  <2>1. k - 1 \in 0..n /\ k \in 0..n
    OBVIOUS
  <2>2. PICK a \in Nat, b \in Nat : /\ a = p[k - 1] /\ b = p[k]
                                    /\ a + 1 \in 1..l /\ b + 1 \in 1..l
    BY <1>7, <2>1
  <2>3. /\ r[k - 1] = ReadString(t, letters, a + 1)
        /\ r[k] = ReadString(t, letters, b + 1)
    BY <2>1, <2>2
  <2>4. PICK c \in S : c = word[k]
    BY <1>2
  <2>5. \/ /\ c \in DOMAIN escapes /\ b = a + 2
           /\ t[a + 1] = Backslash /\ t[a + 2] = escapes[c]
        \/ /\ c \notin DOMAIN escapes /\ b = a + 1 /\ t[a + 1] = c
    BY <1>2, <1>4, <2>2, <2>4 DEF StringIn
  <2>6. k \in good <=> Understood(c, escapes, letters)
    BY <2>4
  <2>7. Understood(c, escapes, letters) \/ Lost(c, escapes, letters)
    BY DEF Coding
  <2>8. a + 1 \in Places(t) /\ At(t, a + 1) = t[a + 1]
    BY <1>6, <2>2
  <2> HIDE DEF r, good
  <2>9. CASE c \in DOMAIN escapes
    <3>1. /\ b = a + 2 /\ b + 1 = a + 1 + 2
          /\ At(t, a + 1) = Backslash /\ t[a + 1 + 1] = escapes[c]
          /\ a + 1 + 1 \in 1..l
      <4>1. a + 2 = a + 1 + 1
        OBVIOUS
      <4>2. /\ b = a + 2 /\ t[a + 1] = Backslash
            /\ t[a + 1 + 1] = escapes[c]
        BY <2>5, <2>9, <4>1
      <4>3. b + 1 = a + 1 + 2 /\ a + 1 + 1 \in 1..l
        <5>1. a + 1 \in 1..l /\ b + 1 \in 1..l /\ b = a + 2
          BY <2>2, <4>2
        <5> QED
          BY <5>1
      <4> QED
        BY <2>8, <4>2, <4>3
    <3>2. At(t, a + 1 + 1) = escapes[c]
      BY <1>6, <3>1
    <3>3. At(t, a + 1) # "end" /\ At(t, a + 1) # Quote
      BY <3>1 DEF Backslash, Quote
    <3>4. CASE Understood(c, escapes, letters)
      <4>1. escapes[c] \in DOMAIN letters /\ letters[escapes[c]] = c
        BY <2>9, <3>4 DEF Understood
      <4>2. ReadString(t, letters, a + 1) =
                After(letters[t[a + 1 + 1]], ReadString(t, letters, a + 1 + 2))
        BY <2>8, <3>1, <3>2, <4>1, <1>1, StringStep
      <4> QED
        BY <2>3, <2>4, <2>6, <3>1, <3>4, <4>1, <4>2
    <3>5. CASE ~Understood(c, escapes, letters)
      <4>1. escapes[c] \notin DOMAIN letters
        BY <2>7, <3>5 DEF Lost
      <4>2. ReadString(t, letters, a + 1) = Error
        BY <2>8, <3>1, <3>2, <4>1, <1>1, StringStep
      <4> QED
        BY <2>3, <2>6, <3>5, <4>2
    <3> QED
      BY <3>4, <3>5
  <2>10. CASE c \notin DOMAIN escapes
    <3>1. Understood(c, escapes, letters) /\ c \notin {"end", Quote, Backslash}
      BY <2>7, <2>10 DEF Understood, Lost
    <3>2. At(t, a + 1) = c /\ t[a + 1] = c /\ b + 1 = a + 1 + 1
      BY <2>2, <2>5, <2>8, <2>10
    <3>3. ReadString(t, letters, a + 1) =
              After(t[a + 1], ReadString(t, letters, a + 1 + 1))
      BY <2>8, <3>1, <3>2, <1>1, StringStep
    <3> QED
      BY <2>3, <2>4, <2>6, <3>1, <3>2, <3>3
  <2> QED
    BY <2>9, <2>10
<1>10. p[n] + 2 = i + m + 1 /\ p[n] + 2 \in Nat /\ p[n] + 2 # 0
  <2>1. n \in 0..n
    OBVIOUS
  <2>2. PICK z \in Nat : z = p[n] /\ z + 1 = i + m
    BY <1>5, <1>7, <2>1
  <2>3. z + 2 = i + m + 1 /\ z + 2 \in Nat /\ z + 2 # 0
    BY <2>2
  <2> QED
    BY <2>2, <2>3
<1>11. r[0] = ReadString(t, letters, i + 2)
  <2>1. p[0] + 1 = i + 2 /\ 0 \in 0..n
    BY <1>5
  <2> QED
    BY <2>1
<1>12. 1..n \subseteq good <=> Clear(word, escapes, letters)
  BY <1>2 DEF Clear
<1> HIDE DEF r, good
<1>13. Reading(r, word, good, p[n] + 2)
  BY <1>2, <1>8, <1>9 DEF Reading
<1>14. r[0] = IF 1..n \subseteq good THEN Read(word, p[n] + 2) ELSE Error
  BY <1>2, <1>10, <1>13, ListRead
<1> QED
  BY <1>3, <1>10, <1>11, <1>12, <1>14

-----------------------------------------------------------------------------
(* The places of the elements of a written array                           *)

(* What an array is written with, besides its items.                       *)
Marks == {"[", "]", ","}

(* The k-th item is written in t after place a[k - 1], and a separator, or *)
(* the last bracket, at a[k].                                              *)
ArrayIn(t, i, items, a) ==
    /\ a \in [0..Len(items) -> Nat] /\ a[0] = i + 1 /\ t[i + 1] = "["
    /\ \A k \in 1..Len(items) :
           /\ Stands(t, a[k - 1], items[k])
           /\ a[k] = a[k - 1] + Len(items[k]) + 1
           /\ a[k] \in 1..Len(t)
           /\ t[a[k]] = IF k = Len(items) THEN "]" ELSE ","
    /\ i + 2 <= Len(t)
    /\ Len(items) = 0 => t[i + 2] = "]"

(* The place before the closing bracket, in the text an array stands in.   *)
ArrayEnd(i, items, a) == IF Len(items) = 0 THEN i + 2 ELSE a[Len(items)]

(* A written array stands in a text with its items at such places.         *)
LEMMA ArrayLayout ==
    ASSUME NEW S, Marks \subseteq S, NEW t \in Seq(S), NEW i \in Nat,
           NEW items \in Seq(Seq(S))
    PROVE  /\ WrittenArray(items) \in Seq(S)
           /\ Len(WrittenArray(items)) >= 2
           /\ Stands(t, i, WrittenArray(items)) =>
                  \E a : /\ ArrayIn(t, i, items, a)
                         /\ ArrayEnd(i, items, a) =
                                i + Len(WrittenArray(items))
<1> DEFINE pieces == [k \in 1..Len(items) |->
                         IF k = 1 THEN items[k] ELSE <<",">> \o items[k]]
           F == FlattenSeq(pieces)
<1>1. PICK n \in Nat : n = Len(items)
  OBVIOUS
<1>2. \A k \in 1..n : items[k] \in Seq(S) /\ Len(items[k]) \in Nat
  <2>1. \A k \in 1..n : items[k] \in Seq(S)
    BY <1>1
  <2> QED
    BY <2>1
<1>3. WrittenArray(items) = <<"[">> \o F \o <<"]">>
  <2>1. DOMAIN items = 1..Len(items)
    <3>1. PICK X : X = Seq(S)
      OBVIOUS
    <3> QED
      BY <3>1
  <2> QED
    BY <2>1 DEF WrittenArray
<1>4. /\ <<"[">> \in Seq(S) /\ <<"]">> \in Seq(S) /\ <<",">> \in Seq(S)
      /\ Len(<<"[">>) = 1 /\ Len(<<"]">>) = 1 /\ Len(<<",">>) = 1
  <2>1. PICK x \in S, y \in S, z \in S : x = "[" /\ y = "]" /\ z = ","
    BY DEF Marks
  <2>2. /\ <<x>> \in Seq(S) /\ <<y>> \in Seq(S) /\ <<z>> \in Seq(S)
        /\ Len(<<x>>) = 1 /\ Len(<<y>>) = 1 /\ Len(<<z>>) = 1
    OBVIOUS
  <2> QED
    BY <2>1, <2>2
<1>5. ASSUME NEW k \in 1..n
      PROVE  /\ <<",">> \o items[k] \in Seq(S)
             /\ Len(<<",">> \o items[k]) = 1 + Len(items[k])
  <2>1. PICK u \in Seq(S), w \in Seq(S) :
            u = <<",">> /\ w = items[k] /\ Len(u) = 1
    BY <1>2, <1>4
  <2>2. u \o w \in Seq(S) /\ Len(u \o w) = Len(u) + Len(w)
    BY ConcatProperties
  <2> QED
    BY <2>1, <2>2
<1>6. pieces \in Seq(Seq(S)) /\ Len(pieces) = n
      /\ \A k \in 1..n : pieces[k] = IF k = 1 THEN items[k]
                                     ELSE <<",">> \o items[k]
  <2>1. PICK X : X = Seq(S)
    OBVIOUS
  <2>2. ASSUME NEW k \in 1..n
        PROVE  (IF k = 1 THEN items[k] ELSE <<",">> \o items[k]) \in X
    <3>1. items[k] \in X /\ <<",">> \o items[k] \in X
      BY <1>2, <1>5, <2>1
    <3> QED
      BY <3>1
  <2>3. pieces \in [1..n -> X]
    BY <1>1, <2>2
  <2>4. \A k \in 1..n : pieces[k] = IF k = 1 THEN items[k]
                                   ELSE <<",">> \o items[k]
    BY <1>1
  <2> HIDE DEF pieces
  <2>5. pieces \in Seq(X) /\ Len(pieces) = n
    BY <2>3
  <2> QED
    BY <2>1, <2>4, <2>5
<1> HIDE DEF pieces
<1>7. F \in Seq(S) /\ \E q : Layout(pieces, F, q)
  BY <1>6, FlattenLayout
<1>8. PICK q : Layout(pieces, F, q)
  BY <1>7
<1>9. PICK G \in Seq(S), m \in Nat : G = F /\ m = Len(G)
  BY <1>7
<1>10. /\ q \in [0..n -> Nat] /\ q[0] = 0 /\ q[n] = m
       /\ \A k \in 1..n : /\ q[k] = q[k - 1] + Len(pieces[k])
                          /\ Stands(G, q[k - 1], pieces[k])
  BY <1>6, <1>8, <1>9 DEF Layout
<1> HIDE DEF F
<1>11. /\ <<"[">> \o G \in Seq(S) /\ Len(<<"[">> \o G) = 1 + m
       /\ <<"[">> \o G \o <<"]">> \in Seq(S)
       /\ Len(<<"[">> \o G \o <<"]">>) = m + 2
  <2>1. <<"[">> \o G \in Seq(S) /\ Len(<<"[">> \o G) = 1 + m
    BY <1>4, <1>9, ConcatProperties
  <2>2. /\ <<"[">> \o G \o <<"]">> \in Seq(S)
        /\ Len(<<"[">> \o G \o <<"]">>) = 1 + m + 1
    <3>1. PICK u \in Seq(S), w \in Seq(S) :
              /\ u = <<"[">> \o G /\ w = <<"]">>
              /\ Len(u) = 1 + m /\ Len(w) = 1
      BY <1>4, <2>1
    <3>2. u \o w \in Seq(S) /\ Len(u \o w) = Len(u) + Len(w)
      BY ConcatProperties
    <3> QED
      BY <3>1, <3>2
  <2> QED
    BY <2>1, <2>2
<1>12. ASSUME Stands(t, i, <<"[">> \o G \o <<"]">>)
       PROVE  \E a : /\ ArrayIn(t, i, items, a)
                     /\ ArrayEnd(i, items, a) = i + (m + 2)
  <2>1. /\ Stands(t, i, <<"[">>) /\ Stands(t, i + 1, G)
        /\ Stands(t, i + (1 + m), <<"]">>)
    <3>1. Stands(t, i, <<"[">> \o G) /\ Stands(t, i + (1 + m), <<"]">>)
      BY <1>4, <1>11, <1>12, StandsConcat
    <3> QED
      BY <1>4, <1>9, <3>1, StandsConcat
  <2>2. PICK l \in Nat : l = Len(t)
    OBVIOUS
  <2>3. /\ t[i + 1] = "["
        /\ i + (1 + m) + 1 <= l /\ t[i + (1 + m) + 1] = "]"
    <3>1. i + (1 + m) \in Nat
      BY <1>9
    <3> QED
      BY <2>1, <2>2, <3>1, StandsOne
  <2> DEFINE a == [k \in 0..n |-> IF k = 0 THEN i + 1 ELSE i + 2 + q[k]]
  <2>4. \A k \in 0..n : q[k] \in Nat
    BY <1>10
  <2>5. /\ a \in [0..n -> Nat] /\ a[0] = i + 1
        /\ \A k \in 1..n : a[k] = i + 2 + q[k]
    BY <2>4
  <2> HIDE DEF a
  <2>6. ASSUME NEW k \in 1..n
        PROVE  /\ k - 1 \in 0..n /\ k \in 0..n
               /\ Stands(t, a[k - 1], items[k])
               /\ a[k] = a[k - 1] + Len(items[k]) + 1
               /\ k # 1 => t[a[k - 1]] = "," /\ a[k - 1] <= l
    <3>1. k - 1 \in 0..n /\ k \in 0..n
      OBVIOUS
    <3>2. PICK x \in Nat, y \in Nat, c \in Nat :
              x = q[k - 1] /\ y = q[k] /\ c = Len(items[k])
      BY <1>2, <2>4, <3>1
    <3>3. Stands(t, i + 1 + x, pieces[k]) /\ y = x + Len(pieces[k])
      <4>1. pieces[k] \in Seq(S) /\ Stands(G, x, pieces[k]) /\ i + 1 \in Nat
        <5>1. pieces[k] \in Seq(S)
          <6>1. pieces[k] = items[k] \/ pieces[k] = <<",">> \o items[k]
            BY <1>6
          <6> QED
            BY <1>2, <1>5, <6>1
        <5>2. Stands(G, x, pieces[k])
          BY <1>10, <3>2
        <5> QED
          BY <5>1, <5>2
      <4>2. Stands(t, i + 1 + x, pieces[k])
        BY <1>9, <2>1, <4>1, StandsWithin
      <4> QED
        BY <1>10, <3>2, <4>2
    <3>4. a[k] = i + 2 + y
      BY <2>5, <3>2
    <3>5. CASE k = 1
      <4>1. x = 0 /\ pieces[k] = items[k] /\ a[k - 1] = i + 1
        <5>1. x = 0
          BY <1>10, <3>2, <3>5
        <5>2. pieces[k] = items[k]
          BY <1>6, <3>5
        <5>3. a[k - 1] = i + 1
          BY <2>5, <3>5
        <5> QED
          BY <5>1, <5>2, <5>3
      <4>2. Stands(t, i + 1, items[k]) /\ y = c
        <5>1. i + 1 + x = i + 1
          BY <4>1
        <5> QED
          BY <3>2, <3>3, <4>1, <5>1
      <4>3. a[k] = a[k - 1] + c + 1
        BY <3>4, <4>1, <4>2
      <4> QED
        BY <3>1, <3>2, <3>5, <4>1, <4>2, <4>3
    <3>6. CASE k # 1
      <4>1. /\ pieces[k] = <<",">> \o items[k] /\ k - 1 \in 1..n
            /\ Len(pieces[k]) = 1 + c
        <5>1. pieces[k] = <<",">> \o items[k]
          BY <1>6, <3>6
        <5>2. k - 1 \in 1..n
          BY <3>6
        <5>3. Len(<<",">> \o items[k]) = 1 + c
          BY <1>5, <3>2
        <5> QED
          BY <5>1, <5>2, <5>3
      <4>2. a[k - 1] = i + 2 + x /\ y = x + (1 + c)
        BY <2>5, <3>2, <3>3, <4>1
      <4>3. /\ Stands(t, i + 1 + x, <<",">>)
            /\ Stands(t, i + 1 + x + 1, items[k])
        <5>1. PICK j \in Nat : j = i + 1 + x
          OBVIOUS
        <5>2. PICK u \in Seq(S), w \in Seq(S) :
                  u = <<",">> /\ w = items[k] /\ Len(u) = 1
          BY <1>2, <1>4
        <5>3. Stands(t, j, u \o w)
          BY <3>3, <4>1, <5>1, <5>2
        <5>4. Stands(t, j, u) /\ Stands(t, j + Len(u), w)
          BY <5>3, StandsConcat
        <5> QED
          BY <5>1, <5>2, <5>4
      <4>4. t[i + 1 + x + 1] = "," /\ i + 1 + x + 1 <= l
        <5>1. i + 1 + x \in Nat
          OBVIOUS
        <5> QED
          BY <2>2, <4>3, <5>1, StandsOne
      <4>5. i + 1 + x + 1 = i + 2 + x
        OBVIOUS
      <4>6. a[k] = a[k - 1] + c + 1
        BY <3>4, <4>2
      <4> QED
        BY <3>1, <3>2, <4>2, <4>3, <4>4, <4>5, <4>6
    <3> QED
      BY <3>5, <3>6
  <2>7. ASSUME NEW k \in 1..n
        PROVE  a[k] \in 1..l /\ t[a[k]] = IF k = n THEN "]" ELSE ","
    <3>1. PICK b \in Nat : b = a[k] /\ b >= 1
      <4>1. q[k] \in Nat /\ a[k] = i + 2 + q[k]
        BY <2>4, <2>5
      <4> QED
        BY <4>1
    <3>2. CASE k = n
      <4>1. b = i + (1 + m) + 1
        <5>1. b = i + 2 + m
          BY <1>10, <2>5, <3>1, <3>2
        <5> QED
          BY <5>1
      <4>2. b \in 1..l
        <5>1. b <= l
          BY <2>3, <4>1
        <5>2. b >= 1
          BY <3>1
        <5> QED
          BY <5>1, <5>2
      <4> QED
        BY <2>3, <3>1, <3>2, <4>1, <4>2
    <3>3. CASE k # n
      <4>1. k + 1 \in 1..n /\ k + 1 # 1 /\ (k + 1) - 1 = k
        BY <3>3
      <4>2. t[b] = "," /\ b <= l
        BY <2>6, <3>1, <4>1
      <4>3. b \in 1..l
        <5>1. b >= 1
          BY <3>1
        <5>2. b <= l
          BY <4>2
        <5> QED
          BY <5>1, <5>2
      <4> QED
        BY <3>1, <3>3, <4>2, <4>3
    <3> QED
      BY <3>2, <3>3
  <2>8. i + 2 <= l /\ (n = 0 => t[i + 2] = "]")
    <3>1. i + 2 <= l
      BY <1>9, <2>3
    <3>2. n = 0 => i + (1 + m) + 1 = i + 2
      BY <1>10
    <3> QED
      BY <2>3, <3>1, <3>2
  <2>9. ArrayIn(t, i, items, a)
    BY <1>1, <2>2, <2>3, <2>5, <2>6, <2>7, <2>8 DEF ArrayIn
  <2>10. ArrayEnd(i, items, a) = i + (m + 2)
    <3>1. n # 0 => a[n] = i + 2 + m
      BY <1>10, <2>5
    <3>2. n = 0 => m = 0
      BY <1>10
    <3> QED
      BY <1>1, <3>1, <3>2 DEF ArrayEnd
  <2> QED
    BY <2>9, <2>10
<1> QED
  BY <1>3, <1>9, <1>11, <1>12

(* A character of a written array is a mark or in one of the items, behind *)
(* which stands a mark.                                                    *)
InArray(S, t, i, items, a, x) ==
    /\ t \in Seq(S) /\ i \in Nat /\ items \in Seq(Seq(S))
    /\ ArrayIn(t, i, items, a)
    /\ x \in Nat /\ i < x /\ x <= ArrayEnd(i, items, a)

(* A character of an array is a mark or lies in one of its items.          *)
LEMMA InsideArray ==
    ASSUME NEW S, NEW t, NEW i, NEW items, NEW a, NEW x,
           InArray(S, t, i, items, a, x)
    PROVE  \/ t[x] \in Marks
           \/ \E k \in 1..Len(items) :
                  a[k - 1] < x /\ x <= a[k - 1] + Len(items[k])
<1> SUFFICES ASSUME t \in Seq(S), i \in Nat, items \in Seq(Seq(S)),
                    ArrayIn(t, i, items, a),
                    x \in Nat, i < x, x <= ArrayEnd(i, items, a)
             PROVE  \/ t[x] \in Marks
                    \/ \E k \in 1..Len(items) :
                           a[k - 1] < x /\ x <= a[k - 1] + Len(items[k])
  BY DEF InArray
<1>1. PICK n \in Nat : n = Len(items)
  OBVIOUS
<1>2. /\ a \in [0..n -> Nat] /\ a[0] = i + 1 /\ t[i + 1] = "["
      /\ n = 0 => t[i + 2] = "]"
      /\ \A k \in 1..n : /\ a[k] = a[k - 1] + Len(items[k]) + 1
                         /\ t[a[k]] \in Marks
  BY <1>1 DEF ArrayIn, Marks
<1>3. CASE x = i + 1
  BY <1>2, <1>3 DEF Marks
<1>4. CASE x # i + 1 /\ n = 0
  <2>1. x <= i + 2 /\ n = 0
    BY <1>1, <1>4 DEF ArrayEnd
  <2>2. x = i + 2
    BY <1>4, <2>1
  <2> QED
    BY <1>2, <2>1, <2>2 DEF Marks
<1>5. CASE x # i + 1 /\ n # 0
  <2>1. x <= a[n] /\ \A k \in 0..n : a[k] \in Nat
    BY <1>1, <1>2, <1>5 DEF ArrayEnd
  <2> DEFINE Reach == {k \in 0..n : x <= a[k]}
  <2>2. n \in Reach
    BY <2>1
  <2>3. PICK k \in Reach : \A y \in Reach : k <= y
    <3>1. Reach \in SUBSET Nat
      OBVIOUS
    <3>2. Reach # {}
      BY <2>2
    <3> HIDE DEF Reach
    <3> QED
      BY <3>1, <3>2, Least
  <2>4. k # 0
    BY <1>2, <1>5
  <2>5. k - 1 \in 0..n /\ k \in 1..n
    BY <2>4
  <2>6. ~(x <= a[k - 1])
    BY <2>3, <2>5
  <2>7. a[k - 1] < x /\ x <= a[k]
    BY <2>1, <2>3, <2>5, <2>6
  <2>8. CASE x = a[k]
    BY <1>2, <2>5, <2>8
  <2>9. CASE x # a[k]
    <3>1. Len(items[k]) \in Nat
      <4>1. items[k] \in Seq(S)
        BY <1>1, <2>5
      <4> QED
        BY <4>1
    <3>2. a[k] = a[k - 1] + Len(items[k]) + 1 /\ a[k - 1] \in Nat
      BY <1>2, <2>1, <2>5
    <3>3. x <= a[k - 1] + Len(items[k])
      BY <2>7, <2>9, <3>1, <3>2
    <3> QED
      BY <1>1, <2>5, <2>7, <3>2, <3>3
  <2> QED
    BY <2>8, <2>9
<1> QED
  BY <1>3, <1>4, <1>5

-----------------------------------------------------------------------------
(* Reading a written command                                               *)

(* The words of a command as they are written.                             *)
Strings(command, escapes) ==
    [k \in 1..Len(command) |-> WrittenString(command[k], escapes)]

(* A command is written as the array of its written words.                 *)
LEMMA CommandIsArray ==
    ASSUME NEW S, Marks \subseteq S, NEW command \in Seq(Seq(S)),
           NEW escapes, Escapes(escapes, S)
    PROVE  /\ Strings(command, escapes) \in Seq(Seq(S))
           /\ Len(Strings(command, escapes)) = Len(command)
           /\ \A k \in 1..Len(command) :
                  /\ command[k] \in Seq(S)
                  /\ Strings(command, escapes)[k] =
                         WrittenString(command[k], escapes)
           /\ WrittenCommand(command, escapes) =
                  WrittenArray(Strings(command, escapes))
           /\ WrittenCommand(command, escapes) \in Seq(S)
           /\ Len(WrittenCommand(command, escapes)) >= 2
<1>1. PICK n \in Nat, X \in {Seq(S)} :
          n = Len(command) /\ X = Seq(S)
  OBVIOUS
<1>2. \A k \in 1..n : command[k] \in X
  BY <1>1
<1>3. \A k \in 1..n : WrittenString(command[k], escapes) \in X
  <2>1. ASSUME NEW k \in 1..n
        PROVE  WrittenString(command[k], escapes) \in Seq(S)
    BY <1>1, <1>2, StringLayout
  <2> QED
    BY <1>1, <2>1
<1>4. PICK s : s = Strings(command, escapes)
  OBVIOUS
<1>5. s \in [1..n -> X]
      /\ \A k \in 1..n : s[k] = WrittenString(command[k], escapes)
  BY <1>1, <1>3, <1>4 DEF Strings
<1>6. s \in Seq(X) /\ Len(s) = n
  BY <1>5
<1>7. WrittenCommand(command, escapes) = WrittenArray(s)
  <2>1. DOMAIN command = 1..Len(command)
    BY <1>1
  <2> QED
    BY <1>4, <2>1 DEF WrittenCommand, Strings
<1>8. WrittenArray(s) \in X /\ Len(WrittenArray(s)) >= 2
  <2>1. s \in Seq(Seq(S)) /\ <<>> \in Seq(S) /\ 0 \in Nat
    BY <1>1, <1>6
  <2>2. WrittenArray(s) \in Seq(S) /\ Len(WrittenArray(s)) >= 2
    BY <2>1, ArrayLayout
  <2> QED
    BY <1>1, <2>2
<1> QED
  BY <1>1, <1>2, <1>4, <1>5, <1>6, <1>7, <1>8

(* A command none of whose words loses a character.                        *)
AllClear(command, escapes, letters) ==
    \A k \in 1..Len(command) : Clear(command[k], escapes, letters)

(* A written command is read as it is, or not at all; where a bracket does *)
(* not end the array, the command with a word that ends the line is not.   *)
CommandStands(S, t, i, command, escapes, letters, closes, e) ==
    /\ Marks \subseteq S /\ Coding(S, escapes, letters)
    /\ t \in Seq(S) /\ i \in Nat /\ command \in Seq(Seq(S))
    /\ closes \in BOOLEAN /\ (closes \/ e = Len(t))
    /\ e = i + Len(WrittenCommand(command, escapes))
    /\ Stands(t, i, WrittenCommand(command, escapes))

(* A written command is read as it is if its array is closed and its words *)
(* are clear, and a command of no words in any case.                       *)
LEMMA CommandIsRead ==
    ASSUME NEW S, NEW t, NEW i, NEW command, NEW escapes, NEW letters,
           NEW closes, NEW e,
           CommandStands(S, t, i, command, escapes, letters, closes, e)
    PROVE  ReadCommand(t, letters, closes, i + 2) =
               IF \/ Len(command) = 0
                  \/ closes /\ AllClear(command, escapes, letters)
               THEN Read(command, e + 1) ELSE Error
<1> SUFFICES ASSUME Marks \subseteq S, t \in Seq(S), i \in Nat,
                    command \in Seq(Seq(S)), Coding(S, escapes, letters),
                    closes \in BOOLEAN,
                    e = i + Len(WrittenCommand(command, escapes)),
                    Stands(t, i, WrittenCommand(command, escapes)),
                    closes \/ e = Len(t)
             PROVE  ReadCommand(t, letters, closes, i + 2) =
                        IF \/ Len(command) = 0
                           \/ closes /\ AllClear(command, escapes, letters)
                        THEN Read(command, e + 1) ELSE Error
  BY DEF CommandStands
<1>1. PICK n \in Nat, l \in Nat : n = Len(command) /\ l = Len(t)
  OBVIOUS
<1>2. PICK s \in Seq(Seq(S)) :
          /\ Len(s) = n
          /\ \A k \in 1..n : /\ command[k] \in Seq(S)
                             /\ s[k] = WrittenString(command[k], escapes)
          /\ WrittenCommand(command, escapes) = WrittenArray(s)
          /\ WrittenCommand(command, escapes) \in Seq(S)
  BY <1>1, CommandIsArray, Zenon DEF Coding
<1>3. e \in Nat
  BY <1>2
<1>4. PICK a : ArrayIn(t, i, s, a) /\ ArrayEnd(i, s, a) = e
  <2>1. Stands(t, i, WrittenArray(s))
    BY <1>2
  <2>2. \E a : ArrayIn(t, i, s, a)
               /\ ArrayEnd(i, s, a) = i + Len(WrittenArray(s))
    BY <2>1, ArrayLayout, Zenon
  <2> QED
    BY <1>2, <2>2
<1>5. /\ a \in [0..n -> Nat] /\ a[0] = i + 1
      /\ \A k \in 1..n :
             /\ Stands(t, a[k - 1], s[k])
             /\ a[k] = a[k - 1] + Len(s[k]) + 1
             /\ a[k] \in 1..l
             /\ t[a[k]] = IF k = n THEN "]" ELSE ","
      /\ i + 2 <= l
      /\ n = 0 => t[i + 2] = "]" /\ e = i + 2
      /\ n # 0 => e = a[n]
  BY <1>1, <1>2, <1>4 DEF ArrayIn, ArrayEnd
<1>6. i + 2 <= l /\ i + 2 \in 1..l /\ a[0] + 1 = i + 2
  <2>1. i + 2 <= l
    BY <1>5
  <2>2. a[0] = i + 1
    BY <1>5
  <2> QED
    BY <2>1, <2>2
<1>7. \A x \in 1..l : x \in Places(t) /\ At(t, x) = t[x]
  BY <1>1 DEF Places, At
<1>8. Letters(letters, S)
  BY DEF Coding
<1>9. CASE n = 0
  <2>1. PICK x : x = i + 2 /\ x \in 1..l
    BY <1>6
  <2>2. x \in Places(t) /\ At(t, x) = "]" /\ e = x
    BY <1>5, <1>7, <1>9, <2>1
  <2>3. ReadCommand(t, letters, closes, x) = Read(<<>>, x + 1)
    <3>1. CommandSteps(t, letters, closes, x, ReadString(t, letters, x + 1))
      BY <1>8, <2>2, CommandStep
    <3> QED
      BY <2>2, <3>1 DEF CommandSteps
  <2>4. command = <<>>
    <3>1. PICK X : X = Seq(S)
      OBVIOUS
    <3> QED
      BY <1>1, <1>9, <3>1, EmptySeq
  <2> QED
    BY <1>1, <1>9, <2>1, <2>2, <2>3, <2>4
<1>10. CASE n # 0
  <2> DEFINE next == IF closes THEN e + 1 ELSE 0
             r == [k \in 0..n |-> IF k = n THEN Read(<<>>, next)
                                  ELSE ReadCommand(t, letters, closes, a[k] + 1)]
             good == {k \in 1..n : Clear(command[k], escapes, letters)}
  <2>1. ASSUME NEW k \in 1..n
        PROVE  r[k - 1] = IF k \in good THEN After(command[k], r[k]) ELSE Error
    <3>1. k - 1 \in 0..n /\ k - 1 # n /\ k \in 0..n
      OBVIOUS
    <3>2. PICK b \in Nat, c \in Nat, w \in Seq(S) :
              b = a[k - 1] /\ c = a[k] /\ w = command[k]
      BY <1>2, <1>5, <3>1
    <3>3. /\ Stands(t, b, WrittenString(w, escapes))
          /\ c = b + Len(WrittenString(w, escapes)) + 1
          /\ c \in 1..l /\ t[c] = IF k = n THEN "]" ELSE ","
      <4>1. s[k] = WrittenString(w, escapes)
        BY <1>2, <3>2
      <4> QED
        BY <1>5, <3>2, <4>1
    <3>4. /\ r[k - 1] = ReadCommand(t, letters, closes, b + 1)
          /\ r[k] = IF k = n THEN Read(<<>>, next)
                    ELSE ReadCommand(t, letters, closes, c + 1)
          /\ k \in good <=> Clear(w, escapes, letters)
      BY <3>1, <3>2
    <3> HIDE DEF r, good
    <3>5. PICK word : word = ReadString(t, letters, b + 2)
      OBVIOUS
    <3>6. word = IF Clear(w, escapes, letters) THEN Read(w, c) ELSE Error
      <4>1. PICK m \in Nat : m = Len(WrittenString(w, escapes))
        <5>1. WrittenString(w, escapes) \in Seq(S)
          BY StringLayout DEF Coding
        <5> QED
          BY <5>1
      <4>2. c = b + m + 1
        BY <3>3, <4>1
      <4> QED
        <5>1. word = IF Clear(w, escapes, letters)
                     THEN Read(w, b + Len(WrittenString(w, escapes)) + 1)
                     ELSE Error
          <6>1. Stands(t, b, WrittenString(w, escapes))
            BY <3>3
          <6>2. ReadString(t, letters, b + 2) =
                    IF Clear(w, escapes, letters)
                    THEN Read(w, b + Len(WrittenString(w, escapes)) + 1)
                    ELSE Error
            BY <6>1, WordRead
          <6> QED
            BY <3>5, <6>2, Zenon
        <5>2. b + Len(WrittenString(w, escapes)) + 1 = c
          BY <4>1, <4>2
        <5> QED
          BY <5>1, <5>2
    <3>7. b + 1 \in 1..l /\ t[b + 1] = Quote
      <4>1. PICK p : StringIn(t, b, w, escapes, p)
        BY <3>3, StringLayout DEF Coding
      <4>2. p[0] = b + 1 /\ 0 \in 0..Len(w) /\ p[0] + 1 <= l /\ t[b + 1] = Quote
        BY <1>1, <4>1 DEF StringIn
      <4>3. b + 1 + 1 <= l
        BY <4>2
      <4>4. b + 1 \in 1..l
        BY <4>3
      <4> QED
        BY <4>2, <4>4
    <3>8. b + 1 \in Places(t) /\ At(t, b + 1) = Quote /\ b + 1 + 1 = b + 2
      BY <1>7, <3>7
    <3>9. CommandSteps(t, letters, closes, b + 1, word)
      BY <1>8, <3>5, <3>8, CommandStep
    <3>10. CASE ~Clear(w, escapes, letters)
      <4>1. word.next = 0
        BY <3>6, <3>10 DEF Error
      <4>2. ReadCommand(t, letters, closes, b + 1) = Error
        BY <3>8, <3>9, <4>1 DEF CommandSteps
      <4> QED
        BY <3>4, <3>10, <4>2
    <3>11. CASE Clear(w, escapes, letters)
      <4>1. word.next = c /\ word.value = w /\ word.next # 0
        <5>1. word = Read(w, c)
          BY <3>6, <3>11
        <5>2. c # 0
          <6>1. c \in 1..l
            BY <3>3
          <6> QED
            BY <6>1
        <5> QED
          BY <5>1, <5>2 DEF Read
      <4>2. At(t, c) = IF k = n THEN "]" ELSE ","
        BY <1>7, <3>3
      <4>3. /\ At(t, c) = "]" /\ closes =>
                   ReadCommand(t, letters, closes, b + 1) = Read(<<w>>, c + 1)
            /\ At(t, c) = "," \/ (At(t, c) = "]" /\ ~closes) =>
                   ReadCommand(t, letters, closes, b + 1) =
                       After(w, ReadCommand(t, letters, closes, c + 1))
        BY <3>8, <3>9, <4>1 DEF CommandSteps
      <4>4. CASE k # n
        BY <3>2, <3>4, <3>11, <4>2, <4>3, <4>4
      <4>5. CASE k = n /\ closes
        <5>1. r[k] = Read(<<>>, c + 1)
          BY <1>5, <1>10, <3>2, <3>4, <4>5
        <5>2. After(w, Read(<<>>, c + 1)) = Read(<<w>>, c + 1)
          <6>1. <<w>> \o <<>> = <<w>> /\ c + 1 # 0
            OBVIOUS
          <6> QED
            BY <6>1 DEF After, Read
        <5> QED
          BY <3>2, <3>4, <3>11, <4>2, <4>3, <4>5, <5>1, <5>2
      <4>6. CASE k = n /\ ~closes
        <5>1. c = l
          BY <1>1, <1>5, <1>10, <3>2, <4>6
        <5>2. c + 1 \in Places(t) /\ At(t, c + 1) = "end"
          BY <1>1, <5>1 DEF Places, At
        <5>3. "end" \notin {"]", Quote}
          BY DEF Quote
        <5>4. ReadCommand(t, letters, closes, c + 1) = Error
          <6>1. CommandSteps(t, letters, closes, c + 1,
                             ReadString(t, letters, c + 1 + 1))
            BY <1>8, <5>2, CommandStep
          <6> QED
            BY <5>2, <5>3, <6>1 DEF CommandSteps
        <5>5. r[k] = Error
          BY <3>4, <4>6 DEF Read, Error
        <5> QED
          BY <3>2, <3>4, <3>11, <4>2, <4>3, <4>6, <5>4, <5>5
      <4> QED
        BY <4>4, <4>5, <4>6
    <3> QED
      BY <3>10, <3>11
  <2>2. r[n] = Read(<<>>, next) /\ next \in Nat
    BY <1>3
  <2>3. r[0] = ReadCommand(t, letters, closes, i + 2)
    <3>1. a[0] + 1 = i + 2 /\ 0 \in 0..n /\ 0 # n
      BY <1>10, <1>6
    <3> QED
      BY <3>1
  <2>4. 1..n \subseteq good <=> AllClear(command, escapes, letters)
    BY <1>1 DEF AllClear
  <2>5. next # 0 <=> closes
    BY <1>3
  <2>6. closes => next = e + 1
    OBVIOUS
  <2> HIDE DEF r, good, next
  <2>7. Reading(r, command, good, next)
    BY <1>1, <2>1, <2>2 DEF Reading
  <2>8. r[0] = IF next # 0 /\ 1..Len(command) \subseteq good
               THEN Read(command, next) ELSE Error
    BY <2>2, <2>7, ListRead, Zenon
  <2> QED
    BY <1>1, <1>10, <2>3, <2>4, <2>5, <2>6, <2>8
<1> QED
  BY <1>9, <1>10

-----------------------------------------------------------------------------
(* Reading the written commands of a request                               *)

(* The commands as they are written.                                       *)
Arrays(commands, escapes) ==
    [k \in 1..Len(commands) |-> WrittenCommand(commands[k], escapes)]

(* Commands are written as the array of the arrays of their words.         *)
LEMMA CommandsAreArray ==
    ASSUME NEW S, Marks \subseteq S, NEW commands \in Seq(Seq(Seq(S))),
           NEW escapes, Escapes(escapes, S)
    PROVE  /\ Arrays(commands, escapes) \in Seq(Seq(S))
           /\ Len(Arrays(commands, escapes)) = Len(commands)
           /\ \A k \in 1..Len(commands) :
                  /\ commands[k] \in Seq(Seq(S))
                  /\ Arrays(commands, escapes)[k] =
                         WrittenCommand(commands[k], escapes)
<1>1. PICK n \in Nat, X \in {Seq(S)}, Y \in {Seq(Seq(S))} :
          n = Len(commands) /\ X = Seq(S) /\ Y = Seq(Seq(S))
  <2>1. PICK Y : Y = Seq(Seq(S))
    OBVIOUS
  <2>2. Len(commands) \in Nat
    BY <2>1
  <2> QED
    BY <2>1, <2>2
<1>2. \A k \in 1..n : commands[k] \in Y
  BY <1>1
<1>3. \A k \in 1..n : WrittenCommand(commands[k], escapes) \in X
  <2>1. ASSUME NEW k \in 1..n
        PROVE  WrittenCommand(commands[k], escapes) \in Seq(S)
    <3>1. PICK c \in Seq(Seq(S)) : c = commands[k]
      BY <1>1, <1>2
    <3>2. WrittenCommand(c, escapes) \in Seq(S)
      BY CommandIsArray, Zenon
    <3> QED
      BY <3>1, <3>2
  <2> QED
    BY <1>1, <2>1
<1>4. PICK s : s = Arrays(commands, escapes)
  OBVIOUS
<1>5. s \in [1..n -> X]
      /\ \A k \in 1..n : s[k] = WrittenCommand(commands[k], escapes)
  BY <1>1, <1>3, <1>4 DEF Arrays
<1>6. s \in Seq(X) /\ Len(s) = n
  BY <1>5
<1> QED
  BY <1>1, <1>2, <1>4, <1>5, <1>6

(* Commands none of which loses a character.                               *)
AllAllClear(commands) ==
    \A k \in 1..Len(commands) : AllClear(commands[k], JsonEscapes, JsonLetters)

(* The request is read as it was written, or not at all.                   *)
LEMMA CommandsAreRead ==
    ASSUME NEW S, Marks \subseteq S, NEW t \in Seq(S), NEW i \in Nat,
           NEW commands \in Seq(Seq(Seq(S))),
           Coding(S, JsonEscapes, JsonLetters),
           NEW e, e = i + Len(WrittenArray(Arrays(commands, JsonEscapes))),
           Stands(t, i, WrittenArray(Arrays(commands, JsonEscapes)))
    PROVE  ReadCommands(t, i + 2) = IF AllAllClear(commands)
                                    THEN Read(commands, e + 1) ELSE Error
<1>1. PICK n \in Nat, l \in Nat, Y \in {Seq(Seq(S))} :
          n = Len(commands) /\ l = Len(t) /\ Y = Seq(Seq(S))
  <2>1. PICK Y : Y = Seq(Seq(S))
    OBVIOUS
  <2>2. Len(commands) \in Nat /\ Len(t) \in Nat
    BY <2>1
  <2> QED
    BY <2>1, <2>2
<1>2. PICK s \in Seq(Seq(S)) :
          /\ s = Arrays(commands, JsonEscapes)
          /\ Len(s) = n
          /\ \A k \in 1..n : /\ commands[k] \in Y
                             /\ s[k] = WrittenCommand(commands[k], JsonEscapes)
  BY <1>1, CommandsAreArray, Zenon DEF Coding
<1>3. e \in Nat
  <2>1. WrittenArray(s) \in Seq(S)
    <3>1. 0 \in Nat /\ <<>> \in Seq(S)
      OBVIOUS
    <3> QED
      BY <3>1, ArrayLayout, Zenon
  <2>2. Len(WrittenArray(s)) \in Nat
    BY <2>1
  <2> QED
    BY <1>2, <2>2
<1>4. PICK a : ArrayIn(t, i, s, a) /\ ArrayEnd(i, s, a) = e
  <2>1. Stands(t, i, WrittenArray(s))
    BY <1>2
  <2>2. \E a : ArrayIn(t, i, s, a)
               /\ ArrayEnd(i, s, a) = i + Len(WrittenArray(s))
    BY <2>1, ArrayLayout, Zenon
  <2> QED
    BY <1>2, <2>2
<1>5. /\ a \in [0..n -> Nat] /\ a[0] = i + 1
      /\ \A k \in 1..n :
             /\ Stands(t, a[k - 1], s[k])
             /\ a[k] = a[k - 1] + Len(s[k]) + 1
             /\ a[k] \in 1..l
             /\ t[a[k]] = IF k = n THEN "]" ELSE ","
      /\ i + 2 <= l
      /\ n = 0 => t[i + 2] = "]" /\ e = i + 2
      /\ n # 0 => e = a[n]
  BY <1>1, <1>2, <1>4 DEF ArrayIn, ArrayEnd
<1>6. i + 2 <= l /\ i + 2 \in 1..l /\ a[0] + 1 = i + 2
  <2>1. i + 2 <= l
    BY <1>5
  <2>2. a[0] = i + 1
    BY <1>5
  <2> QED
    BY <2>1, <2>2
<1>7. \A x \in 1..l : x \in Places(t) /\ At(t, x) = t[x]
  BY <1>1 DEF Places, At
<1>8. Letters(JsonLetters, S)
  BY DEF Coding
<1>9. CASE n = 0
  <2>1. PICK x : x = i + 2 /\ x \in 1..l
    BY <1>6
  <2>2. x \in Places(t) /\ At(t, x) = "]" /\ e = x
    BY <1>5, <1>7, <1>9, <2>1
  <2>3. ReadCommands(t, x) = Read(<<>>, x + 1)
    <3>1. CommandsSteps(t, x, RequestCommand(t, x + 1))
      BY <1>8, <2>2, CommandsStep
    <3> QED
      BY <2>2, <3>1 DEF CommandsSteps
  <2>4. commands = <<>>
    <3>1. commands \in Seq(Y)
      BY <1>1
    <3> QED
      BY <1>1, <1>9, <3>1, EmptySeq
  <2>5. AllAllClear(commands)
    BY <1>1, <1>9 DEF AllAllClear
  <2> QED
    BY <2>1, <2>2, <2>3, <2>4, <2>5
<1>10. CASE n # 0
  <2> DEFINE r == [k \in 0..n |-> IF k = n THEN Read(<<>>, e + 1)
                                  ELSE ReadCommands(t, a[k] + 1)]
             good == {k \in 1..n :
                          AllClear(commands[k], JsonEscapes, JsonLetters)}
  <2>1. ASSUME NEW k \in 1..n
        PROVE  r[k - 1] = IF k \in good THEN After(commands[k], r[k]) ELSE Error
    <3>1. k - 1 \in 0..n /\ k - 1 # n /\ k \in 0..n
      OBVIOUS
    <3>2. PICK b \in Nat, c \in Nat, w \in Seq(Seq(S)) :
              b = a[k - 1] /\ c = a[k] /\ w = commands[k]
      <4>1. commands[k] \in Seq(Seq(S))
        BY <1>1, <1>2
      <4>2. a[k - 1] \in Nat /\ a[k] \in Nat
        BY <1>5, <3>1
      <4> QED
        BY <4>1, <4>2
    <3>3. /\ Stands(t, b, WrittenCommand(w, JsonEscapes))
          /\ c = b + Len(WrittenCommand(w, JsonEscapes)) + 1
          /\ c \in 1..l /\ t[c] = IF k = n THEN "]" ELSE ","
      <4>1. s[k] = WrittenCommand(w, JsonEscapes)
        BY <1>2, <3>2
      <4> QED
        BY <1>5, <3>2, <4>1
    <3>4. /\ r[k - 1] = ReadCommands(t, b + 1)
          /\ r[k] = IF k = n THEN Read(<<>>, e + 1)
                    ELSE ReadCommands(t, c + 1)
          /\ k \in good <=> AllClear(w, JsonEscapes, JsonLetters)
      BY <3>1, <3>2
    <3> HIDE DEF r, good
    <3>5. PICK command : command = RequestCommand(t, b + 2)
      OBVIOUS
    <3>6. command = IF AllClear(w, JsonEscapes, JsonLetters)
                    THEN Read(w, c) ELSE Error
      <4>1. Stands(t, b, WrittenCommand(w, JsonEscapes))
        BY <3>3
      <4>2. PICK d : d = b + Len(WrittenCommand(w, JsonEscapes))
        OBVIOUS
      <4>3. CommandStands(S, t, b, w, JsonEscapes, JsonLetters, TRUE, d)
        BY <4>1, <4>2 DEF CommandStands
      <4>4. ReadCommand(t, JsonLetters, TRUE, b + 2) =
                IF \/ Len(w) = 0
                   \/ TRUE /\ AllClear(w, JsonEscapes, JsonLetters)
                THEN Read(w, d + 1) ELSE Error
        BY <4>3, CommandIsRead, Zenon
      <4>5. Len(w) = 0 => AllClear(w, JsonEscapes, JsonLetters)
        BY DEF AllClear
      <4>6. d + 1 = c
        BY <3>3, <4>2
      <4>7. command = ReadCommand(t, JsonLetters, TRUE, b + 2)
        BY <3>5, Zenon DEF RequestCommand
      <4> QED
        BY <4>4, <4>5, <4>6, <4>7, Zenon
    <3>7. b + 1 \in 1..l /\ t[b + 1] = "["
      <4>1. PICK u \in Seq(Seq(S)) :
                WrittenCommand(w, JsonEscapes) = WrittenArray(u)
        BY CommandIsArray, Zenon DEF Coding
      <4>2. Stands(t, b, WrittenArray(u))
        BY <3>3, <4>1
      <4>3. PICK p : ArrayIn(t, b, u, p)
        BY <4>2, ArrayLayout, Zenon
      <4>4. b + 2 <= l /\ t[b + 1] = "["
        BY <1>1, <4>3 DEF ArrayIn
      <4>5. b + 2 <= l
        BY <4>4
      <4>6. b + 1 \in 1..l
        BY <4>5
      <4> QED
        BY <4>4, <4>6
    <3>8. b + 1 \in Places(t) /\ At(t, b + 1) = "[" /\ b + 1 + 1 = b + 2
      BY <1>7, <3>7
    <3>9. CommandsSteps(t, b + 1, command)
      BY <1>8, <3>5, <3>8, CommandsStep
    <3>10. CASE ~AllClear(w, JsonEscapes, JsonLetters)
      <4>1. command.next = 0
        BY <3>6, <3>10 DEF Error
      <4>2. ReadCommands(t, b + 1) = Error
        BY <3>8, <3>9, <4>1 DEF CommandsSteps
      <4> QED
        BY <3>4, <3>10, <4>2
    <3>11. CASE AllClear(w, JsonEscapes, JsonLetters)
      <4>1. command.next = c /\ command.value = w /\ command.next # 0
        <5>1. command = Read(w, c)
          BY <3>6, <3>11
        <5>2. c # 0
          <6>1. c \in 1..l
            BY <3>3
          <6> QED
            BY <6>1
        <5> QED
          BY <5>1, <5>2 DEF Read
      <4>2. At(t, c) = IF k = n THEN "]" ELSE ","
        BY <1>7, <3>3
      <4>3. /\ At(t, c) = "]" =>
                   ReadCommands(t, b + 1) = Read(<<w>>, c + 1)
            /\ At(t, c) = "," =>
                   ReadCommands(t, b + 1) = After(w, ReadCommands(t, c + 1))
        BY <3>8, <3>9, <4>1 DEF CommandsSteps
      <4>4. CASE k # n
        BY <3>2, <3>4, <3>11, <4>2, <4>3, <4>4
      <4>5. CASE k = n
        <5>1. r[k] = Read(<<>>, c + 1)
          BY <1>5, <1>10, <3>2, <3>4, <4>5
        <5>2. After(w, Read(<<>>, c + 1)) = Read(<<w>>, c + 1)
          <6>1. <<w>> \o <<>> = <<w>> /\ c + 1 # 0
            OBVIOUS
          <6> QED
            BY <6>1 DEF After, Read
        <5> QED
          BY <3>2, <3>4, <3>11, <4>2, <4>3, <4>5, <5>1, <5>2
      <4> QED
        BY <4>4, <4>5
    <3> QED
      BY <3>10, <3>11
  <2>2. r[n] = Read(<<>>, e + 1) /\ e + 1 \in Nat /\ e + 1 # 0
    BY <1>3
  <2>3. r[0] = ReadCommands(t, i + 2)
    <3>1. a[0] + 1 = i + 2 /\ 0 \in 0..n /\ 0 # n
      BY <1>6, <1>10
    <3> QED
      BY <3>1
  <2>4. 1..n \subseteq good <=> AllAllClear(commands)
    BY <1>1 DEF AllAllClear
  <2> HIDE DEF r, good
  <2>5. Reading(r, commands, good, e + 1)
    BY <1>1, <2>1, <2>2 DEF Reading
  <2>6. commands \in Seq(Y)
    BY <1>1
  <2>7. r[0] = IF e + 1 # 0 /\ 1..Len(commands) \subseteq good
               THEN Read(commands, e + 1) ELSE Error
    BY <2>2, <2>5, <2>6, ListRead, Zenon
  <2> QED
    BY <1>1, <2>2, <2>3, <2>4, <2>7
<1> QED
  BY <1>9, <1>10

-----------------------------------------------------------------------------
(* The fields of a payload                                                 *)

(* e is the place of the last bracket of the commands.                     *)
PayloadIn(t, e, schedule) ==
    /\ e \in Nat /\ e >= 7 /\ Len(t) = e + 7 /\ DOMAIN t = 1..(e + 7)
    /\ t[1] = "{" /\ t[2] = Quote /\ t[3] = "commands" /\ t[4] = Quote
    /\ t[5] = ":"
    /\ t[e + 1] = "," /\ t[e + 2] = Quote /\ t[e + 3] = "schedule"
    /\ t[e + 4] = Quote /\ t[e + 5] = ":" /\ t[e + 6] = schedule

(* What a payload is written with, besides the two values.                 *)
PayloadMarks == {"{", "}", ":", ",", "commands", "schedule", Quote}

(* The payload of a request has its fields at these places.                *)
LEMMA PayloadLayout ==
    ASSUME NEW S, Marks \subseteq S, PayloadMarks \subseteq S,
           Escapes(JsonEscapes, S),
           NEW commands \in Seq(Seq(Seq(S))), NEW schedule \in S,
           NEW e, e = 5 + Len(WrittenArray(Arrays(commands, JsonEscapes)))
    PROVE  /\ Payload(commands, schedule) \in Seq(S)
           /\ PayloadIn(Payload(commands, schedule), e, schedule)
           /\ Stands(Payload(commands, schedule), 5,
                     WrittenArray(Arrays(commands, JsonEscapes)))
<1>1. PICK W \in Seq(S), m \in Nat :
          /\ W = WrittenArray(Arrays(commands, JsonEscapes))
          /\ m = Len(W) /\ m >= 2
  <2>1. PICK s \in Seq(Seq(S)) : s = Arrays(commands, JsonEscapes)
    BY CommandsAreArray, Zenon
  <2>2. <<>> \in Seq(S) /\ 0 \in Nat
    OBVIOUS
  <2>3. WrittenArray(s) \in Seq(S) /\ Len(WrittenArray(s)) >= 2
    BY <2>2, ArrayLayout, Zenon
  <2>4. PICK W \in Seq(S) : W = WrittenArray(s) /\ Len(W) >= 2
    BY <2>3
  <2>5. Len(W) \in Nat
    OBVIOUS
  <2> QED
    BY <2>1, <2>4, <2>5
<1> DEFINE head == <<"{", Quote, "commands", Quote, ":">>
           tail == <<",", Quote, "schedule", Quote, ":", schedule, "}">>
<1>2. PICK h \in Seq(S) :
          /\ h = head /\ Len(h) = 5
          /\ h[1] = "{" /\ h[2] = Quote /\ h[3] = "commands" /\ h[4] = Quote
          /\ h[5] = ":"
  <2>1. /\ "{" \in S /\ Quote \in S /\ "commands" \in S /\ ":" \in S
    BY DEF PayloadMarks
  <2>2. PICK x1 \in S, x2 \in S, x3 \in S, x4 \in S :
            x1 = "{" /\ x2 = Quote /\ x3 = "commands" /\ x4 = ":"
    BY <2>1
  <2>3. <<x1, x2, x3, x2, x4>> \in Seq(S) /\ Len(<<x1, x2, x3, x2, x4>>) = 5
    OBVIOUS
  <2> QED
    BY <2>2, <2>3
<1>3. PICK f \in Seq(S) :
          /\ f = tail /\ Len(f) = 7
          /\ f[1] = "," /\ f[2] = Quote /\ f[3] = "schedule" /\ f[4] = Quote
          /\ f[5] = ":" /\ f[6] = schedule
  <2>1. /\ "," \in S /\ Quote \in S /\ "schedule" \in S /\ ":" \in S
        /\ "}" \in S
    BY DEF PayloadMarks
  <2>2. PICK x1 \in S, x2 \in S, x3 \in S, x4 \in S, x5 \in S :
            /\ x1 = "," /\ x2 = Quote /\ x3 = "schedule" /\ x4 = ":"
            /\ x5 = "}"
    BY <2>1
  <2>3. /\ <<x1, x2, x3, x2, x4, schedule, x5>> \in Seq(S)
        /\ Len(<<x1, x2, x3, x2, x4, schedule, x5>>) = 7
    OBVIOUS
  <2> QED
    BY <2>2, <2>3
<1>4. Payload(commands, schedule) = h \o W \o f
  <2>1. DOMAIN commands = 1..Len(commands)
    <3>1. PICK Y : Y = Seq(Seq(S))
      OBVIOUS
    <3> QED
      BY <3>1
  <2> QED
    BY <1>1, <1>2, <1>3, <2>1 DEF Payload, Arrays
<1>5. Len(h) = 5 /\ Len(f) = 7 /\ Len(W) = m
  BY <1>1, <1>2, <1>3
<1>6. PICK g \in Seq(S) : g = h \o W /\ Len(g) = 5 + m
  <2>1. h \o W \in Seq(S) /\ Len(h \o W) = Len(h) + Len(W)
    BY ConcatProperties
  <2> QED
    BY <1>5, <2>1
<1>7. PICK t \in Seq(S) : t = g \o f /\ Len(t) = 5 + m + 7
  <2>1. g \o f \in Seq(S) /\ Len(g \o f) = Len(g) + Len(f)
    BY ConcatProperties
  <2> QED
    BY <1>6, <1>5, <2>1
<1>8. Stands(t, 0, g) /\ Stands(t, 5 + m, f)
  <2>1. Stands(t, 0, g \o f)
    BY <1>7 DEF Stands
  <2>2. Stands(t, 0, g) /\ Stands(t, 0 + Len(g), f)
    BY <2>1, StandsConcat
  <2>3. 0 + Len(g) = 5 + m
    BY <1>6
  <2> QED
    BY <2>2, <2>3
<1>9. Stands(t, 0, h) /\ Stands(t, 5, W)
  <2>1. Stands(t, 0, h) /\ Stands(t, 0 + Len(h), W)
    BY <1>6, <1>8, StandsConcat
  <2>2. 0 + Len(h) = 5
    BY <1>5
  <2> QED
    BY <2>1, <2>2
<1>10. e = 5 + m
  BY <1>1
<1>11. /\ t[1] = "{" /\ t[2] = Quote /\ t[3] = "commands" /\ t[4] = Quote
       /\ t[5] = ":"
  <2>1. \A k \in 1..5 : t[0 + k] = h[k]
    BY <1>9, <1>5 DEF Stands
  <2>2. t[0 + 1] = h[1] /\ t[0 + 2] = h[2] /\ t[0 + 3] = h[3]
        /\ t[0 + 4] = h[4] /\ t[0 + 5] = h[5]
    BY <2>1
  <2>3. t[1] = h[1] /\ t[2] = h[2] /\ t[3] = h[3]
        /\ t[4] = h[4] /\ t[5] = h[5]
    <3>1. 0 + 1 = 1 /\ 0 + 2 = 2 /\ 0 + 3 = 3 /\ 0 + 4 = 4 /\ 0 + 5 = 5
      OBVIOUS
    <3> QED
      BY <2>2, <3>1
  <2> QED
    BY <1>2, <2>3, Zenon
<1>12. /\ t[e + 1] = "," /\ t[e + 2] = Quote /\ t[e + 3] = "schedule"
       /\ t[e + 4] = Quote /\ t[e + 5] = ":" /\ t[e + 6] = schedule
  <2>1. \A k \in 1..7 : t[e + k] = f[k]
    BY <1>8, <1>10, <1>5 DEF Stands
  <2>2. t[e + 1] = f[1] /\ t[e + 2] = f[2] /\ t[e + 3] = f[3]
        /\ t[e + 4] = f[4] /\ t[e + 5] = f[5] /\ t[e + 6] = f[6]
    BY <2>1
  <2> QED
    BY <1>3, <2>2
<1>13. e \in Nat /\ e >= 7 /\ Len(t) = e + 7
  BY <1>1, <1>7, <1>10
<1>14. PayloadIn(t, e, schedule)
  <2>1. DOMAIN t = 1..(e + 7)
    BY <1>13
  <2> QED
    BY <1>11, <1>12, <1>13, <2>1 DEF PayloadIn
<1> QED
  BY <1>1, <1>4, <1>6, <1>7, <1>9, <1>14

(* The places where a key stands.                                          *)
KeyAt(t, key, i) ==
    /\ i \in DOMAIN t
    /\ At(t, i) = Quote /\ At(t, i + 1) = key /\ At(t, i + 2) = Quote

(* The first place at which a key stands in quotes.                        *)
FirstKey(t, key, i) ==
    /\ i \in Nat /\ KeyAt(t, key, i)
    /\ \A j \in DOMAIN t : KeyAt(t, key, j) => i <= j

(* That is where the field is looked for, colon or not.                    *)
LEMMA FieldOfKey ==
    ASSUME NEW S, NEW t \in Seq(S), NEW key, NEW i, FirstKey(t, key, i)
    PROVE  Field(t, key) = IF At(t, i + 3) # ":" THEN 0 ELSE i + 4
<1> DEFINE places == {j \in DOMAIN t : /\ At(t, j) = Quote /\ At(t, j + 1) = key
                                       /\ At(t, j + 2) = Quote}
           first == CHOOSE j \in places : \A k \in places : j <= k
<1>1. \A j : j \in places <=> KeyAt(t, key, j)
  BY DEF KeyAt
<1>2. i \in places /\ \A j \in places : i <= j
  BY <1>1 DEF FirstKey, KeyAt
<1>3. places \subseteq Nat
  <2>1. DOMAIN t = 1..Len(t) /\ Len(t) \in Nat
    OBVIOUS
  <2> QED
    BY <2>1
<1>4. Field(t, key) = IF places = {} \/ At(t, first + 3) # ":" THEN 0
                      ELSE first + 4
  BY DEF Field
<1> HIDE DEF places
<1>5. first \in places /\ \A k \in places : first <= k
  BY <1>2
<1>6. first = i
  <2>1. first \in Nat /\ i \in Nat /\ first <= i /\ i <= first
    BY <1>2, <1>3, <1>5
  <2> QED
    BY <2>1
<1> QED
  BY <1>2, <1>4, <1>6

(* The field of the commands is the first, so it is found.                 *)
LEMMA CommandsField ==
    ASSUME NEW S, NEW t \in Seq(S), NEW e, NEW schedule,
           PayloadIn(t, e, schedule)
    PROVE  Field(t, "commands") = 6
<1>1. \A j \in 1..7 : j \in DOMAIN t /\ At(t, j) = t[j]
  <2>1. e \in Nat /\ DOMAIN t = 1..(e + 7)
    BY DEF PayloadIn
  <2>2. \A j \in 1..7 : j \in DOMAIN t
    BY <2>1
  <2> QED
    BY <2>2 DEF At
<1>2. /\ At(t, 1) = "{" /\ At(t, 2) = Quote /\ At(t, 3) = "commands"
      /\ At(t, 4) = Quote /\ At(t, 5) = ":"
  <2>1. /\ At(t, 1) = t[1] /\ At(t, 2) = t[2] /\ At(t, 3) = t[3]
        /\ At(t, 4) = t[4] /\ At(t, 5) = t[5]
    BY <1>1
  <2> QED
    BY <2>1 DEF PayloadIn
<1>3. KeyAt(t, "commands", 2)
  <2>1. 2 \in DOMAIN t /\ 2 + 1 = 3 /\ 2 + 2 = 4
    BY <1>1
  <2> QED
    BY <1>2, <2>1 DEF KeyAt
<1>4. ASSUME NEW j \in DOMAIN t, KeyAt(t, "commands", j)
      PROVE  2 <= j
  <2>1. j # 1
    BY <1>2, <1>4 DEF KeyAt, Quote
  <2>2. j \in 1..Len(t) /\ Len(t) \in Nat
    OBVIOUS
  <2> QED
    BY <2>1, <2>2
<1>5. FirstKey(t, "commands", 2)
  BY <1>3, <1>4 DEF FirstKey
<1>6. 2 + 3 = 5 /\ 2 + 4 = 6
  OBVIOUS
<1> QED
  BY <1>2, <1>5, <1>6, FieldOfKey

-----------------------------------------------------------------------------
(* A quote in a written word                                               *)

(* A text stands in itself.                                                *)
LEMMA StandsSelf ==
    ASSUME NEW S, NEW t \in Seq(S)
    PROVE  Stands(t, 0, t)
BY DEF Stands

(* A word names the field when it is written with the key in quotes.       *)
LEMMA NamesFieldMeans ==
    ASSUME NEW S, NEW word \in Seq(S), Escapes(JsonEscapes, S),
           NEW W, W = WrittenString(word, JsonEscapes)
    PROVE  NamesField(word) <=>
               \E i \in 1..(Len(W) - 2) :
                   W[i] = Quote /\ W[i + 1] = "schedule" /\ W[i + 2] = Quote
<1>1. W \in Seq(S)
  <2>1. 0 \in Nat /\ <<>> \in Seq(S)
    OBVIOUS
  <2> QED
    BY <2>1, StringLayout
<1>2. ASSUME NEW i \in 1..(Len(W) - 2)
      PROVE  SubSeq(W, i, i + 2) = <<Quote, "schedule", Quote>> <=>
                 W[i] = Quote /\ W[i + 1] = "schedule" /\ W[i + 2] = Quote
  <2>1. Len(W) \in Nat /\ i \in Nat /\ i >= 1 /\ i + 2 <= Len(W)
    BY <1>1
  <2>2. PICK s : s = SubSeq(W, i, i + 2)
    OBVIOUS
  <2>3. \A j \in i..(i + 2) : W[j] \in S
    <3>1. \A j \in i..(i + 2) : j \in 1..Len(W)
      BY <2>1
    <3> QED
      BY <1>1, <3>1, ElementOfSeq
  <2>4. s \in Seq(S) /\ Len(s) = 3 /\ s[1] = W[i] /\ s[2] = W[i + 1]
        /\ s[3] = W[i + 2]
    <3>1. i \in Int /\ i + 2 \in Int /\ i <= i + 2 /\ i + 2 - i + 1 = 3
      BY <2>1
    <3>2. /\ SubSeq(W, i, i + 2) \in Seq(S)
          /\ Len(SubSeq(W, i, i + 2)) = IF i <= i + 2 THEN i + 2 - i + 1 ELSE 0
          /\ \A j \in 1..(i + 2 - i + 1) : SubSeq(W, i, i + 2)[j] = W[i + j - 1]
      BY <2>3, <3>1, SubSeqProperties
    <3>3. Len(s) = 3 /\ \A j \in 1..3 : s[j] = W[i + j - 1]
      BY <2>2, <3>1, <3>2
    <3>4. s[1] = W[i + 1 - 1] /\ s[2] = W[i + 2 - 1] /\ s[3] = W[i + 3 - 1]
      BY <3>3
    <3>5. i + 1 - 1 = i /\ i + 2 - 1 = i + 1 /\ i + 3 - 1 = i + 2
      BY <2>1
    <3> QED
      BY <2>2, <3>2, <3>3, <3>4, <3>5
  <2>5. PICK U : Quote \in U /\ "schedule" \in U
    <3>1. Quote \in {Quote, "schedule"} /\ "schedule" \in {Quote, "schedule"}
      OBVIOUS
    <3> QED
      BY <3>1
  <2>6. PICK q \in U, r \in U : q = Quote /\ r = "schedule"
    BY <2>5
  <2>7. PICK z \in Seq(U) : z = <<q, r, q>>
    <3>1. <<q, r, q>> \in Seq(U)
      OBVIOUS
    <3> QED
      BY <3>1
  <2>8. Len(z) = 3 /\ z[1] = q /\ z[2] = r /\ z[3] = q
    BY <2>7
  <2>9. s = z <=> s[1] = z[1] /\ s[2] = z[2] /\ s[3] = z[3]
    <3>1. ASSUME s[1] = z[1], s[2] = z[2], s[3] = z[3]
          PROVE  s = z
      <4>1. \A j \in 1..3 : s[j] = z[j]
        BY <3>1
      <4>2. s \in [1..3 -> S]
        <5>1. s \in Seq(S) /\ Len(s) = 3
          BY <2>4
        <5>2. s \in [1..Len(s) -> S]
          BY <5>1, LenProperties
        <5> QED
          BY <5>1, <5>2, Zenon
      <4>3. z \in [1..3 -> U]
        BY <2>8
      <4> QED
        BY <4>1, <4>2, <4>3
    <3> QED
      BY <3>1
  <2> QED
    BY <2>2, <2>4, <2>7, <2>8, <2>9, <2>6, Zenon
<1> QED
  BY <1>2 DEF NamesField

(* Between the quotes of a written word a quote is behind a backslash.     *)
LEMMA QuoteInString ==
    ASSUME NEW S, NEW t \in Seq(S), NEW i \in Nat, NEW word \in Seq(S),
           NEW escapes, Escapes(escapes, S), Quote \in DOMAIN escapes,
           Stands(t, i, WrittenString(word, escapes)),
           NEW x \in Nat, i + 1 < x,
           x < i + Len(WrittenString(word, escapes)), t[x] = Quote
    PROVE  t[x - 1] = Backslash
<1>1. PICK n \in Nat : n = Len(word)
  OBVIOUS
<1>2. PICK p : /\ StringIn(t, i, word, escapes, p)
               /\ p[n] + 1 = i + Len(WrittenString(word, escapes))
  BY <1>1, StringLayout
<1>3. p \in [0..n -> Nat] /\ p[0] = i + 1
  BY <1>1, <1>2 DEF StringIn
<1> DEFINE Reach == {k \in 0..n : x <= p[k]}
<1>4. \A k \in 0..n : p[k] \in Nat
  BY <1>3
<1>5. n \in Reach
  <2>1. x < p[n] + 1 /\ p[n] \in Nat
    BY <1>2, <1>4
  <2>2. x <= p[n]
    BY <2>1
  <2> QED
    BY <2>2
<1>6. PICK k \in Reach : \A y \in Reach : k <= y
  <2>1. Reach \in SUBSET Nat
    OBVIOUS
  <2>2. Reach # {}
    BY <1>5
  <2> HIDE DEF Reach
  <2> QED
    BY <2>1, <2>2, Least
<1>7. k # 0
  BY <1>3
<1>8. k - 1 \in 0..n /\ k \in 1..n /\ k \in 0..n
  BY <1>7
<1>9. ~(x <= p[k - 1]) /\ x <= p[k]
  BY <1>6, <1>8
<1>10. PICK a \in Nat, b \in Nat : a = p[k - 1] /\ b = p[k]
  BY <1>4, <1>8
<1>11. a < x /\ x <= b
  BY <1>9, <1>10
<1>12. \/ /\ b = a + 2 /\ t[a + 1] = Backslash
       \/ /\ word[k] \notin DOMAIN escapes
          /\ b = a + 1 /\ t[a + 1] = word[k]
  BY <1>1, <1>2, <1>8, <1>10 DEF StringIn
<1>13. CASE b = a + 2 /\ t[a + 1] = Backslash
  <2>1. x = a + 1 \/ x = a + 2
    <3>1. a < x /\ x <= b /\ b = a + 2
      BY <1>11, <1>13
    <3> QED
      BY <3>1
  <2>2. x # a + 1
    BY <1>13 DEF Quote, Backslash
  <2>3. x - 1 = a + 1
    BY <2>1, <2>2
  <2> QED
    BY <1>13, <2>3
<1>14. CASE /\ word[k] \notin DOMAIN escapes
            /\ b = a + 1 /\ t[a + 1] = word[k]
  <2>1. x = a + 1
    <3>1. a < x /\ x <= b /\ b = a + 1
      BY <1>11, <1>14
    <3> QED
      BY <3>1
  <2> QED
    BY <1>14, <2>1
<1> QED
  BY <1>12, <1>13, <1>14

-----------------------------------------------------------------------------
(* The words in the commands of a payload                                  *)

(* The x-th character of t is one of a written word, behind which stands a *)
(* mark.                                                                   *)
InWord(t, word, s, x) ==
    LET m == Len(WrittenString(word, JsonEscapes)) IN
    /\ s \in Nat /\ Stands(t, s, WrittenString(word, JsonEscapes))
    /\ s < x /\ x <= s + m
    /\ s + m + 1 \in DOMAIN t /\ t[s + m + 1] \in Marks

(* A key in quotes within a written word makes it a word that names the    *)
(* field, and no colon follows.                                            *)
LEMMA ScheduleInWord ==
    ASSUME NEW S, NEW t \in Seq(S), NEW word \in Seq(S), NEW s, NEW x \in Nat,
           Escapes(JsonEscapes, S),
           InWord(t, word, s, x), KeyAt(t, "schedule", x)
    PROVE  NamesField(word) /\ At(t, x + 3) # ":"
<1>1. PICK W : W = WrittenString(word, JsonEscapes)
  OBVIOUS
<1>2. W \in Seq(S)
  <2>1. 0 \in Nat /\ <<>> \in Seq(S)
    OBVIOUS
  <2> QED
    BY <1>1, <2>1, StringLayout
<1>3. PICK m \in Nat : m = Len(W)
  BY <1>2
<1>4. /\ s \in Nat /\ Stands(t, s, W) /\ s < x /\ x <= s + m
      /\ s + m + 1 \in DOMAIN t /\ t[s + m + 1] \in Marks
  BY <1>1, <1>3 DEF InWord
<1>5. At(t, x) = Quote /\ At(t, x + 1) = "schedule" /\ At(t, x + 2) = Quote
  BY DEF KeyAt
<1>6. DOMAIN t = 1..Len(t) /\ Len(t) \in Nat /\ s + m <= Len(t)
  <2>1. s + m <= Len(t)
    BY <1>3, <1>4 DEF Stands
  <2> QED
    BY <2>1
<1>7. At(t, s + m + 1) \in Marks /\ At(t, s + m + 1) = t[s + m + 1]
  BY <1>4 DEF At
<1>8. ":" \notin Marks /\ "schedule" \notin Marks /\ Quote \notin Marks
      /\ Quote # "schedule" /\ Backslash # "schedule"
  BY DEF Marks, Quote, Backslash
<1>9. x # s + m
  BY <1>5, <1>7, <1>8
<1>10. At(t, s + m) = Quote
  <2>1. PICK p : StringIn(t, s, word, JsonEscapes, p)
                 /\ p[Len(word)] + 1 = s + m
    <3>1. Stands(t, s, WrittenString(word, JsonEscapes))
      BY <1>1, <1>4
    <3>2. \E p : /\ StringIn(t, s, word, JsonEscapes, p)
                 /\ p[Len(word)] + 1 =
                        s + Len(WrittenString(word, JsonEscapes))
      <4>1. s \in Nat
        BY <1>4
      <4> QED
        BY <3>1, <4>1, StringLayout
    <3> QED
      BY <1>1, <1>3, <3>2
  <2>2. t[p[Len(word)] + 1] = Quote
    BY <2>1 DEF StringIn
  <2>3. t[s + m] = Quote
    BY <2>1, <2>2
  <2>4. s + m \in DOMAIN t
    BY <1>4, <1>6
  <2> QED
    BY <2>3, <2>4 DEF At
<1>11. x + 1 # s + m
  BY <1>5, <1>8, <1>10
<1>12. x + 2 <= s + m
  BY <1>4, <1>9, <1>11
<1>13. \A y \in 1..(s + m) : At(t, y) = t[y]
  <2>1. \A y \in 1..(s + m) : y \in DOMAIN t
    BY <1>4, <1>6
  <2> QED
    BY <2>1 DEF At
<1>14. /\ x \in 1..(s + m) /\ x + 1 \in 1..(s + m) /\ x + 2 \in 1..(s + m)
  BY <1>4, <1>12
<1>15. t[x] = Quote /\ t[x + 1] = "schedule" /\ t[x + 2] = Quote
  BY <1>5, <1>13, <1>14
<1>16. x + 2 = s + m
  <2>1. ASSUME x + 2 < s + m
        PROVE  FALSE
    <3>1. PICK y \in Nat : y = x + 2
      OBVIOUS
    <3>2. s + 1 < y /\ y < s + m /\ y - 1 = x + 1
      BY <1>4, <2>1, <3>1
    <3>3. Quote \in DOMAIN JsonEscapes
      BY DEF JsonEscapes, Quote
    <3>4. t[y] = Quote
      BY <1>15, <3>1
    <3>5. t[y - 1] = Backslash
      BY <1>1, <1>3, <1>4, <3>2, <3>3, <3>4, QuoteInString
    <3> QED
      BY <1>8, <1>15, <3>2, <3>5
  <2> QED
    BY <1>4, <1>12, <2>1
<1>17. At(t, x + 3) # ":"
  <2>1. x + 3 = s + m + 1
    BY <1>4, <1>16
  <2> QED
    BY <1>7, <1>8, <2>1
<1>18. NamesField(word)
  <2>1. PICK i : i = x - s /\ i \in 1..(m - 2) /\ i + 1 \in 1..m
                 /\ i + 2 \in 1..m /\ i \in 1..m
                 /\ s + i = x /\ s + (i + 1) = x + 1 /\ s + (i + 2) = x + 2
    BY <1>4, <1>12
  <2>2. \A k \in 1..m : t[s + k] = W[k]
    BY <1>3, <1>4 DEF Stands
  <2>3. t[s + i] = W[i] /\ t[s + (i + 1)] = W[i + 1]
        /\ t[s + (i + 2)] = W[i + 2]
    BY <2>1, <2>2
  <2>4. W[i] = Quote /\ W[i + 1] = "schedule" /\ W[i + 2] = Quote
    BY <1>15, <2>1, <2>3
  <2>5. \E j \in 1..(Len(W) - 2) :
            W[j] = Quote /\ W[j + 1] = "schedule" /\ W[j + 2] = Quote
    BY <1>3, <2>1, <2>4
  <2> QED
    BY <1>1, <2>5, NamesFieldMeans
<1> QED
  BY <1>17, <1>18

-----------------------------------------------------------------------------
(* Where the words of a payload stand                                      *)

(* Every item of an array stands somewhere in it.                          *)
LEMMA ItemStands ==
    ASSUME NEW S, Marks \subseteq S, NEW items \in Seq(Seq(S)),
           NEW k \in 1..Len(items)
    PROVE  \E s \in Nat : Stands(WrittenArray(items), s, items[k])
<1>1. 0 \in Nat
  OBVIOUS
<1>2. PICK W \in Seq(S) : W = WrittenArray(items)
  <2>1. <<>> \in Seq(S)
    OBVIOUS
  <2>2. WrittenArray(items) \in Seq(S)
    BY <1>1, <2>1, ArrayLayout, Zenon
  <2> QED
    BY <2>2
<1>3. Stands(W, 0, WrittenArray(items))
  BY <1>2, StandsSelf
<1>4. PICK a : ArrayIn(W, 0, items, a)
  BY <1>1, <1>3, ArrayLayout, Zenon
<1>5. PICK n \in Nat : n = Len(items)
  <2>1. PICK X : X = Seq(S)
    OBVIOUS
  <2>2. Len(items) \in Nat
    BY <2>1
  <2> QED
    BY <2>2
<1>6. k \in 1..n /\ k - 1 \in 0..n
  BY <1>5
<1>7. a[k - 1] \in Nat /\ Stands(W, a[k - 1], items[k])
  BY <1>4, <1>5, <1>6 DEF ArrayIn
<1> QED
  BY <1>2, <1>7

(* Every word of the commands stands in the payload, before their end.     *)
LEMMA WordStands ==
    ASSUME NEW S, Marks \subseteq S, Escapes(JsonEscapes, S),
           NEW t \in Seq(S), NEW i \in Nat,
           NEW commands \in Seq(Seq(Seq(S))),
           Stands(t, i, WrittenArray(Arrays(commands, JsonEscapes))),
           NEW c \in 1..Len(commands), NEW k \in 1..Len(commands[c])
    PROVE  /\ commands[c][k] \in Seq(S)
           /\ \E s \in Nat :
                  /\ i <= s
                  /\ Stands(t, s, WrittenString(commands[c][k], JsonEscapes))
                  /\ s + Len(WrittenString(commands[c][k], JsonEscapes)) <=
                         i + Len(WrittenArray(Arrays(commands, JsonEscapes)))
<1>1. PICK items \in Seq(Seq(S)), command \in Seq(Seq(S)) :
          /\ items = Arrays(commands, JsonEscapes)
          /\ Len(items) = Len(commands)
          /\ command = commands[c]
          /\ items[c] = WrittenCommand(command, JsonEscapes)
  <2>1. /\ Arrays(commands, JsonEscapes) \in Seq(Seq(S))
        /\ Len(Arrays(commands, JsonEscapes)) = Len(commands)
        /\ \A k_1 \in 1..Len(commands) :
               /\ commands[k_1] \in Seq(Seq(S))
               /\ Arrays(commands, JsonEscapes)[k_1] =
                      WrittenCommand(commands[k_1], JsonEscapes)
    BY CommandsAreArray, Zenon
  <2>2. /\ commands[c] \in Seq(Seq(S))
        /\ Arrays(commands, JsonEscapes)[c] =
               WrittenCommand(commands[c], JsonEscapes)
    BY <2>1, Zenon
  <2> QED
    BY <2>1, <2>2, Zenon
<1>2. PICK W \in Seq(S) : W = WrittenArray(items)
  <2>1. <<>> \in Seq(S) /\ 0 \in Nat
    OBVIOUS
  <2>2. WrittenArray(items) \in Seq(S)
    BY <2>1, ArrayLayout, Zenon
  <2> QED
    BY <2>2
<1>3. PICK a \in Nat : Stands(W, a, items[c])
  <2>1. c \in 1..Len(items)
    BY <1>1
  <2> QED
    BY <1>2, <2>1, ItemStands, Zenon
<1>4. PICK word \in Seq(S), strings \in Seq(Seq(S)), C \in Seq(S) :
          /\ word = command[k] /\ strings[k] = WrittenString(word, JsonEscapes)
          /\ C = WrittenCommand(command, JsonEscapes)
          /\ C = WrittenArray(strings)
          /\ k \in 1..Len(strings)
  <2>1. k \in 1..Len(command)
    BY <1>1
  <2>2. /\ Strings(command, JsonEscapes) \in Seq(Seq(S))
        /\ Len(Strings(command, JsonEscapes)) = Len(command)
        /\ command[k] \in Seq(S)
        /\ Strings(command, JsonEscapes)[k] =
               WrittenString(command[k], JsonEscapes)
        /\ WrittenCommand(command, JsonEscapes) =
               WrittenArray(Strings(command, JsonEscapes))
        /\ WrittenCommand(command, JsonEscapes) \in Seq(S)
    BY <2>1, CommandIsArray, Zenon
  <2>3. k \in 1..Len(Strings(command, JsonEscapes))
    BY <2>1, <2>2, Zenon
  <2> QED
    BY <2>2, <2>3, Zenon
<1>5. PICK b \in Nat : Stands(C, b, WrittenString(word, JsonEscapes))
  <2>1. \E s \in Nat : Stands(WrittenArray(strings), s, strings[k])
    BY <1>4, ItemStands, Zenon
  <2> QED
    BY <1>4, <2>1
<1>6. PICK w \in Seq(S) : w = WrittenString(word, JsonEscapes)
  <2>1. <<>> \in Seq(S) /\ 0 \in Nat
    OBVIOUS
  <2> QED
    BY <2>1, StringLayout
<1>7. Stands(W, a + b, w)
  <2>1. Stands(W, a, C) /\ Stands(C, b, w)
    BY <1>1, <1>3, <1>4, <1>5, <1>6
  <2> QED
    BY <2>1, StandsWithin
<1>8. Stands(t, i + (a + b), w)
  <2>1. Stands(t, i, W) /\ a + b \in Nat
    BY <1>1, <1>2
  <2> QED
    BY <1>7, <2>1, StandsWithin
<1>9. i + (a + b) + Len(w) <= i + Len(W)
  <2>1. Len(w) \in Nat /\ Len(W) \in Nat
    BY <1>1, <1>6, LenProperties, Zenon
  <2>2. a + b + Len(w) <= Len(W)
    BY <1>7, Zenon DEF Stands
  <2> QED
    BY <2>1, <2>2
<1>10. i + (a + b) \in Nat /\ i <= i + (a + b)
  OBVIOUS
<1> QED
  BY <1>1, <1>2, <1>4, <1>6, <1>8, <1>9, <1>10, Zenon

(* A character of the commands is a mark or one of a word.                 *)
LEMMA InsideCommands ==
    ASSUME NEW S, Marks \subseteq S, Escapes(JsonEscapes, S),
           NEW t \in Seq(S), NEW i \in Nat,
           NEW commands \in Seq(Seq(Seq(S))),
           Stands(t, i, WrittenArray(Arrays(commands, JsonEscapes))),
           NEW x \in Nat, i < x,
           x <= i + Len(WrittenArray(Arrays(commands, JsonEscapes)))
    PROVE  \/ t[x] \in Marks
           \/ \E c \in 1..Len(commands) : \E k \in 1..Len(commands[c]) :
                  /\ commands[c][k] \in Seq(S)
                  /\ \E s : InWord(t, commands[c][k], s, x)
<1>1. PICK items \in Seq(Seq(S)) :
          /\ items = Arrays(commands, JsonEscapes)
          /\ Len(items) = Len(commands)
          /\ \A c \in 1..Len(commands) :
                 /\ commands[c] \in Seq(Seq(S))
                 /\ items[c] = WrittenCommand(commands[c], JsonEscapes)
  BY CommandsAreArray, Zenon
<1>2. PICK a : /\ ArrayIn(t, i, items, a)
               /\ ArrayEnd(i, items, a) = i + Len(WrittenArray(items))
  <2>1. Stands(t, i, WrittenArray(items))
    BY <1>1
  <2> QED
    BY <2>1, ArrayLayout, Zenon
<1>3. x <= ArrayEnd(i, items, a)
  BY <1>1, <1>2
<1>4. ASSUME t[x] \notin Marks
      PROVE  \E c \in 1..Len(commands) : \E k \in 1..Len(commands[c]) :
                 /\ commands[c][k] \in Seq(S)
                 /\ \E s : InWord(t, commands[c][k], s, x)
  <2>1. PICK c \in 1..Len(items) :
            a[c - 1] < x /\ x <= a[c - 1] + Len(items[c])
    <3>1. InArray(S, t, i, items, a, x)
      BY <1>2, <1>3 DEF InArray
    <3> QED
      BY <1>4, <3>1, InsideArray, Zenon
  <2>2. PICK b \in Nat : b = a[c - 1] /\ Stands(t, b, items[c])
    <3>1. PICK n \in Nat : n = Len(items)
      <4>1. PICK X : X = Seq(S)
        OBVIOUS
      <4>2. Len(items) \in Nat
        BY <4>1
      <4> QED
        BY <4>2
    <3>2. c \in 1..n /\ c - 1 \in 0..n
      BY <3>1
    <3> QED
      BY <1>2, <3>1, <3>2 DEF ArrayIn
  <2>3. PICK command \in Seq(Seq(S)) :
            command = commands[c] /\ c \in 1..Len(commands)
            /\ items[c] = WrittenCommand(command, JsonEscapes)
    BY <1>1
  <2>4. PICK strings \in Seq(Seq(S)) :
            /\ strings = Strings(command, JsonEscapes)
            /\ Len(strings) = Len(command)
            /\ \A k \in 1..Len(command) :
                   /\ command[k] \in Seq(S)
                   /\ strings[k] = WrittenString(command[k], JsonEscapes)
            /\ WrittenCommand(command, JsonEscapes) = WrittenArray(strings)
    BY CommandIsArray, Zenon
  <2>5. PICK d : /\ ArrayIn(t, b, strings, d)
                 /\ ArrayEnd(b, strings, d) = b + Len(WrittenArray(strings))
    <3>1. Stands(t, b, WrittenArray(strings))
      BY <2>2, <2>3, <2>4
    <3> QED
      BY <3>1, ArrayLayout, Zenon
  <2>6. b < x /\ x <= ArrayEnd(b, strings, d)
    BY <2>1, <2>2, <2>3, <2>4, <2>5
  <2>7. PICK k \in 1..Len(strings) :
            d[k - 1] < x /\ x <= d[k - 1] + Len(strings[k])
    <3>1. ArrayIn(t, b, strings, d) /\ b < x /\ x <= ArrayEnd(b, strings, d)
          /\ t[x] \notin Marks
      BY <1>4, <2>5, <2>6
    <3>2. InArray(S, t, b, strings, d, x)
      BY <3>1 DEF InArray
    <3> QED
      BY <3>1, <3>2, InsideArray, Zenon
  <2>8. /\ d[k - 1] \in Nat /\ Stands(t, d[k - 1], strings[k])
        /\ d[k] \in 1..Len(t) /\ t[d[k]] \in Marks
        /\ d[k - 1] + Len(strings[k]) + 1 = d[k]
    <3>1. PICK n \in Nat : n = Len(strings)
      <4>1. PICK X : X = Seq(S)
        OBVIOUS
      <4>2. Len(strings) \in Nat
        BY <4>1
      <4> QED
        BY <4>2
    <3>2. k \in 1..n /\ k - 1 \in 0..n
      BY <3>1
    <3>3. "]" \in Marks /\ "," \in Marks
      BY DEF Marks
    <3> QED
      BY <2>5, <3>1, <3>2, <3>3 DEF ArrayIn
  <2>9. k \in 1..Len(command) /\ command[k] \in Seq(S)
        /\ strings[k] = WrittenString(command[k], JsonEscapes)
    BY <2>4, Zenon
  <2>10. InWord(t, command[k], d[k - 1], x)
    <3>1. PICK s : s = d[k - 1]
      OBVIOUS
    <3>2. PICK m : m = Len(WrittenString(command[k], JsonEscapes))
      OBVIOUS
    <3>3. /\ s \in Nat /\ Stands(t, s, WrittenString(command[k], JsonEscapes))
          /\ s < x /\ x <= s + m
      BY <2>7, <2>8, <2>9, <3>1, <3>2, Zenon
    <3>4. s + m + 1 \in 1..Len(t) /\ t[s + m + 1] \in Marks
      BY <2>7, <2>8, <2>9, <3>1, <3>2, Zenon
    <3>5. DOMAIN t = 1..Len(t)
      OBVIOUS
    <3>6. s + m + 1 \in DOMAIN t
      BY <3>4, <3>5, Zenon
    <3> QED
      BY <3>1, <3>2, <3>3, <3>4, <3>6, Zenon DEF InWord
  <2> QED
    BY <2>3, <2>9, <2>10, Zenon
<1> QED
  BY <1>4

-----------------------------------------------------------------------------
(* A word of the commands hides the schedule.                              *)
Hidden(commands) ==
    \E c \in 1..Len(commands) : \E k \in 1..Len(commands[c]) :
        NamesField(commands[c][k])

(* The schedule is found after the commands, and nothing is found if a     *)
(* word before it names the field.                                         *)
LEMMA ScheduleField ==
    ASSUME NEW S, Marks \subseteq S, Escapes(JsonEscapes, S),
           NEW t \in Seq(S), NEW commands \in Seq(Seq(Seq(S))),
           NEW e, e = 5 + Len(WrittenArray(Arrays(commands, JsonEscapes))),
           Stands(t, 5, WrittenArray(Arrays(commands, JsonEscapes))),
           NEW schedule, PayloadIn(t, e, schedule)
    PROVE  Field(t, "schedule") = IF Hidden(commands) THEN 0 ELSE e + 6
<1>1. /\ e \in Nat /\ e >= 7 /\ DOMAIN t = 1..(e + 7)
      /\ t[1] = "{" /\ t[2] = Quote /\ t[3] = "commands" /\ t[4] = Quote
      /\ t[5] = ":"
      /\ t[e + 1] = "," /\ t[e + 2] = Quote /\ t[e + 3] = "schedule"
      /\ t[e + 4] = Quote /\ t[e + 5] = ":"
  BY DEF PayloadIn
<1>2. e \in Nat /\ e >= 7
  BY <1>1
<1>3. ASSUME NEW x \in DOMAIN t
      PROVE  x \in Nat /\ x >= 1 /\ x \in 1..(e + 7)
  <2>1. x \in 1..(e + 7)
    BY <1>1, Zenon
  <2> QED
    BY <1>2, <2>1
<1>4. \A x \in 1..(e + 7) : At(t, x) = t[x]
  BY <1>1 DEF At
<1>5. /\ e + 1 \in 1..(e + 7) /\ e + 2 \in 1..(e + 7) /\ e + 3 \in 1..(e + 7)
      /\ e + 4 \in 1..(e + 7) /\ e + 5 \in 1..(e + 7)
      /\ e + 2 + 1 = e + 3 /\ e + 2 + 2 = e + 4 /\ e + 2 + 3 = e + 5
      /\ e + 2 + 4 = e + 6 /\ e + 2 \in Nat
  BY <1>2
<1>6. KeyAt(t, "schedule", e + 2) /\ At(t, e + 2 + 3) = ":"
  <2>1. /\ At(t, e + 2) = Quote /\ At(t, e + 3) = "schedule"
        /\ At(t, e + 4) = Quote /\ At(t, e + 5) = ":"
    BY <1>1, <1>4, <1>5
  <2>2. e + 2 \in DOMAIN t
    BY <1>1, <1>5
  <2> QED
    BY <1>5, <2>1, <2>2 DEF KeyAt
<1>7. ASSUME NEW x \in DOMAIN t, x < e + 2, KeyAt(t, "schedule", x)
      PROVE  Hidden(commands) /\ At(t, x + 3) # ":"
  <2>1. x \in Nat /\ x >= 1 /\ x \in 1..(e + 7)
    BY <1>3, Zenon
  <2>2. At(t, x) = Quote /\ At(t, x + 1) = "schedule" /\ t[x] = Quote
    BY <1>4, <1>7, <2>1 DEF KeyAt
  <2>3. x # 1 /\ x # 3 /\ x # 5 /\ x # e + 1
    BY <1>1, <2>2 DEF Quote
  <2>4. x # 2 /\ x # 4
    <3>1. 3 \in 1..(e + 7) /\ 5 \in 1..(e + 7) /\ 2 + 1 = 3 /\ 4 + 1 = 5
      BY <1>2
    <3>2. At(t, 2 + 1) = "commands" /\ At(t, 4 + 1) = ":"
      BY <1>1, <1>4, <3>1
    <3> QED
      BY <2>2, <3>2
  <2>5. 5 < x /\ x <= e
    <3>1. x < e + 2 /\ x # e + 1
      BY <1>7, <2>3
    <3>2. x <= e
      BY <1>2, <2>1, <3>1
    <3>3. x # 1 /\ x # 2 /\ x # 3 /\ x # 4 /\ x # 5
      BY <2>3, <2>4
    <3>4. PICK y \in Nat : y = x
      BY <2>1
    <3>5. y \in {0, 1, 2, 3, 4, 5} \/ 5 < y
      OBVIOUS
    <3>6. x # 0
      BY <2>1
    <3> QED
      BY <3>2, <3>3, <3>4, <3>5, <3>6
  <2>6. t[x] \notin Marks
    BY <2>2 DEF Marks, Quote
  <2>7. PICK c \in 1..Len(commands) : \E k \in 1..Len(commands[c]) :
            /\ commands[c][k] \in Seq(S)
            /\ \E s : InWord(t, commands[c][k], s, x)
    <3>1. x <= 5 + Len(WrittenArray(Arrays(commands, JsonEscapes)))
      BY <2>5
    <3>2. 5 \in Nat /\ 5 < x
      BY <2>5
    <3> QED
      BY <2>1, <2>6, <3>1, <3>2, InsideCommands, Zenon
  <2>8. PICK k \in 1..Len(commands[c]) :
            /\ commands[c][k] \in Seq(S)
            /\ \E s : InWord(t, commands[c][k], s, x)
    BY <2>7
  <2>9. NamesField(commands[c][k]) /\ At(t, x + 3) # ":"
    BY <1>7, <2>1, <2>8, ScheduleInWord, Zenon
  <2> QED
    BY <2>9, Zenon DEF Hidden
<1>8. \A y \in Nat : y >= 1 /\ y + 2 <= e =>
          y \in 1..e /\ y + 1 \in 1..e /\ y + 2 \in 1..e
  BY <1>2
<1>9. \A y \in 1..e : y \in 1..(e + 7) /\ y < e + 2
  BY <1>2
<1>10. ASSUME Hidden(commands)
       PROVE  \E x \in DOMAIN t : x < e + 2 /\ KeyAt(t, "schedule", x)
  <2>1. PICK c \in 1..Len(commands) : \E k \in 1..Len(commands[c]) :
            NamesField(commands[c][k])
    BY <1>10, Zenon DEF Hidden
  <2>2. PICK k \in 1..Len(commands[c]) : NamesField(commands[c][k])
    BY <2>1
  <2>3. 5 \in Nat
    OBVIOUS
  <2>4. PICK word \in Seq(S), s \in Nat :
            /\ word = commands[c][k]
            /\ Stands(t, s, WrittenString(word, JsonEscapes))
            /\ s + Len(WrittenString(word, JsonEscapes)) <= e
    BY <2>3, WordStands, Zenon
  <2>5. PICK W : W = WrittenString(word, JsonEscapes)
    OBVIOUS
  <2>6. PICK j \in 1..(Len(W) - 2) :
            W[j] = Quote /\ W[j + 1] = "schedule" /\ W[j + 2] = Quote
    <3>1. NamesField(word)
      BY <2>2, <2>4
    <3> QED
      BY <2>5, <3>1, NamesFieldMeans
  <2>7. PICK m \in Nat : m = Len(W)
    <3>1. <<>> \in Seq(S) /\ 0 \in Nat
      OBVIOUS
    <3>2. WrittenString(word, JsonEscapes) \in Seq(S)
      BY <3>1, StringLayout
    <3> QED
      BY <2>5, <3>2
  <2>8. /\ j \in 1..m /\ j + 1 \in 1..m /\ j + 2 \in 1..m
        /\ s + m <= e
    <3>1. s + m <= e
      BY <2>4, <2>5, <2>7
    <3>2. j \in 1..(m - 2)
      BY <2>7
    <3> QED
      BY <3>1, <3>2
  <2>9. PICK x : x = s + j /\ x + 1 = s + (j + 1) /\ x + 2 = s + (j + 2)
                 /\ x \in 1..e /\ x + 1 \in 1..e /\ x + 2 \in 1..e
    <3>1. j \in 1..m /\ j + 2 <= m /\ s + m <= e /\ e \in Nat
      BY <1>2, <2>8
    <3>2. PICK y \in Nat : y = s + j
      BY <3>1
    <3>3. y + 1 = s + (j + 1) /\ y + 2 = s + (j + 2) /\ y >= 1 /\ y + 2 <= e
      BY <3>1, <3>2
    <3>4. y \in 1..e /\ y + 1 \in 1..e /\ y + 2 \in 1..e
      BY <1>8, <3>2, <3>3, Zenon
    <3> QED
      BY <3>2, <3>3, <3>4
  <2>10. t[x] = Quote /\ t[x + 1] = "schedule" /\ t[x + 2] = Quote
    <3>1. \A y \in 1..m : t[s + y] = W[y]
      BY <2>4, <2>5, <2>7 DEF Stands
    <3>2. /\ t[s + j] = W[j] /\ t[s + (j + 1)] = W[j + 1]
          /\ t[s + (j + 2)] = W[j + 2]
      BY <2>8, <3>1
    <3> QED
      BY <2>6, <2>9, <3>2
  <2>11. x \in DOMAIN t /\ x + 1 \in 1..(e + 7) /\ x + 2 \in 1..(e + 7)
         /\ x < e + 2
    <3>1. x \in 1..(e + 7) /\ x + 1 \in 1..(e + 7) /\ x + 2 \in 1..(e + 7)
          /\ x < e + 2
      BY <1>9, <2>9, Zenon
    <3> QED
      BY <1>1, <3>1
  <2>12. KeyAt(t, "schedule", x)
    <3>1. x \in 1..(e + 7)
      BY <1>1, <2>11
    <3> QED
      BY <1>4, <2>10, <2>11, <3>1 DEF KeyAt
  <2> QED
    BY <2>11, <2>12
<1>11. CASE Hidden(commands)
  <2> DEFINE P == {x \in DOMAIN t : KeyAt(t, "schedule", x)}
  <2>1. PICK x \in P : x < e + 2
    BY <1>10, <1>11
  <2>2. P \in SUBSET Nat /\ P # {}
    <3>1. DOMAIN t \subseteq Nat
      BY <1>3, Zenon
    <3> QED
      BY <2>1, <3>1
  <2>3. PICK f \in P : \A y \in P : f <= y
    <3> HIDE DEF P
    <3> QED
      BY <2>2, Least
  <2>4. f \in Nat /\ x \in Nat /\ f <= x
    BY <2>1, <2>2, <2>3
  <2>5. f < e + 2
    BY <1>2, <2>1, <2>4
  <2>6. At(t, f + 3) # ":"
    BY <1>7, <2>3, <2>5
  <2>7. FirstKey(t, "schedule", f)
    BY <2>3, <2>4 DEF FirstKey
  <2> QED
    BY <1>11, <2>6, <2>7, FieldOfKey
<1>12. CASE ~Hidden(commands)
  <2>1. ASSUME NEW x \in DOMAIN t, KeyAt(t, "schedule", x)
        PROVE  e + 2 <= x
    <3>1. ~(x < e + 2)
      BY <1>7, <1>12, <2>1
    <3>2. x \in Nat
      BY <1>3, Zenon
    <3> QED
      BY <1>2, <3>1, <3>2
  <2>2. FirstKey(t, "schedule", e + 2)
    BY <1>5, <1>6, <2>1 DEF FirstKey
  <2> QED
    BY <1>5, <1>6, <1>12, <2>2, FieldOfKey
<1> QED
  BY <1>11, <1>12

-----------------------------------------------------------------------------
(* Reading a list piece by piece                                           *)

(* The pieces that are done, and the current one, of elements of S.        *)
Pieces(S) == [done : Seq(Seq(S)), current : Seq(S)]

(* Nothing scanned yet: no piece is done or begun.                         *)
LEMMA NoPieceIsPieces ==
    ASSUME NEW S
    PROVE  NoPiece \in Pieces(S) /\ NoPiece.done = <<>> /\ NoPiece.current = <<>>
<1>1. PICK T : T = Seq(S)
  OBVIOUS
<1>2. <<>> \in Seq(T) /\ <<>> \in T
  BY <1>1
<1> QED
  BY <1>1, <1>2 DEF Pieces, NoPiece

(* What a step of the scan does to the pieces.                             *)
LEMMA PiecesGrow ==
    ASSUME NEW S, NEW acc \in Pieces(S)
    PROVE  /\ acc.done \in Seq(Seq(S)) /\ acc.current \in Seq(S)
           /\ Ended(acc) \in Pieces(S)
           /\ Ended(acc).done = Append(acc.done, acc.current)
           /\ Ended(acc).current = <<>>
           /\ \A x \in S : /\ More(acc, x) \in Pieces(S)
                           /\ More(acc, x).done = acc.done
                           /\ More(acc, x).current = Append(acc.current, x)
<1>1. PICK X : X = Seq(S)
  OBVIOUS
<1>2. acc.done \in Seq(X) /\ acc.current \in X
  BY <1>1 DEF Pieces
<1>3. Append(acc.done, acc.current) \in Seq(X) /\ <<>> \in Seq(X) /\ <<>> \in X
  BY <1>1, <1>2
<1>4. Ended(acc) \in Pieces(S)
  BY <1>1, <1>3 DEF Ended, Pieces
<1>5. ASSUME NEW x \in S
      PROVE  /\ More(acc, x) \in Pieces(S)
             /\ More(acc, x).done = acc.done
             /\ More(acc, x).current = Append(acc.current, x)
  <2>1. Append(acc.current, x) \in X
    BY <1>1, <1>2
  <2> QED
    BY <1>1, <1>2, <2>1 DEF More, Pieces
<1> QED
  BY <1>1, <1>2, <1>4, <1>5 DEF Ended

(* f[n] is what has been read of the first n elements.                     *)
Scans(f, list, next, S) ==
    /\ f \in [0..Len(list) -> Pieces(S)] /\ f[0] = NoPiece
    /\ \A k \in 1..Len(list) : f[k] = next[f[k - 1]][list[k]]

(* A scan from left to right has a value at each place.                    *)
LEMMA ScanExists ==
    ASSUME NEW S, NEW list \in Seq(S),
           NEW next \in [Pieces(S) -> [S -> Pieces(S)]]
    PROVE  \E f : Scans(f, list, next, S)
<1>1. PICK n \in Nat : n = Len(list)
  OBVIOUS
<1> DEFINE D == 0..n
           X == Pieces(S)
           Value(f, k) == IF k = 0 THEN NoPiece ELSE next[f[k - 1]][list[k]]
           step == [k \in D |-> [f \in [D -> X] |-> Value(f, k)]]
           rank == [k \in D |-> k]
<1>2. NoPiece \in X
  BY NoPieceIsPieces
<1>3. \A k \in D : k # 0 => k - 1 \in D /\ rank[k - 1] < rank[k] /\ k \in 1..n
  OBVIOUS
<1>4. ASSUME NEW k \in D, NEW f \in [D -> X]
      PROVE  Value(f, k) \in X
  <2>1. ASSUME k # 0
        PROVE  next[f[k - 1]][list[k]] \in X
    <3>1. f[k - 1] \in X /\ list[k] \in S
      <4>1. k - 1 \in D /\ k \in 1..n
        BY <1>3, <2>1
      <4>2. list[k] \in S
        BY <1>1, <4>1
      <4> HIDE DEF D, X
      <4> QED
        BY <4>1, <4>2
    <3> QED
      BY <3>1
  <2> QED
    BY <1>2, <2>1
<1>5. ASSUME NEW k \in D, NEW f \in [D -> X], NEW g \in [D -> X],
             \A e \in D : rank[e] < rank[k] => f[e] = g[e]
      PROVE  Value(f, k) = Value(g, k)
  <2>1. k # 0 => f[k - 1] = g[k - 1]
    BY <1>3, <1>5
  <2> QED
    BY <2>1
<1>6. \A k \in D : rank[k] \in 0..n
  OBVIOUS
<1>7. \A k \in D : \A f \in [D -> X] : step[k][f] = Value(f, k)
  OBVIOUS
<1>8. \A k \in D : \A f \in [D -> X] : step[k][f] \in X
  BY <1>4, <1>7
<1>9. \A k \in D : \A f \in [D -> X] : \A g \in [D -> X] :
          (\A e \in D : rank[e] < rank[k] => f[e] = g[e])
              => step[k][f] = step[k][g]
  BY <1>5, <1>7
<1>10. 0 \in D /\ \A k \in 1..n : k \in D /\ k # 0
  OBVIOUS
<1> HIDE DEF D, step, rank, X
<1>11. Recursive(D, X, n, rank, step)
  BY <1>2, <1>6, <1>8, <1>9 DEF Recursive
<1>12. PICK f \in [D -> X] : Computes(f, D, step)
  BY <1>11, Recursion
<1>13. \A k \in D : f[k] = Value(f, k)
  BY <1>7, <1>12 DEF Computes
<1>14. Scans(f, list, next, S)
  BY <1>1, <1>10, <1>12, <1>13 DEF Scans, D, X
<1> QED
  BY <1>14

-----------------------------------------------------------------------------
(* Splitting the words of a command line                                   *)

(* A command ends at a separator, unless no word of it was typed.          *)
Cut(acc) == IF acc.current = <<>> THEN acc ELSE Ended(acc)

(* The same as `taken` in Split, over any function.                        *)
SplitAt(words, f, n) ==
    CASE n = 0 -> NoPiece
      [] n # 0 /\ words[n] # Separator -> More(f[n - 1], words[n])
      [] OTHER -> Cut(f[n - 1])

(* The values the splitting of the words has after each of them.           *)
IsSplit(f, words) == f = [n \in 0..Len(words) |-> SplitAt(words, f, n)]
TheSplit(words) == CHOOSE f : IsSplit(f, words)

(* Split has a value: what is done after the last word is cut.             *)
LEMMA SplitExists ==
    ASSUME NEW S, NEW words \in Seq(S)
    PROVE  /\ IsSplit(TheSplit(words), words)
           /\ Split(words) = Cut(TheSplit(words)[Len(words)]).done
<1> DEFINE next == [acc \in Pieces(S) |-> [x \in S |->
                       IF x # Separator THEN More(acc, x) ELSE Cut(acc)]]
<1>1. next \in [Pieces(S) -> [S -> Pieces(S)]]
  <2>1. ASSUME NEW acc \in Pieces(S), NEW x \in S
        PROVE  (IF x # Separator THEN More(acc, x) ELSE Cut(acc)) \in Pieces(S)
    BY PiecesGrow DEF Cut
  <2> QED
    BY <2>1
<1>2. \A acc \in Pieces(S) : \A x \in S :
          next[acc][x] = IF x # Separator THEN More(acc, x) ELSE Cut(acc)
  OBVIOUS
<1> HIDE DEF next
<1>3. PICK f : Scans(f, words, next, S)
  BY <1>1, ScanExists
<1>4. PICK n \in Nat : n = Len(words)
  OBVIOUS
<1>5. f \in [0..n -> Pieces(S)] /\ f[0] = NoPiece
      /\ \A k \in 1..n : f[k] = next[f[k - 1]][words[k]]
  BY <1>3, <1>4 DEF Scans
<1>6. ASSUME NEW k \in 0..n
      PROVE  f[k] = SplitAt(words, f, k)
  <2>1. CASE k = 0
    BY <1>5, <2>1 DEF SplitAt
  <2>2. CASE k # 0
    <3>1. k \in 1..n /\ k - 1 \in 0..n
      BY <2>2
    <3>2. f[k - 1] \in Pieces(S) /\ words[k] \in S
          /\ f[k] = next[f[k - 1]][words[k]]
      BY <1>4, <1>5, <3>1
    <3>3. f[k] = IF words[k] # Separator THEN More(f[k - 1], words[k])
                 ELSE Cut(f[k - 1])
      BY <1>2, <3>2
    <3> QED
      BY <2>2, <3>3 DEF SplitAt
  <2> QED
    BY <2>1, <2>2
<1>7. IsSplit(f, words)
  BY <1>4, <1>5, <1>6 DEF IsSplit
<1>8. IsSplit(TheSplit(words), words)
  BY <1>7 DEF TheSplit
<1>9. Split(words) = Cut(TheSplit(words)[Len(words)]).done
  BY DEF Split, TheSplit, IsSplit, SplitAt, Cut
<1> QED
  BY <1>8, <1>9

(* Each typed word as the words of a command it gives: a separator, none.  *)
WordPieces(words) ==
    [i \in 1..Len(words) |->
        IF words[i] = Separator THEN <<>> ELSE <<words[i]>>]

(* Where a command starts, among the first n words.                        *)
Starts(words, n) ==
    {i \in 1..n : /\ words[i] # Separator
                  /\ i = 1 \/ words[i - 1] = Separator}

(* The commands so far, the one begun included.                            *)
Count(acc) == IF acc.current = <<>> THEN Len(acc.done) ELSE Len(acc.done) + 1

(* A word starts a command when it follows no other word of one.           *)
LEMMA StartsGrow ==
    ASSUME NEW words, NEW n \in Nat, n # 0
    PROVE  /\ IsFiniteSet(Starts(words, n)) /\ Starts(words, 0) = {}
           /\ Cardinality(Starts(words, n)) \in Nat
           /\ Starts(words, n) =
                  IF words[n] # Separator /\ (n = 1 \/ words[n - 1] = Separator)
                  THEN Starts(words, n - 1) \cup {n} ELSE Starts(words, n - 1)
           /\ Cardinality(Starts(words, n)) =
                  IF words[n] # Separator /\ (n = 1 \/ words[n - 1] = Separator)
                  THEN Cardinality(Starts(words, n - 1)) + 1
                  ELSE Cardinality(Starts(words, n - 1))
<1>1. \A k \in Nat : IsFiniteSet(Starts(words, k))
  <2>1. ASSUME NEW k \in Nat
        PROVE  IsFiniteSet(Starts(words, k))
    <3>1. IsFiniteSet(1..k)
      BY FS_Interval
    <3>2. Starts(words, k) \in SUBSET (1..k)
      BY DEF Starts
    <3> QED
      BY <3>1, <3>2, FS_Subset
  <2> QED
    BY <2>1
<1>2. n - 1 \in Nat /\ n \in 1..n
      /\ \A i : i \in 1..n <=> i = n \/ i \in 1..(n - 1)
  OBVIOUS
<1>3. Starts(words, 0) = {}
  BY DEF Starts
<1>4. Starts(words, n) =
          IF words[n] # Separator /\ (n = 1 \/ words[n - 1] = Separator)
          THEN Starts(words, n - 1) \cup {n} ELSE Starts(words, n - 1)
  BY <1>2 DEF Starts
<1>5. n \notin Starts(words, n - 1)
  BY DEF Starts
<1>6. Cardinality(Starts(words, n - 1) \cup {n}) =
          Cardinality(Starts(words, n - 1)) + 1
  BY <1>1, <1>2, <1>5, FS_AddElement
<1>7. Cardinality(Starts(words, n)) \in Nat
  BY <1>1, FS_CardinalityType
<1> QED
  BY <1>1, <1>3, <1>4, <1>6, <1>7

(* Nothing, flattened, is nothing.                                         *)
LEMMA EmptyFlatten ==
    ASSUME NEW S
    PROVE  <<>> \in Seq(S) /\ FlattenSeq(<<>>) = <<>> /\ <<>> \o <<>> = <<>>
<1>1. PICK e : e = <<>>
  OBVIOUS
<1>2. e \in Seq(S) /\ Len(e) = 0 /\ e \o e = e
  BY <1>1
<1>3. FlattenSeq(e) = <<>>
  BY <1>1, <1>2 DEF FlattenSeq
<1> QED
  BY <1>1, <1>2, <1>3

(* A word appended to the current command is appended to all of them.      *)
LEMMA JoinAppended ==
    ASSUME NEW S, NEW F \in Seq(S), NEW c \in Seq(S), NEW x \in S
    PROVE  F \o Append(c, x) = (F \o c) \o <<x>>
<1>1. <<x>> \in Seq(S) /\ Append(c, x) = c \o <<x>>
  BY AppendIsConcat
<1> QED
  BY <1>1, ConcatAssociative

(* What has been split of the first n words.                               *)
HasSplit(acc, n, words, g, S) ==
    /\ acc \in Pieces(S)
    /\ FlattenSeq(acc.done) \o acc.current = g[n]
    /\ \A k \in 1..Len(acc.done) : acc.done[k] # <<>>
    /\ acc.current = <<>> <=> n = 0 \/ words[n] = Separator
    /\ Count(acc) = Cardinality(Starts(words, n))

(* Ending a command that is not empty keeps what was typed.                *)
LEMMA EndedSplit ==
    ASSUME NEW S, NEW acc \in Pieces(S), acc.current # <<>>,
           \A k \in 1..Len(acc.done) : acc.done[k] # <<>>
    PROVE  /\ FlattenSeq(Ended(acc).done) = FlattenSeq(acc.done) \o acc.current
           /\ FlattenSeq(Ended(acc).done) \in Seq(S)
           /\ \A k \in 1..Len(Ended(acc).done) : Ended(acc).done[k] # <<>>
           /\ Len(Ended(acc).done) = Len(acc.done) + 1
<1>1. PICK X, done, current, ended :
          /\ X = Seq(S) /\ done = acc.done /\ current = acc.current
          /\ ended = Ended(acc).done
  OBVIOUS
<1>2. done \in Seq(X) /\ current \in X /\ ended = Append(done, current)
  BY <1>1, PiecesGrow
<1>3. FlattenSeq(ended) = FlattenSeq(done) \o current
      /\ FlattenSeq(done) \o current \in Seq(S)
  <2>1. done \in Seq(Seq(S)) /\ current \in Seq(S)
    BY <1>1, <1>2
  <2>2. FlattenSeq(Append(done, current)) = FlattenSeq(done) \o current
        /\ FlattenSeq(done) \in Seq(S)
    BY <2>1, FlattenAppend, Zenon
  <2> QED
    BY <1>2, <2>1, <2>2
<1>4. Len(ended) = Len(done) + 1
      /\ \A k \in 1..Len(ended) : ended[k] # <<>>
  <2>1. PICK n \in Nat : n = Len(done)
    BY <1>2
  <2>2. /\ Len(ended) = n + 1 /\ ended[n + 1] = current
        /\ \A k \in 1..n : ended[k] = done[k]
    BY <1>2, <2>1, AppendProperties
  <2>3. \A k \in 1..(n + 1) : k \in 1..n \/ k = n + 1
    BY <2>1
  <2> QED
    BY <1>1, <2>1, <2>2, <2>3
<1> QED
  BY <1>1, <1>3, <1>4

(* One more word keeps what HasSplit says of the commands so far.          *)
LEMMA SplitSteps ==
    ASSUME NEW S, NEW words \in Seq(S), NEW n \in 1..Len(words), NEW g,
           Chain(g, WordPieces(words), S), NEW acc,
           HasSplit(acc, n - 1, words, g, S)
    PROVE  IF words[n] # Separator
           THEN HasSplit(More(acc, words[n]), n, words, g, S)
           ELSE HasSplit(Cut(acc), n, words, g, S)
<1>1. n \in Nat /\ n # 0 /\ n - 1 \in Nat
  OBVIOUS
<1>2. PICK w \in S : w = words[n]
  OBVIOUS
<1>3. PICK X : X = Seq(S)
  OBVIOUS
<1>4. /\ acc \in Pieces(S) /\ acc.done \in Seq(X) /\ acc.current \in Seq(S)
      /\ FlattenSeq(acc.done) \o acc.current = g[n - 1]
      /\ \A k \in 1..Len(acc.done) : acc.done[k] # <<>>
      /\ acc.current = <<>> <=> n - 1 = 0 \/ words[n - 1] = Separator
      /\ Count(acc) = Cardinality(Starts(words, n - 1))
      /\ FlattenSeq(acc.done) \in Seq(S)
  <2>1. acc \in Pieces(S)
    BY DEF HasSplit
  <2>2. acc.done \in Seq(Seq(S)) /\ acc.current \in Seq(S)
    BY <2>1, PiecesGrow
  <2>3. <<>> \in Seq(S)
    OBVIOUS
  <2>4. FlattenSeq(acc.done) \in Seq(S)
    BY <2>2, <2>3, FlattenAppend, Zenon
  <2> QED
    BY <1>3, <2>1, <2>2, <2>4 DEF HasSplit
<1>5. g[n] = g[n - 1] \o (IF w = Separator THEN <<>> ELSE <<w>>)
      /\ g[n - 1] \in Seq(S)
  <2>1. PICK m \in Nat : m = Len(words)
    OBVIOUS
  <2>2. Len(WordPieces(words)) = m
        /\ \A i \in 1..m : WordPieces(words)[i] =
               IF words[i] = Separator THEN <<>> ELSE <<words[i]>>
    BY <2>1 DEF WordPieces
  <2>3. n \in 1..m /\ n - 1 \in 0..m
    BY <2>1
  <2>4. g[n] = g[n - 1] \o WordPieces(words)[n] /\ g[n - 1] \in Seq(S)
    BY <2>2, <2>3 DEF Chain
  <2> QED
    BY <1>2, <2>2, <2>3, <2>4
<1>6. n - 1 = 0 <=> n = 1
  OBVIOUS
<1>7. CASE w # Separator
  <2>1. PICK more : more = More(acc, w)
    OBVIOUS
  <2>2. more \in Pieces(S) /\ more.done = acc.done
        /\ more.current = Append(acc.current, w)
    <3>1. acc \in Pieces(S)
      BY <1>4
    <3>2. \A x \in S : /\ More(acc, x) \in Pieces(S)
                       /\ More(acc, x).done = acc.done
                       /\ More(acc, x).current = Append(acc.current, x)
      BY <3>1, PiecesGrow
    <3> QED
      BY <2>1, <3>2
  <2>3. more.current # <<>> /\ Append(acc.current, w) = acc.current \o <<w>>
        /\ <<w>> \in Seq(S)
    BY <1>4, <2>2, AppendProperties, AppendIsConcat
  <2>4. FlattenSeq(more.done) \o more.current = g[n]
    <3>1. FlattenSeq(acc.done) \o Append(acc.current, w) =
              (FlattenSeq(acc.done) \o acc.current) \o <<w>>
      <4>1. PICK F \in Seq(S), c \in Seq(S) :
                F = FlattenSeq(acc.done) /\ c = acc.current
        BY <1>4
      <4>2. F \o Append(c, w) = (F \o c) \o <<w>>
        BY JoinAppended
      <4> QED
        BY <4>1, <4>2
    <3>2. g[n] = g[n - 1] \o <<w>>
      BY <1>5, <1>7
    <3> QED
      BY <1>4, <2>2, <3>1, <3>2
  <2>5. Count(more) = Len(acc.done) + 1
    BY <2>2, <2>3 DEF Count
  <2>6. Len(acc.done) \in Nat
    BY <1>4
  <2>7. Cardinality(Starts(words, n)) =
            IF acc.current = <<>> THEN Cardinality(Starts(words, n - 1)) + 1
            ELSE Cardinality(Starts(words, n - 1))
    BY <1>1, <1>2, <1>4, <1>6, <1>7, StartsGrow
  <2>8. Count(more) = Cardinality(Starts(words, n))
    BY <1>4, <2>5, <2>6, <2>7 DEF Count
  <2>9. HasSplit(more, n, words, g, S)
    BY <1>1, <1>2, <1>4, <1>7, <2>2, <2>3, <2>4, <2>8 DEF HasSplit
  <2> QED
    BY <1>2, <1>7, <2>1, <2>9
<1>8. CASE w = Separator
  <2>1. g[n] = g[n - 1]
    <3>1. g[n - 1] \o <<>> = g[n - 1]
      BY <1>5
    <3> QED
      BY <1>5, <1>8, <3>1
  <2>2. Cardinality(Starts(words, n)) = Cardinality(Starts(words, n - 1))
    BY <1>1, <1>2, <1>8, StartsGrow
  <2>3. CASE acc.current = <<>>
    <3>1. HasSplit(acc, n, words, g, S)
      BY <1>1, <1>2, <1>4, <1>8, <2>1, <2>2, <2>3 DEF HasSplit
    <3> QED
      BY <1>2, <1>8, <2>3, <3>1 DEF Cut
  <2>4. CASE acc.current # <<>>
    <3>1. PICK ended : ended = Ended(acc)
      OBVIOUS
    <3>2. ended \in Pieces(S) /\ ended.current = <<>>
      BY <1>4, <3>1, PiecesGrow
    <3>3. /\ FlattenSeq(ended.done) = FlattenSeq(acc.done) \o acc.current
          /\ FlattenSeq(ended.done) \in Seq(S)
          /\ \A k \in 1..Len(ended.done) : ended.done[k] # <<>>
          /\ Len(ended.done) = Len(acc.done) + 1
      BY <1>4, <2>4, <3>1, EndedSplit
    <3>4. FlattenSeq(ended.done) \o ended.current = g[n]
      <4>1. FlattenSeq(ended.done) \o <<>> = FlattenSeq(ended.done)
        BY <3>3, ConcatEmptySeq
      <4> QED
        BY <1>4, <2>1, <3>2, <3>3, <4>1
    <3>5. Count(ended) = Cardinality(Starts(words, n))
      BY <1>4, <2>2, <2>4, <3>2, <3>3 DEF Count
    <3>6. HasSplit(ended, n, words, g, S)
      BY <1>1, <1>2, <1>8, <3>2, <3>3, <3>4, <3>5 DEF HasSplit
    <3> QED
      BY <1>2, <1>8, <2>4, <3>1, <3>6 DEF Cut
  <2> QED
    BY <2>3, <2>4
<1> QED
  BY <1>7, <1>8

(* The words of the commands are those of the line without the separators, *)
(* in their order, and a command starts with each word after a separator.  *)
LEMMA SplitIs ==
    ASSUME NEW S, NEW words \in Seq(S)
    PROVE  /\ Split(words) \in Seq(Seq(S))
           /\ FlattenSeq(Split(words)) = FlattenSeq(WordPieces(words))
           /\ Len(Split(words)) = Cardinality(Starts(words, Len(words)))
           /\ \A k \in 1..Len(Split(words)) : Split(words)[k] # <<>>
<1>1. PICK n \in Nat : n = Len(words)
  OBVIOUS
<1>2. PICK f : f = TheSplit(words)
  OBVIOUS
<1>3. /\ IsSplit(f, words) /\ Split(words) = Cut(f[n]).done
  BY <1>1, <1>2, SplitExists
<1>4. \A k \in 0..n : f[k] = SplitAt(words, f, k)
  BY <1>1, <1>3 DEF IsSplit
<1>5. PICK X : X = Seq(S)
  OBVIOUS
<1>6. WordPieces(words) \in Seq(X) /\ Len(WordPieces(words)) = n
  <2>1. ASSUME NEW i \in 1..n
        PROVE  (IF words[i] = Separator THEN <<>> ELSE <<words[i]>>) \in Seq(S)
    <3>1. words[i] \in S
      BY <1>1
    <3> QED
      BY <3>1
  <2>2. WordPieces(words) \in [1..n -> X]
    BY <1>1, <1>5, <2>1 DEF WordPieces
  <2> QED
    BY <2>2
<1>7. PICK g : Chain(g, WordPieces(words), S)
  BY <1>5, <1>6, ChainExists
<1>8. g[0] = <<>> /\ FlattenSeq(WordPieces(words)) = g[n]
  BY <1>5, <1>6, <1>7, ChainIsFlatten DEF Chain
<1> DEFINE D == 0..n
           rank == [k \in D |-> k]
           P == {k \in D : HasSplit(f[k], k, words, g, S)}
<1>9. ASSUME NEW k \in D, \A e \in D : rank[e] < rank[k] => e \in P
      PROVE  k \in P
  <2>1. CASE k = 0
    <3>1. f[k] = NoPiece
      BY <1>4, <2>1 DEF SplitAt
    <3>2. HasSplit(NoPiece, 0, words, g, S)
      <4>1. NoPiece \in Pieces(S) /\ NoPiece.done = <<>>
            /\ NoPiece.current = <<>>
        BY NoPieceIsPieces
      <4>2. FlattenSeq(<<>>) \o <<>> = <<>>
        BY EmptyFlatten, Zenon
      <4>3. Len(<<>>) = 0
        OBVIOUS
      <4>4. Cardinality(Starts(words, 0)) = 0
        <5>1. 1 \in Nat /\ 1 # 0
          OBVIOUS
        <5>2. Starts(words, 0) = {}
          BY <5>1, StartsGrow
        <5> QED
          BY <5>2, FS_EmptySet
      <4> QED
        BY <1>8, <4>1, <4>2, <4>3, <4>4 DEF HasSplit, Count
    <3> QED
      BY <2>1, <3>1, <3>2
  <2>2. CASE k # 0
    <3>1. k \in 1..n /\ k - 1 \in D /\ rank[k - 1] < rank[k]
      BY <2>2
    <3>2. HasSplit(f[k - 1], k - 1, words, g, S)
      BY <1>9, <3>1
    <3>3. IF words[k] # Separator
          THEN HasSplit(More(f[k - 1], words[k]), k, words, g, S)
          ELSE HasSplit(Cut(f[k - 1]), k, words, g, S)
      BY <1>1, <1>7, <3>1, <3>2, SplitSteps
    <3>4. f[k] = IF words[k] # Separator THEN More(f[k - 1], words[k])
                 ELSE Cut(f[k - 1])
      BY <1>4, <2>2 DEF SplitAt
    <3> QED
      BY <3>3, <3>4
  <2> QED
    BY <2>1, <2>2
<1>10. \A k \in D : rank[k] \in Nat
  OBVIOUS
<1>11. HasSplit(f[n], n, words, g, S)
  <2> HIDE DEF P, rank
  <2>1. Inductive(D, rank, P)
    BY <1>9, <1>10 DEF Inductive
  <2>2. D \subseteq P
    BY <2>1, RankInduction
  <2>3. n \in P
    BY <2>2
  <2> QED
    BY <2>3 DEF P
<1>12. PICK acc : acc = f[n]
  OBVIOUS
<1>13. /\ acc \in Pieces(S)
       /\ FlattenSeq(acc.done) \o acc.current = g[n]
       /\ \A k \in 1..Len(acc.done) : acc.done[k] # <<>>
       /\ Count(acc) = Cardinality(Starts(words, n))
  BY <1>11, <1>12 DEF HasSplit
<1>14. CASE acc.current = <<>>
  <2>1. Split(words) = acc.done
    BY <1>3, <1>12, <1>14 DEF Cut
  <2>2. acc.done \in Seq(Seq(S)) /\ <<>> \in Seq(S)
    BY <1>13, PiecesGrow
  <2>3. FlattenSeq(acc.done) \in Seq(S)
    BY <2>2, FlattenAppend, Zenon
  <2>4. FlattenSeq(acc.done) \o <<>> = FlattenSeq(acc.done)
    BY <2>3, ConcatEmptySeq
  <2>5. Len(acc.done) = Cardinality(Starts(words, n))
    BY <1>13, <1>14 DEF Count
  <2> QED
    BY <1>1, <1>8, <1>13, <1>14, <2>1, <2>2, <2>4, <2>5
<1>15. CASE acc.current # <<>>
  <2>1. Split(words) = Ended(acc).done
    BY <1>3, <1>12, <1>15 DEF Cut
  <2>2. Ended(acc).done \in Seq(Seq(S))
    BY <1>13, PiecesGrow
  <2>3. /\ FlattenSeq(Ended(acc).done) = FlattenSeq(acc.done) \o acc.current
        /\ \A k \in 1..Len(Ended(acc).done) : Ended(acc).done[k] # <<>>
        /\ Len(Ended(acc).done) = Len(acc.done) + 1
    BY <1>13, <1>15, EndedSplit
  <2>4. Len(Ended(acc).done) = Cardinality(Starts(words, n))
    BY <1>13, <1>15, <2>3 DEF Count
  <2> QED
    BY <1>1, <1>8, <1>13, <2>1, <2>2, <2>3, <2>4
<1> QED
  BY <1>14, <1>15

-----------------------------------------------------------------------------
(* The lines of a text                                                     *)

(* The same as `taken` in FileLines, over any function.                    *)
LinesAt(t, f, n) ==
    CASE n = 0 -> NoPiece
      [] n # 0 /\ t[n] = Newline -> Ended(f[n - 1])
      [] OTHER -> More(f[n - 1], t[n])

(* The values the scan for lines has after each character.                 *)
IsLines(f, t) == f = [n \in 0..Len(t) |-> LinesAt(t, f, n)]
TheLines(t) == CHOOSE f : IsLines(f, t)

(* FileLines has a value: the lines done after the last character.         *)
LEMMA LinesExist ==
    ASSUME NEW S, NEW t \in Seq(S)
    PROVE  /\ IsLines(TheLines(t), t)
           /\ FileLines(t) = TheLines(t)[Len(t)].done
<1> DEFINE next == [acc \in Pieces(S) |-> [x \in S |->
                       IF x = Newline THEN Ended(acc) ELSE More(acc, x)]]
<1>1. next \in [Pieces(S) -> [S -> Pieces(S)]]
  <2>1. ASSUME NEW acc \in Pieces(S), NEW x \in S
        PROVE  (IF x = Newline THEN Ended(acc) ELSE More(acc, x)) \in Pieces(S)
    BY PiecesGrow
  <2> QED
    BY <2>1
<1>2. \A acc \in Pieces(S) : \A x \in S :
          next[acc][x] = IF x = Newline THEN Ended(acc) ELSE More(acc, x)
  OBVIOUS
<1> HIDE DEF next
<1>3. PICK f : Scans(f, t, next, S)
  BY <1>1, ScanExists
<1>4. PICK n \in Nat : n = Len(t)
  OBVIOUS
<1>5. f \in [0..n -> Pieces(S)] /\ f[0] = NoPiece
      /\ \A k \in 1..n : f[k] = next[f[k - 1]][t[k]]
  BY <1>3, <1>4 DEF Scans
<1>6. ASSUME NEW k \in 0..n
      PROVE  f[k] = LinesAt(t, f, k)
  <2>1. CASE k = 0
    BY <1>5, <2>1 DEF LinesAt
  <2>2. CASE k # 0
    <3>1. k \in 1..n /\ k - 1 \in 0..n
      BY <2>2
    <3>2. f[k - 1] \in Pieces(S) /\ t[k] \in S /\ f[k] = next[f[k - 1]][t[k]]
      BY <1>4, <1>5, <3>1
    <3>3. f[k] = IF t[k] = Newline THEN Ended(f[k - 1])
                 ELSE More(f[k - 1], t[k])
      BY <1>2, <3>2
    <3> QED
      BY <2>2, <3>3 DEF LinesAt
  <2> QED
    BY <2>1, <2>2
<1>7. IsLines(f, t)
  BY <1>4, <1>5, <1>6 DEF IsLines
<1>8. IsLines(TheLines(t), t)
  BY <1>7 DEF TheLines
<1>9. FileLines(t) = TheLines(t)[Len(t)].done
  BY DEF FileLines, TheLines, IsLines, LinesAt
<1> QED
  BY <1>8, <1>9

(* Lines that are done and the beginning of the next.                      *)
Piece(done, current) == [done |-> done, current |-> current]

(* One more character of the current line.                                 *)
LEMMA MorePiece ==
    ASSUME NEW done, NEW current, NEW x
    PROVE  More(Piece(done, current), x) = Piece(done, Append(current, x))
<1>1. PICK c : c = Append(current, x)
  OBVIOUS
<1>2. More([done |-> done, current |-> current], x) =
          [[done |-> done, current |-> current] EXCEPT !.current = c]
  BY <1>1 DEF More
<1>3. [[done |-> done, current |-> current] EXCEPT !.current = c] =
          [done |-> done, current |-> c]
  OBVIOUS
<1> QED
  BY <1>1, <1>2, <1>3 DEF Piece

(* A line with its end stands at a place where the scan begins a line.     *)
LineIn(S, t, f, q, line, done) ==
    /\ t \in Seq(S) /\ line \in Seq(S) /\ Newline \in S /\ q \in Nat
    /\ IsLines(f, t) /\ f[q] = Piece(done, <<>>)
    /\ \A k \in 1..Len(line) : line[k] # Newline
    /\ Stands(t, q, Append(line, Newline))

(* A line and its newline, from a place where a line starts.               *)
LEMMA LineScanned ==
    ASSUME NEW S, NEW t, NEW f, NEW q, NEW line, NEW done,
           LineIn(S, t, f, q, line, done)
    PROVE  f[q + Len(line) + 1] = Piece(Append(done, line), <<>>)
<1> SUFFICES ASSUME t \in Seq(S), IsLines(f, t), q \in Nat,
                    line \in Seq(S), Newline \in S,
                    \A k \in 1..Len(line) : line[k] # Newline,
                    Stands(t, q, Append(line, Newline)),
                    f[q] = Piece(done, <<>>)
             PROVE  f[q + Len(line) + 1] = Piece(Append(done, line), <<>>)
  BY DEF LineIn
<1>1. PICK n \in Nat, l \in Nat : n = Len(line) /\ l = Len(t)
  OBVIOUS
<1>2. /\ \A k \in 1..n : t[q + k] = line[k]
      /\ t[q + n + 1] = Newline /\ q + n + 1 <= l
  <2>1. PICK whole \in Seq(S) : whole = Append(line, Newline)
    BY AppendProperties
  <2>2. /\ Len(whole) = n + 1 /\ whole[n + 1] = Newline
        /\ \A k \in 1..n : whole[k] = line[k]
    BY <1>1, <2>1, AppendProperties
  <2>3. q + (n + 1) <= l /\ \A k \in 1..(n + 1) : t[q + k] = whole[k]
    BY <1>1, <2>1, <2>2 DEF Stands
  <2>4. q + (n + 1) = q + n + 1 /\ \A k \in 1..n : k \in 1..(n + 1)
    OBVIOUS
  <2>5. n + 1 \in 1..(n + 1)
    OBVIOUS
  <2> QED
    BY <2>2, <2>3, <2>4, <2>5
<1>3. \A k \in 0..l : f[k] = LinesAt(t, f, k)
  BY <1>1 DEF IsLines
<1> DEFINE D == 0..n
           rank == [k \in D |-> k]
           P == {k \in D : f[q + k] = Piece(done, SubSeq(line, 1, k))}
<1>4. ASSUME NEW k \in D, \A e \in D : rank[e] < rank[k] => e \in P
      PROVE  k \in P
  <2>1. CASE k = 0
    <3>1. SubSeq(line, 1, 0) = <<>>
      BY SubSeqEmpty
    <3>2. q + 0 = q
      OBVIOUS
    <3> QED
      BY <2>1, <3>1, <3>2
  <2>2. CASE k # 0
    <3>1. /\ k \in 1..n /\ k - 1 \in D /\ rank[k - 1] < rank[k]
          /\ q + k \in 0..l /\ q + k # 0 /\ q + k - 1 = q + (k - 1)
      BY <1>2, <2>2
    <3>2. PICK before : before = SubSeq(line, 1, k - 1)
      OBVIOUS
    <3>3. f[q + (k - 1)] = Piece(done, before)
      <4>1. k - 1 \in P
        BY <1>4, <3>1
      <4> QED
        BY <3>2, <4>1
    <3>4. t[q + k] = line[k] /\ line[k] # Newline /\ line[k] \in S
      BY <1>1, <1>2, <3>1
    <3>5. f[q + k] = More(f[q + (k - 1)], line[k])
      <4>1. f[q + k] = LinesAt(t, f, q + k)
        BY <1>3, <3>1
      <4>2. LinesAt(t, f, q + k) = More(f[q + k - 1], t[q + k])
        <5>1. t[q + k] # Newline
          BY <3>4
        <5> QED
          BY <3>1, <5>1 DEF LinesAt
      <4> QED
        BY <3>1, <3>4, <4>1, <4>2
    <3>6. More(Piece(done, before), line[k]) =
              Piece(done, Append(before, line[k]))
      BY MorePiece
    <3>7. Append(before, line[k]) = SubSeq(line, 1, k)
      <4>1. 1 \in 1..Len(line) /\ k \in 1..Len(line)
        BY <1>1, <3>1
      <4>2. SubSeq(line, 1, k) = before \o <<line[k]>>
        BY <3>2, <4>1, SubSeqRecursiveSecond
      <4>3. before \in Seq(S)
        <5>1. \A i \in 1..(k - 1) : line[i] \in S
          BY <1>1, <3>1
        <5> QED
          BY <3>2, <5>1, SubSeqProperties
      <4> QED
        BY <3>4, <4>2, <4>3, AppendIsConcat
    <3> QED
      BY <3>3, <3>5, <3>6, <3>7
  <2> QED
    BY <2>1, <2>2
<1>5. \A k \in D : rank[k] \in Nat
  OBVIOUS
<1>6. f[q + n] = Piece(done, line)
  <2>1. n \in D
    OBVIOUS
  <2>2. SubSeq(line, 1, n) = line
    BY <1>1, SubSeqFull
  <2> HIDE DEF rank, P
  <2>3. Inductive(D, rank, P)
    BY <1>4, <1>5 DEF Inductive
  <2>4. D \subseteq P
    BY <2>3, RankInduction
  <2> HIDE DEF D
  <2>5. n \in P
    BY <2>1, <2>4
  <2> QED
    BY <2>2, <2>5 DEF P
<1>7. q + n + 1 \in 0..l /\ q + n + 1 # 0 /\ q + n + 1 - 1 = q + n
  BY <1>2
<1>8. f[q + n + 1] = Ended(f[q + n])
  BY <1>2, <1>3, <1>7 DEF LinesAt
<1> QED
  BY <1>1, <1>6, <1>8 DEF Ended, Piece

(* The lines of the text that is made of them.                             *)
LEMMA LinesRead ==
    ASSUME NEW S, Newline \in S, NEW lines \in Seq(Seq(S)),
           \A i \in 1..Len(lines) : \A k \in 1..Len(lines[i]) :
               lines[i][k] # Newline,
           NEW t, t = FlattenSeq([i \in 1..Len(lines) |->
                                     Append(lines[i], Newline)])
    PROVE  t \in Seq(S) /\ FileLines(t) = lines
<1>1. PICK n \in Nat : n = Len(lines)
  <2>1. PICK X : X = Seq(S)
    OBVIOUS
  <2>2. Len(lines) \in Nat
    BY <2>1
  <2> QED
    BY <2>2
<1>2. PICK X : n = Len(lines) /\ X = Seq(S)
  BY <1>1
<1>3. PICK whole : whole = [i \in 1..n |-> Append(lines[i], Newline)]
  OBVIOUS
<1>4. \A i \in 1..n : lines[i] \in Seq(S)
  BY <1>2
<1>5. \A i \in 1..n : /\ whole[i] = Append(lines[i], Newline)
                      /\ Append(lines[i], Newline) \in X
                      /\ Len(Append(lines[i], Newline)) = Len(lines[i]) + 1
  <2>1. ASSUME NEW i \in 1..n
        PROVE  /\ Append(lines[i], Newline) \in Seq(S)
               /\ Len(Append(lines[i], Newline)) = Len(lines[i]) + 1
    <3>1. PICK line \in Seq(S) : line = lines[i]
      BY <1>4
    <3> QED
      BY <3>1, AppendProperties
  <2> QED
    BY <1>2, <1>3, <2>1
<1>6. whole \in Seq(X) /\ Len(whole) = n
  <2>1. whole \in [1..n -> X]
    BY <1>3, <1>5
  <2> QED
    BY <2>1
<1>7. t = FlattenSeq(whole)
  BY <1>2, <1>3
<1>8. t \in Seq(S) /\ \E p : Layout(whole, t, p)
  <2>1. whole \in Seq(Seq(S))
    BY <1>2, <1>6
  <2> QED
    BY <1>7, <2>1, FlattenLayout
<1>9. PICK p : Layout(whole, t, p)
  BY <1>8
<1>10. /\ p \in [0..n -> Nat] /\ p[0] = 0 /\ p[n] = Len(t)
       /\ \A i \in 1..n : /\ p[i] = p[i - 1] + Len(whole[i])
                          /\ Stands(t, p[i - 1], whole[i])
  BY <1>6, <1>9 DEF Layout
<1>11. PICK f : f = TheLines(t) /\ IsLines(f, t)
  BY <1>8, LinesExist
<1> DEFINE D == 0..n
           rank == [k \in D |-> k]
           P == {k \in D : f[p[k]] = Piece(SubSeq(lines, 1, k), <<>>)}
<1>12. ASSUME NEW k \in D, \A e \in D : rank[e] < rank[k] => e \in P
       PROVE  k \in P
  <2>1. CASE k = 0
    <3>1. SubSeq(lines, 1, 0) = <<>>
      BY SubSeqEmpty
    <3>2. f[0] = NoPiece
      <4>1. 0 \in 0..Len(t)
        BY <1>8
      <4> QED
        BY <1>11, <4>1 DEF IsLines, LinesAt
    <3> QED
      BY <1>10, <2>1, <3>1, <3>2 DEF NoPiece, Piece
  <2>2. CASE k # 0
    <3>1. k \in 1..n /\ k - 1 \in D /\ rank[k - 1] < rank[k]
      BY <2>2
    <3>2. PICK q \in Nat, line \in Seq(S),
                 done \in {SubSeq(lines, 1, k - 1)} :
              /\ q = p[k - 1] /\ line = lines[k]
              /\ done = SubSeq(lines, 1, k - 1)
      <4>1. p[k - 1] \in Nat /\ lines[k] \in Seq(S)
        BY <1>4, <1>10, <3>1
      <4> QED
        BY <4>1
    <3>3. f[q] = Piece(done, <<>>)
      <4>1. k - 1 \in P
        BY <1>12, <3>1
      <4> QED
        BY <3>2, <4>1
    <3>4. Stands(t, q, Append(line, Newline))
      BY <1>5, <1>10, <3>1, <3>2
    <3>5. \A j \in 1..Len(line) : line[j] # Newline
      BY <1>2, <3>1, <3>2
    <3>6. f[q + Len(line) + 1] = Piece(Append(done, line), <<>>)
      <4>1. LineIn(S, t, f, q, line, done)
        BY <1>8, <1>11, <3>3, <3>4, <3>5 DEF LineIn
      <4> QED
        BY <4>1, LineScanned
    <3>7. p[k] = q + Len(line) + 1
      <4>1. Len(whole[k]) = Len(line) + 1 /\ Len(line) \in Nat
        BY <1>5, <3>1, <3>2
      <4>2. p[k] = q + Len(whole[k])
        BY <1>10, <3>1, <3>2
      <4> QED
        BY <4>1, <4>2
    <3>8. Append(done, line) = SubSeq(lines, 1, k)
      <4>1. lines \in Seq(X) /\ line \in X /\ 1 \in 1..Len(lines)
            /\ k \in 1..Len(lines)
        BY <1>2, <3>1
      <4>2. SubSeq(lines, 1, k) = done \o <<line>>
        <5>1. SubSeq(lines, 1, k) = SubSeq(lines, 1, k - 1) \o <<lines[k]>>
          BY <4>1, SubSeqRecursiveSecond
        <5> QED
          BY <3>2, <5>1
      <4>3. done \in Seq(X)
        <5>1. \A i \in 1..(k - 1) : lines[i] \in X
          BY <1>2, <4>1
        <5> QED
          BY <3>2, <5>1, SubSeqProperties
      <4> QED
        BY <4>1, <4>2, <4>3, AppendIsConcat
    <3> QED
      BY <3>6, <3>7, <3>8
  <2> QED
    BY <2>1, <2>2
<1>13. \A k \in D : rank[k] \in Nat
  OBVIOUS
<1>14. f[Len(t)] = Piece(lines, <<>>)
  <2>1. n \in D
    OBVIOUS
  <2>2. SubSeq(lines, 1, n) = lines
    <3>1. lines \in Seq(X)
      BY <1>2
    <3> QED
      BY <1>2, <3>1, SubSeqFull
  <2> HIDE DEF rank, P
  <2>3. Inductive(D, rank, P)
    BY <1>12, <1>13 DEF Inductive
  <2>4. D \subseteq P
    BY <2>3, RankInduction
  <2> HIDE DEF D
  <2>5. n \in P
    BY <2>1, <2>4
  <2> QED
    BY <1>10, <2>2, <2>5 DEF P
<1>15. FileLines(t) = f[Len(t)].done
  BY <1>8, <1>11, LinesExist
<1> QED
  BY <1>8, <1>14, <1>15 DEF Piece

-----------------------------------------------------------------------------
(* The elements of a concatenation are those of its parts.                 *)
SameElements(F, seqs) ==
    /\ \A x \in 1..Len(F) : \E c \in 1..Len(seqs) :
           \E k \in 1..Len(seqs[c]) : F[x] = seqs[c][k]
    /\ \A c \in 1..Len(seqs) : \A k \in 1..Len(seqs[c]) :
           \E x \in 1..Len(F) : F[x] = seqs[c][k]

(* What is flattened has the elements of the parts and no other.           *)
LEMMA FlattenElements ==
    ASSUME NEW S, NEW seqs \in Seq(Seq(S)), NEW F, F = FlattenSeq(seqs)
    PROVE  F \in Seq(S) /\ SameElements(F, seqs)
<1>1. PICK n \in Nat, X \in {Seq(S)} : n = Len(seqs)
  OBVIOUS
<1>2. \A c \in 1..n : seqs[c] \in Seq(S) /\ Len(seqs[c]) \in Nat
  <2>1. \A c \in 1..n : seqs[c] \in Seq(S)
    BY <1>1
  <2> QED
    BY <2>1
<1>3. F \in Seq(S) /\ \E p : Layout(seqs, F, p)
  BY FlattenLayout
<1>4. PICK p : Layout(seqs, F, p)
  BY <1>3
<1>5. PICK l \in Nat : l = Len(F)
  BY <1>3
<1>6. /\ \A k \in 0..n : p[k] \in Nat
      /\ \A k \in 1..n : /\ p[k] = p[k - 1] + Len(seqs[k])
                         /\ Stands(F, p[k - 1], seqs[k])
  BY <1>1, <1>4 DEF Layout
<1>7. ASSUME NEW x \in 1..l
      PROVE  \E c \in 1..n : \E k \in 1..Len(seqs[c]) : F[x] = seqs[c][k]
  <2>1. PICK c \in 1..n : p[c - 1] < x /\ x <= p[c]
    BY <1>1, <1>3, <1>4, <1>5, Inside
  <2>2. PICK a \in Nat, b \in Nat, m \in Nat :
            a = p[c - 1] /\ b = p[c] /\ m = Len(seqs[c])
    <3>1. c - 1 \in 0..n /\ c \in 0..n
      OBVIOUS
    <3> QED
      BY <1>2, <1>6, <3>1
  <2>3. a < x /\ x <= b /\ b = a + m
    BY <1>6, <2>1, <2>2
  <2>4. x - a \in 1..m /\ a + (x - a) = x
    BY <2>3
  <2>5. \A k \in 1..m : F[a + k] = seqs[c][k]
    BY <1>6, <2>2 DEF Stands
  <2>6. F[x] = seqs[c][x - a]
    BY <2>4, <2>5
  <2> QED
    BY <2>2, <2>4, <2>6
<1>8. ASSUME NEW c \in 1..n, NEW k \in 1..Len(seqs[c])
      PROVE  \E x \in 1..l : F[x] = seqs[c][k]
  <2>1. PICK a \in Nat, m \in Nat : a = p[c - 1] /\ m = Len(seqs[c])
    <3>1. c - 1 \in 0..n
      OBVIOUS
    <3> QED
      BY <1>2, <1>6, <3>1
  <2>2. a + m <= l /\ \A j \in 1..m : F[a + j] = seqs[c][j]
    BY <1>5, <1>6, <2>1 DEF Stands
  <2>3. k \in 1..m
    BY <2>1
  <2>4. a + k \in 1..l
    BY <2>2, <2>3
  <2> QED
    BY <2>2, <2>3, <2>4
<1> QED
  BY <1>1, <1>3, <1>5, <1>7, <1>8 DEF SameElements

(* What a written word is made of.                                         *)
LEMMA WrittenOf ==
    ASSUME NEW S, NEW R, NEW escapes, NEW word \in Seq(S), Escapes(escapes, R),
           \A c \in S : c \in DOMAIN escapes \/ c \in R
    PROVE  WrittenString(word, escapes) \in Seq(R)
<1> DEFINE pieces == [k \in 1..Len(word) |-> Written(word[k], escapes)]
<1>1. PICK n \in Nat, X \in {Seq(R)} : n = Len(word)
  OBVIOUS
<1>2. ASSUME NEW k \in 1..n
      PROVE  Written(word[k], escapes) \in Seq(R)
  <2>1. PICK c \in S : c = word[k]
    BY <1>1
  <2>2. CASE c \in DOMAIN escapes
    <3>1. PICK x \in R, y \in R : x = Backslash /\ y = escapes[c]
      BY <2>2 DEF Escapes
    <3>2. <<x, y>> \in Seq(R)
      OBVIOUS
    <3> QED
      BY <2>1, <2>2, <3>1, <3>2 DEF Written
  <2>3. CASE c \notin DOMAIN escapes
    <3>1. c \in R
      BY <2>3
    <3>2. <<c>> \in Seq(R)
      BY <3>1
    <3> QED
      BY <2>1, <2>3, <3>2 DEF Written
  <2> QED
    BY <2>2, <2>3
<1>3. WrittenString(word, escapes) =
          <<Quote>> \o FlattenSeq(pieces) \o <<Quote>>
  <2>1. DOMAIN word = 1..Len(word)
    OBVIOUS
  <2> QED
    BY <2>1 DEF WrittenString, Written
<1>4. pieces \in Seq(Seq(R))
  <2>1. pieces \in [1..n -> X]
    BY <1>1, <1>2
  <2> HIDE DEF pieces
  <2> QED
    BY <2>1
<1> HIDE DEF pieces
<1>5. FlattenSeq(pieces) \in Seq(R)
  BY <1>4, FlattenLayout
<1>6. PICK G \in Seq(R), q \in Seq(R) : G = FlattenSeq(pieces) /\ q = <<Quote>>
  <2>1. PICK x \in R : x = Quote
    BY DEF Escapes
  <2>2. <<x>> \in Seq(R)
    OBVIOUS
  <2> QED
    BY <1>5, <2>1, <2>2
<1>7. q \o G \in Seq(R)
  BY ConcatProperties
<1>8. (q \o G) \o q \in Seq(R)
  BY <1>7, ConcatProperties
<1> QED
  BY <1>3, <1>6, <1>8

(* A command is written with marks and with characters that are escaped or *)
(* need no escape.                                                         *)
LEMMA WrittenCommandOf ==
    ASSUME NEW S, NEW R, NEW escapes, NEW command \in Seq(Seq(S)),
           Escapes(escapes, R), Marks \subseteq R,
           \A c \in S : c \in DOMAIN escapes \/ c \in R
    PROVE  WrittenCommand(command, escapes) \in Seq(R)
<1>1. PICK n \in Nat, X \in {Seq(R)}, Y \in {Seq(S)} : n = Len(command)
  OBVIOUS
<1>2. ASSUME NEW k \in 1..n
      PROVE  WrittenString(command[k], escapes) \in Seq(R)
  <2>1. PICK w \in Seq(S) : w = command[k]
    BY <1>1
  <2> QED
    BY <2>1, WrittenOf, Zenon
<1>3. PICK items :
          items = [k \in DOMAIN command |-> WrittenString(command[k], escapes)]
  OBVIOUS
<1>4. items \in Seq(Seq(R))
  <2>1. DOMAIN command = 1..n
    BY <1>1
  <2>2. items \in [1..n -> X]
    BY <1>1, <1>2, <1>3, <2>1
  <2> QED
    BY <2>2
<1>5. 0 \in Nat /\ <<>> \in Seq(R)
  OBVIOUS
<1>6. WrittenArray(items) \in Seq(R)
  BY <1>4, <1>5, ArrayLayout, Zenon
<1> QED
  BY <1>3, <1>6 DEF WrittenCommand

-----------------------------------------------------------------------------
(* The characters of all texts                                             *)

(* The characters the two codes and their escapes give a meaning.          *)
Special == {Quote, Backslash, Newline, Feed, Control, "n", "f", "u"}

(* Every character a payload or a file is written with.                    *)
Alphabet == Characters \cup Special \cup Marks \cup PayloadMarks \cup Schedules

(* Commands of words of typed characters.                                  *)
Commands == Seq(Seq(Seq(Characters)))

(* JSON has a letter for all but the control characters; the task file and *)
(* its readers have one for all.                                           *)
LEMMA Codings ==
    /\ Coding(Alphabet, JsonEscapes, JsonLetters)
    /\ Coding(Alphabet, FileEscapes, JsonLetters)
    /\ Coding(Alphabet, FileEscapes, FileLetters)
    /\ \A c \in Alphabet : /\ Understood(c, JsonEscapes, JsonLetters)
                                  <=> c # Control
                           /\ Understood(c, FileEscapes, JsonLetters)
    /\ Marks \subseteq Alphabet /\ PayloadMarks \subseteq Alphabet
    /\ Schedules \subseteq Alphabet
    /\ Newline \in Alphabet
<1>1. /\ DOMAIN JsonEscapes = {Quote, Backslash, Newline, Feed, Control}
      /\ JsonEscapes[Quote] = Quote /\ JsonEscapes[Backslash] = Backslash
      /\ JsonEscapes[Newline] = "n" /\ JsonEscapes[Feed] = "f"
      /\ JsonEscapes[Control] = "u"
  BY DEF JsonEscapes, Quote, Backslash, Newline, Feed, Control
<1>2. /\ DOMAIN JsonLetters = {Quote, Backslash, "n", "f"}
      /\ JsonLetters[Quote] = Quote /\ JsonLetters[Backslash] = Backslash
      /\ JsonLetters["n"] = Newline /\ JsonLetters["f"] = Feed
  BY DEF JsonLetters, Quote, Backslash, Newline, Feed, Control
<1>3. /\ DOMAIN FileEscapes = {Quote, Backslash, Newline}
      /\ FileEscapes[Quote] = Quote /\ FileEscapes[Backslash] = Backslash
      /\ FileEscapes[Newline] = "n"
  BY DEF FileEscapes, Quote, Backslash, Newline
<1>4. /\ DOMAIN FileLetters = {Quote, Backslash, "n"}
      /\ FileLetters[Quote] = Quote /\ FileLetters[Backslash] = Backslash
      /\ FileLetters["n"] = Newline
  BY DEF FileLetters, Quote, Backslash, Newline
<1>5. "end" \notin Alphabet
  BY TadmorAssumption DEF Alphabet, Special, Marks, PayloadMarks, Schedules,
     Quote, Backslash, Newline, Feed, Control
<1>6. Special \subseteq Alphabet /\ Marks \subseteq Alphabet
      /\ PayloadMarks \subseteq Alphabet /\ Schedules \subseteq Alphabet
  BY DEF Alphabet
<1>7. /\ Quote \in Special /\ Backslash \in Special /\ Newline \in Special
      /\ Feed \in Special /\ Control \in Special
      /\ "n" \in Special /\ "f" \in Special /\ "u" \in Special
      /\ "u" \notin {Quote, Backslash, "n", "f"}
      /\ Quote # Backslash /\ Newline \notin {Quote, Backslash}
      /\ Feed \notin {Quote, Backslash, Newline}
      /\ Control \notin {Quote, Backslash, Newline, Feed}
      /\ "end" \notin {Quote, Backslash, "n", "f"}
  BY DEF Special, Quote, Backslash, Newline, Feed, Control
<1>8. /\ Escapes(JsonEscapes, Alphabet) /\ Escapes(FileEscapes, Alphabet)
      /\ Letters(JsonLetters, Alphabet) /\ Letters(FileLetters, Alphabet)
  BY <1>1, <1>2, <1>3, <1>4, <1>6, <1>7 DEF Escapes, Letters
<1>9. ASSUME NEW c \in Alphabet
      PROVE  /\ Understood(c, JsonEscapes, JsonLetters) <=> c # Control
             /\ c = Control => Lost(c, JsonEscapes, JsonLetters)
  BY <1>1, <1>2, <1>5, <1>7 DEF Understood, Lost
<1>10. ASSUME NEW c \in Alphabet
       PROVE  /\ Understood(c, FileEscapes, JsonLetters)
              /\ Understood(c, FileEscapes, FileLetters)
  BY <1>2, <1>3, <1>4, <1>5, <1>7 DEF Understood
<1>11. /\ Coding(Alphabet, JsonEscapes, JsonLetters)
       /\ Coding(Alphabet, FileEscapes, JsonLetters)
       /\ Coding(Alphabet, FileEscapes, FileLetters)
  BY <1>8, <1>9, <1>10, Zenon DEF Coding
<1> QED
  BY <1>6, <1>7, <1>9, <1>10, <1>11

(* Sequences over a smaller set are sequences over a larger.               *)
LEMMA SeqWithin ==
    ASSUME NEW S, NEW T, S \subseteq T
    PROVE  Seq(S) \subseteq Seq(T)
OBVIOUS

(* Commands are written in the alphabet.                                   *)
LEMMA CommandsWithin ==
    ASSUME NEW commands \in Commands
    PROVE  commands \in Seq(Seq(Seq(Alphabet)))
<1>1. Characters \subseteq Alphabet
  BY DEF Alphabet
<1>2. Seq(Characters) \subseteq Seq(Alphabet)
  BY <1>1, SeqWithin, Zenon
<1>3. Seq(Seq(Characters)) \subseteq Seq(Seq(Alphabet))
  BY <1>2, SeqWithin, Zenon
<1>4. Seq(Seq(Seq(Characters))) \subseteq Seq(Seq(Seq(Alphabet)))
  BY <1>3, SeqWithin, Zenon
<1> QED
  BY <1>4, Zenon DEF Commands

-----------------------------------------------------------------------------
(* What erraid reads of a request                                          *)

(* The schedule is only found where no word has the name of the field.     *)
Found(commands, schedule, type) ==
    IF Hidden(commands) \/ schedule = "null"
    THEN IF type = "ABSTRACT" THEN "null" ELSE "invalid"
    ELSE schedule

(* What the daemon reads in a payload: the commands if no character of     *)
(* theirs is lost, and the schedule where Found has it.                    *)
LEMMA RequestRead ==
    ASSUME NEW commands \in Commands, NEW schedule \in Schedules, NEW type,
           NEW t, t = Payload(commands, schedule)
    PROVE  /\ \E next \in Nat : next # 0 /\
                  ReadCommands(t, Field(t, "commands") + 1) =
                      IF AllAllClear(commands) THEN Read(commands, next)
                      ELSE Error
           /\ ReadSchedule(t, type) = Found(commands, schedule, type)
<1>1. commands \in Seq(Seq(Seq(Alphabet)))
  BY CommandsWithin
<1>2. /\ Marks \subseteq Alphabet /\ PayloadMarks \subseteq Alphabet
      /\ schedule \in Alphabet /\ Coding(Alphabet, JsonEscapes, JsonLetters)
      /\ Escapes(JsonEscapes, Alphabet)
  BY Codings DEF Coding
<1>3. PICK e : e = 5 + Len(WrittenArray(Arrays(commands, JsonEscapes)))
  OBVIOUS
<1>4. /\ Payload(commands, schedule) \in Seq(Alphabet)
      /\ PayloadIn(Payload(commands, schedule), e, schedule)
      /\ Stands(Payload(commands, schedule), 5,
                WrittenArray(Arrays(commands, JsonEscapes)))
  BY <1>1, <1>2, <1>3, PayloadLayout, Zenon
<1>5. /\ t \in Seq(Alphabet) /\ PayloadIn(t, e, schedule)
      /\ Stands(t, 5, WrittenArray(Arrays(commands, JsonEscapes)))
  BY <1>4, Zenon
<1>6. Field(t, "commands") = 6
  BY <1>5, CommandsField, Zenon
<1>7. Field(t, "schedule") = IF Hidden(commands) THEN 0 ELSE e + 6
  BY <1>1, <1>2, <1>3, <1>5, ScheduleField, Zenon
<1>8. ReadCommands(t, 5 + 2) = IF AllAllClear(commands)
                               THEN Read(commands, e + 1) ELSE Error
  <2>1. 5 \in Nat
    OBVIOUS
  <2> QED
    BY <1>1, <1>2, <1>3, <1>5, <2>1, CommandsAreRead, Zenon
<1>9. e \in Nat
  BY <1>5, Zenon DEF PayloadIn
<1>10. \E next \in Nat : next # 0 /\
           ReadCommands(t, Field(t, "commands") + 1) =
               IF AllAllClear(commands) THEN Read(commands, next) ELSE Error
  <2>1. PICK next \in Nat : next = e + 1 /\ next # 0
    BY <1>9
  <2>2. 5 + 2 = Field(t, "commands") + 1
    BY <1>6
  <2> QED
    BY <1>8, <2>1, <2>2
<1>11. At(t, e + 6) = schedule /\ e + 6 # 0
  <2>1. t[e + 6] = schedule /\ DOMAIN t = 1..(e + 7)
    BY <1>5, Zenon DEF PayloadIn
  <2>2. e + 6 \in 1..(e + 7) /\ e + 6 # 0
    BY <1>9
  <2> QED
    BY <2>1, <2>2, Zenon DEF At
<1>12. ReadSchedule(t, type) = Found(commands, schedule, type)
  <2>1. PICK value : value = Field(t, "schedule")
    OBVIOUS
  <2>2. ReadSchedule(t, type) =
            IF value = 0 \/ At(t, value) = "null"
            THEN IF type = "ABSTRACT" THEN "null" ELSE "invalid"
            ELSE At(t, value)
    BY <2>1 DEF ReadSchedule
  <2>3. CASE Hidden(commands)
    BY <1>7, <2>1, <2>2, <2>3 DEF Found
  <2>4. CASE ~Hidden(commands)
    <3>1. value # 0 /\ At(t, value) = schedule
      BY <1>7, <1>11, <2>1, <2>4
    <3> QED
      BY <2>2, <2>4, <3>1 DEF Found
  <2> QED
    BY <2>3, <2>4
<1> QED
  BY <1>10, <1>12

-----------------------------------------------------------------------------
(* What is read of a task file                                             *)

(* A line of the file: the client reads the command, the daemon an error   *)
(* unless the command has no words.                                        *)
LEMMA LineRead ==
    ASSUME NEW command \in Seq(Seq(Alphabet)),
           NEW line, line = WrittenCommand(command, FileEscapes)
    PROVE  /\ line \in Seq(Alphabet \ {Newline})
           /\ ReadCommand(line, JsonLetters, TRUE, 2) =
                  Read(command, Len(line) + 1)
           /\ ReadLine(line) = IF Len(command) = 0
                               THEN Read(command, Len(line) + 1) ELSE Error
<1>1. /\ Coding(Alphabet, FileEscapes, JsonLetters)
      /\ Coding(Alphabet, FileEscapes, FileLetters)
      /\ Marks \subseteq Alphabet
      /\ \A c \in Alphabet : Understood(c, FileEscapes, JsonLetters)
  BY Codings
<1>2. Escapes(FileEscapes, Alphabet)
  BY <1>1 DEF Coding
<1>3. line \in Seq(Alphabet) /\ Len(line) >= 2
  BY <1>1, <1>2, CommandIsArray, Zenon
<1>4. PICK l \in Nat : l = Len(line) /\ l >= 2
  BY <1>3
<1>5. Stands(line, 0, line) /\ 0 \in Nat /\ 0 + l = l /\ 0 + 2 = 2
  BY <1>3, StandsSelf
<1>6. line \in Seq(Alphabet \ {Newline})
  <2> DEFINE R == Alphabet \ {Newline}
  <2>1. /\ DOMAIN FileEscapes = {Quote, Backslash, Newline}
        /\ FileEscapes[Quote] = Quote /\ FileEscapes[Backslash] = Backslash
        /\ FileEscapes[Newline] = "n"
    BY DEF FileEscapes, Quote, Backslash, Newline
  <2>2. Quote \in R /\ Backslash \in R /\ "n" \in R /\ Marks \subseteq R
    BY DEF Alphabet, Special, Marks, Quote, Backslash, Newline
  <2>3. Escapes(FileEscapes, R)
    BY <2>1, <2>2 DEF Escapes
  <2>4. \A c \in Alphabet : c \in DOMAIN FileEscapes \/ c \in R
    BY <2>1
  <2> HIDE DEF R
  <2>5. line \in Seq(R)
    BY <2>2, <2>3, <2>4, WrittenCommandOf, Zenon
  <2> QED
    BY <2>5 DEF R
<1>7. ReadCommand(line, JsonLetters, TRUE, 2) = Read(command, Len(line) + 1)
  <2>1. l = 0 + Len(WrittenCommand(command, FileEscapes))
    BY <1>4, <1>5
  <2>2. CommandStands(Alphabet, line, 0, command, FileEscapes, JsonLetters,
                      TRUE, l)
    BY <1>1, <1>3, <1>5, <2>1, Zenon DEF CommandStands
  <2>3. ReadCommand(line, JsonLetters, TRUE, 0 + 2) =
            IF \/ Len(command) = 0
               \/ TRUE /\ AllClear(command, FileEscapes, JsonLetters)
            THEN Read(command, l + 1) ELSE Error
    BY <2>2, CommandIsRead, Zenon
  <2>4. AllClear(command, FileEscapes, JsonLetters)
    <3>1. ASSUME NEW k \in 1..Len(command), NEW j \in 1..Len(command[k])
          PROVE  Understood(command[k][j], FileEscapes, JsonLetters)
      <4>1. PICK X : X = Seq(Alphabet)
        OBVIOUS
      <4>2. command[k] \in X
        BY <4>1
      <4>3. PICK word \in Seq(Alphabet) : word = command[k]
        BY <4>1, <4>2
      <4>4. word[j] \in Alphabet
        BY <4>3
      <4> QED
        BY <1>1, <4>3, <4>4
    <3> QED
      BY <3>1 DEF AllClear, Clear
  <2> QED
    BY <1>4, <1>5, <2>3, <2>4
<1>8. ReadLine(line) = IF Len(command) = 0
                       THEN Read(command, Len(line) + 1) ELSE Error
  <2>1. l = 0 + Len(WrittenCommand(command, FileEscapes))
    BY <1>4, <1>5
  <2>2. FALSE \in BOOLEAN
    OBVIOUS
  <2>3. CommandStands(Alphabet, line, 0, command, FileEscapes, FileLetters,
                      FALSE, l)
    BY <1>1, <1>3, <1>4, <1>5, <2>1, <2>2, Zenon DEF CommandStands
  <2>4. ReadCommand(line, FileLetters, FALSE, 0 + 2) =
            IF \/ Len(command) = 0
               \/ FALSE /\ AllClear(command, FileEscapes, FileLetters)
            THEN Read(command, l + 1) ELSE Error
    BY <2>3, CommandIsRead, Zenon
  <2>5. At(line, 1) = "["
    <3>1. PICK s \in Seq(Seq(Alphabet)) : line = WrittenArray(s)
      BY <1>1, <1>2, CommandIsArray, Zenon
    <3>2. PICK a : ArrayIn(line, 0, s, a)
      BY <1>1, <1>3, <1>5, <3>1, ArrayLayout
    <3>3. line[1] = "["
      <4>1. line[0 + 1] = "["
        BY <3>2 DEF ArrayIn
      <4> QED
        BY <4>1
    <3>4. 1 \in DOMAIN line
      BY <1>3
    <3> QED
      BY <3>3, <3>4 DEF At
  <2>6. PICK read : read = ReadCommand(line, FileLetters, FALSE, 2)
    OBVIOUS
  <2>7. ReadLine(line) = IF read.next = l + 1 THEN read ELSE Error
    BY <1>4, <2>5, <2>6 DEF ReadLine
  <2>8. read = IF Len(command) = 0 THEN Read(command, l + 1) ELSE Error
    BY <1>5, <2>4, <2>6
  <2>9. Error.next = 0 /\ Read(command, l + 1).next = l + 1
    BY DEF Error, Read
  <2> QED
    BY <1>4, <2>7, <2>8, <2>9
<1> QED
  BY <1>6, <1>7, <1>8

(* The lines of the file of a task with such commands.                     *)
LinesOf(commands, new, lines) ==
    new.commands = commands /\ lines = FileLines(WrittenFile(new).body)

(* One line for each command, each read as LineRead has it.                *)
LinesReadAs(commands, lines) ==
    /\ Len(commands) \in Nat
    /\ DOMAIN lines = 1..Len(commands) /\ Len(lines) = Len(commands)
    /\ \A i \in 1..Len(commands) :
           /\ ReadCommand(lines[i], JsonLetters, TRUE, 2) =
                  Read(commands[i], Len(lines[i]) + 1)
           /\ Len(lines[i]) \in Nat
           /\ ReadLine(lines[i]) =
                  IF Len(commands[i]) = 0
                  THEN Read(commands[i], Len(lines[i]) + 1) ELSE Error

(* The task file of commands, by the lines it is read in.                  *)
LEMMA FileRead ==
    ASSUME NEW commands \in Commands, NEW new, NEW lines,
           LinesOf(commands, new, lines)
    PROVE  LinesReadAs(commands, lines) /\ WrittenFile(new).count = Len(commands)
<1> DEFINE R == Alphabet \ {Newline}
<1>1. commands \in Seq(Seq(Seq(Alphabet)))
  BY CommandsWithin
<1>2. PICK Y \in {Seq(Seq(Alphabet))}, X \in {Seq(Alphabet)} : TRUE
  OBVIOUS
<1>3. PICK n \in Nat : n = Len(commands)
  BY <1>1, <1>2
<1>4. DOMAIN commands = 1..n /\ \A i \in 1..n : commands[i] \in Y
  BY <1>1, <1>2, <1>3
<1>5. PICK L : L = [i \in 1..n |-> WrittenCommand(commands[i], FileEscapes)]
  OBVIOUS
<1>6. ASSUME NEW i \in 1..n
      PROVE  /\ L[i] \in Seq(Alphabet) /\ L[i] \in Seq(R)
             /\ ReadCommand(L[i], JsonLetters, TRUE, 2) =
                    Read(commands[i], Len(L[i]) + 1)
             /\ ReadLine(L[i]) =
                    IF Len(commands[i]) = 0
                    THEN Read(commands[i], Len(L[i]) + 1) ELSE Error
  <2>1. PICK command \in Seq(Seq(Alphabet)) : command = commands[i]
    BY <1>2, <1>4
  <2>2. PICK line : /\ line = WrittenCommand(command, FileEscapes)
                    /\ line = L[i]
    BY <1>5, <2>1
  <2>3. /\ line \in Seq(Alphabet \ {Newline})
        /\ ReadCommand(line, JsonLetters, TRUE, 2) =
               Read(command, Len(line) + 1)
        /\ ReadLine(line) = IF Len(command) = 0
                            THEN Read(command, Len(line) + 1) ELSE Error
    BY <2>2, LineRead, Zenon
  <2>4. line \in Seq(Alphabet)
    BY <2>3
  <2> QED
    BY <2>1, <2>2, <2>3, <2>4
<1>7. L \in Seq(X) /\ Len(L) = n /\ DOMAIN L = 1..n
  <2>1. L \in [1..n -> X]
    BY <1>2, <1>5, <1>6
  <2> QED
    BY <1>5, <2>1
<1>8. \A i \in 1..Len(L) : \A k \in 1..Len(L[i]) : L[i][k] # Newline
  <2>1. ASSUME NEW i \in 1..n, NEW k \in 1..Len(L[i])
        PROVE  L[i][k] # Newline
    <3>1. PICK line \in Seq(R) : line = L[i]
      BY <1>6
    <3>2. line[k] \in R
      BY <3>1
    <3> QED
      BY <3>1, <3>2
  <2> QED
    BY <1>7, <2>1
<1>9. WrittenFile(new).body =
          FlattenSeq([i \in 1..Len(L) |-> Append(L[i], Newline)])
  <2>1. \A i \in 1..n : L[i] = WrittenCommand(commands[i], FileEscapes)
    BY <1>5
  <2>2. [i \in 1..n |-> Append(L[i], Newline)] =
            [i \in DOMAIN commands |->
                Append(WrittenCommand(commands[i], FileEscapes), Newline)]
    BY <1>4, <2>1
  <2> QED
    BY <1>7, <2>2 DEF WrittenFile, LinesOf
<1>10. lines = L
  <2>1. PICK t : t = WrittenFile(new).body
    OBVIOUS
  <2>2. L \in Seq(Seq(Alphabet)) /\ Newline \in Alphabet
    BY <1>2, <1>7, Codings
  <2>3. t = FlattenSeq([i \in 1..Len(L) |-> Append(L[i], Newline)])
    BY <1>9, <2>1
  <2>4. FileLines(t) = L
    BY <1>8, <2>2, <2>3, LinesRead, Zenon
  <2> QED
    BY <2>1, <2>4 DEF LinesOf
<1>11. WrittenFile(new).count = n
  BY <1>3 DEF WrittenFile, LinesOf
<1>12. \A i \in 1..n : Len(L[i]) \in Nat
  BY <1>6
<1> QED
  BY <1>3, <1>6, <1>7, <1>10, <1>11, <1>12 DEF LinesReadAs

-----------------------------------------------------------------------------
(* What happens to a command line and its payload                          *)

(* The type of the task the option asks for.                               *)
Type == Kind[CHOOSE o \in typed.options : TRUE]

(* What was sent, by tadmor or by another program.                         *)
IsSent(commands) ==
    /\ text = Payload(commands, typed.schedule)
    /\ typed.options # {"o"} /\ Cardinality(typed.options) = 1
    /\ typed.words # <<>> =>
           /\ commands = Split(typed.words)
           /\ Accepted(typed.options, typed.schedule, typed.words)

(* What erraid makes a task of.                                            *)
Taken(commands) ==
    /\ AllAllClear(commands)
    /\ Found(commands, typed.schedule, Type) # "invalid"
    /\ Valid(Type, Read(commands, 1))

(* The task a request with these commands is for.                          *)
TaskOf(commands) ==
    [type |-> Type, commands |-> commands,
     schedule |-> Found(commands, typed.schedule, Type)]

(* Commands of no words.                                                   *)
NoArguments(commands) == \A i \in 1..Len(commands) : Len(commands[i]) = 0

(* The inductive invariant of the texts: at every stage there are          *)
(* commands, those typed, whose payload, task and file are the ones the    *)
(* state has.                                                              *)
TextInv ==
    /\ typed.words \in Seq(Seq(Characters))
    /\ typed.schedule \in Schedules /\ typed.options \in SUBSET Options
    /\ stage = "sent" /\ typed.options # {"o"} =>
           \E commands \in Commands : IsSent(commands)
    /\ stage = "refused" =>
           \E commands \in Commands : IsSent(commands) /\ ~Taken(commands)
    /\ stage = "created" =>
           \E commands \in Commands :
               /\ IsSent(commands) /\ Taken(commands)
               /\ task = TaskOf(commands) /\ file = WrittenFile(task)
    /\ stage \in {"loaded", "unreadable"} =>
           \E commands \in Commands :
               /\ IsSent(commands) /\ Taken(commands)
               /\ stage = "loaded" <=> NoArguments(commands)
               /\ stage = "loaded" => task = TaskOf(commands)
    /\ stage \notin {"created", "loaded"} => task = NoTask

(* Commands are what their elements and lengths say.                       *)
LEMMA CommandsAre ==
    ASSUME NEW commands \in Commands
    PROVE  /\ Len(commands) \in Nat /\ DOMAIN commands = 1..Len(commands)
           /\ commands = [i \in 1..Len(commands) |-> commands[i]]
           /\ \A i \in 1..Len(commands) : Len(commands[i]) \in Nat
           /\ \A i \in 1..Len(commands) :
                  Len(commands[i]) = 0 <=> commands[i] = <<>>
<1>1. PICK Y \in {Seq(Seq(Characters))}, X \in {Seq(Characters)} : TRUE
  OBVIOUS
<1>2. commands \in Seq(Y) /\ Y = Seq(X)
  BY <1>1 DEF Commands
<1>3. PICK n \in Nat : n = Len(commands)
  BY <1>2
<1>4. DOMAIN commands = 1..n /\ \A i \in 1..n : commands[i] \in Seq(X)
  BY <1>2, <1>3
<1>5. commands = [i \in 1..n |-> commands[i]]
  BY <1>2, <1>3
<1>6. ASSUME NEW i \in 1..n
      PROVE  Len(commands[i]) \in Nat /\ (Len(commands[i]) = 0 <=> commands[i] = <<>>)
  <2>1. PICK command \in Seq(X) : command = commands[i]
    BY <1>4
  <2>2. Len(command) \in Nat /\ (Len(command) = 0 <=> command = <<>>)
    BY EmptySeq
  <2> QED
    BY <2>1, <2>2
<1> QED
  BY <1>3, <1>4, <1>5, <1>6

(* handle_create_task takes what it can read and what is within the limits.*)
LEMMA CreateTakes ==
    ASSUME NEW commands \in Commands, IsSent(commands), TextInv, Create
    PROVE  IF Taken(commands)
           THEN /\ stage' = "created" /\ task' = TaskOf(commands)
                /\ file' = WrittenFile(TaskOf(commands))
           ELSE stage' = "refused" /\ task' = task
<1>1. PICK read : read = ReadCommands(text, Field(text, "commands") + 1)
  OBVIOUS
<1>2. PICK schedule : schedule = ReadSchedule(text, Type)
  OBVIOUS
<1>3. typed.schedule \in Schedules /\ text = Payload(commands, typed.schedule)
  BY DEF TextInv, IsSent
<1>4. /\ \E next \in Nat : next # 0 /\
             read = IF AllAllClear(commands) THEN Read(commands, next) ELSE Error
      /\ schedule = Found(commands, typed.schedule, Type)
  BY <1>1, <1>2, <1>3, RequestRead, Zenon
<1>5. PICK next \in Nat : next # 0 /\
          read = IF AllAllClear(commands) THEN Read(commands, next) ELSE Error
  BY <1>4
<1>6. Taken(commands) <=> schedule # "invalid" /\ Valid(Type, read)
  <2>1. CASE AllAllClear(commands)
    <3>1. /\ read.value = commands /\ read.next # 0
          /\ Read(commands, 1).value = commands /\ Read(commands, 1).next # 0
      BY <1>5, <2>1 DEF Read
    <3>2. Valid(Type, read) <=> Valid(Type, Read(commands, 1))
      BY <3>1 DEF Valid
    <3> QED
      BY <1>4, <2>1, <3>2 DEF Taken
  <2>2. CASE ~AllAllClear(commands)
    <3>1. read.next = 0
      BY <1>5, <2>2 DEF Error
    <3> QED
      BY <2>2, <3>1 DEF Taken, Valid
  <2> QED
    BY <2>1, <2>2
<1>7. Taken(commands) => read.value = commands
  BY <1>5 DEF Taken, Read
<1>8. \/ /\ schedule = "invalid" \/ ~Valid(Type, read)
         /\ stage' = "refused" /\ UNCHANGED <<task, file>>
      \/ /\ schedule # "invalid" /\ Valid(Type, read)
         /\ stage' = "created"
         /\ task' = [type |-> Type, commands |-> read.value,
                     schedule |-> schedule]
         /\ file' = WrittenFile([type |-> Type, commands |-> read.value,
                                 schedule |-> schedule])
  BY <1>1, <1>2 DEF Create, Type
<1> QED
  BY <1>4, <1>6, <1>7, <1>8 DEF TaskOf

(* The next start loads the tasks of commands without arguments.           *)
LEMMA LoadReads ==
    ASSUME NEW commands \in Commands, Load,
           task = TaskOf(commands), file = WrittenFile(task)
    PROVE  /\ stage' \in {"loaded", "unreadable"}
           /\ stage' = "loaded" <=> NoArguments(commands)
           /\ stage' = "loaded" => task' = TaskOf(commands)
           /\ stage' # "loaded" => task' = NoTask
<1>1. PICK lines : lines = FileLines(file.body)
  OBVIOUS
<1>2. PICK n \in Nat :
          /\ n = Len(commands)
          /\ commands = [i \in 1..n |-> commands[i]]
  BY CommandsAre
<1>3. task.commands = commands
  BY DEF TaskOf
<1>4. /\ file.count = n /\ DOMAIN lines = 1..n /\ Len(lines) = n
      /\ \A i \in 1..n :
             /\ Len(lines[i]) \in Nat
             /\ ReadLine(lines[i]) =
                    IF Len(commands[i]) = 0
                    THEN Read(commands[i], Len(lines[i]) + 1) ELSE Error
  <2>1. PICK new : new = task
    OBVIOUS
  <2>2. LinesOf(commands, new, lines)
    BY <1>1, <1>3, <2>1 DEF LinesOf
  <2>3. LinesReadAs(commands, lines) /\ WrittenFile(new).count = Len(commands)
    BY <2>2, FileRead
  <2> QED
    BY <1>2, <2>1, <2>3 DEF LinesReadAs
<1>5. ASSUME NEW i \in 1..n
      PROVE  /\ ReadLine(lines[i]).next # 0 <=> Len(commands[i]) = 0
             /\ Len(commands[i]) = 0 => ReadLine(lines[i]).value = commands[i]
  <2>1. CASE Len(commands[i]) = 0
    <3>1. PICK m \in Nat : m = Len(lines[i])
      BY <1>4
    <3>2. ReadLine(lines[i]) = Read(commands[i], m + 1)
      BY <1>4, <2>1, <3>1
    <3>3. /\ ReadLine(lines[i]).next = m + 1
          /\ ReadLine(lines[i]).value = commands[i]
      BY <3>2 DEF Read
    <3> QED
      BY <2>1, <3>3
  <2>2. CASE Len(commands[i]) # 0
    <3>1. ReadLine(lines[i]) = Error
      BY <1>4, <2>2
    <3> QED
      BY <2>2, <3>1 DEF Error
  <2> QED
    BY <2>1, <2>2
<1>6. Loadable(file) <=> NoArguments(commands)
  BY <1>1, <1>2, <1>4, <1>5 DEF Loadable, NoArguments
<1>7. ASSUME NoArguments(commands)
      PROVE  [type |-> file.type, schedule |-> file.schedule,
              commands |-> [i \in DOMAIN lines |-> ReadLine(lines[i]).value]]
                 = TaskOf(commands)
  <2>1. [i \in 1..n |-> ReadLine(lines[i]).value] = [i \in 1..n |-> commands[i]]
    BY <1>2, <1>5, <1>7 DEF NoArguments
  <2>2. file.type = Type /\ file.schedule = TaskOf(commands).schedule
    BY DEF WrittenFile, TaskOf
  <2> QED
    BY <1>2, <1>4, <2>1, <2>2 DEF TaskOf
<1> QED
  BY <1>1, <1>6, <1>7 DEF Load

(* What holds of a word, or of a character of a word, of the line holds of *)
(* one of the commands.                                                    *)
LEMMA WordsOfCommands ==
    ASSUME typed.words \in Seq(Seq(Characters)),
           NEW commands, commands = Split(typed.words)
    PROVE  /\ commands \in Commands
           /\ FlattenSeq(commands) = Words
           /\ Len(commands) = Cardinality({i \in DOMAIN typed.words :
                  /\ typed.words[i] # Separator
                  /\ i = 1 \/ typed.words[i - 1] = Separator})
           /\ (\E i \in DOMAIN Words : NamesField(Words[i])) <=> Hidden(commands)
           /\ (\E i \in DOMAIN Words : \E k \in DOMAIN Words[i] :
                   Words[i][k] = Control) <=> ~AllAllClear(commands)
<1>1. PICK words : words = typed.words
  OBVIOUS
<1>2. PICK X \in {Seq(Characters)} : TRUE
  OBVIOUS
<1>3. PICK n \in Nat : n = Len(words) /\ DOMAIN words = 1..n
  <2>1. words \in Seq(X)
    BY <1>1, <1>2
  <2> QED
    BY <2>1
<1>4. /\ Split(words) \in Seq(Seq(X))
      /\ FlattenSeq(Split(words)) = FlattenSeq(WordPieces(words))
      /\ Len(Split(words)) = Cardinality(Starts(words, Len(words)))
  <2>1. words \in Seq(X)
    BY <1>1, <1>2
  <2> QED
    BY <2>1, SplitIs, Zenon
<1>5. commands \in Seq(Seq(X)) /\ commands \in Commands
  BY <1>1, <1>2, <1>4 DEF Commands
<1>6. FlattenSeq(commands) = Words
  BY <1>1, <1>3, <1>4 DEF Words, WordPieces
<1>7. Len(commands) = Cardinality({i \in DOMAIN typed.words :
          /\ typed.words[i] # Separator
          /\ i = 1 \/ typed.words[i - 1] = Separator})
  BY <1>1, <1>3, <1>4 DEF Starts
<1>8. PICK W : W = Words
  OBVIOUS
<1>9. W \in Seq(X) /\ SameElements(W, commands)
  <2>1. W = FlattenSeq(commands)
    BY <1>6, <1>8
  <2> QED
    BY <1>5, <2>1, FlattenElements, Zenon
<1>10. DOMAIN W = 1..Len(W) /\ \A x \in 1..Len(W) : W[x] \in Seq(Characters)
  BY <1>2, <1>9
<1>11. \A x \in 1..Len(W) : /\ DOMAIN W[x] = 1..Len(W[x])
                            /\ \A k \in 1..Len(W[x]) : W[x][k] \in Characters
  <2>1. ASSUME NEW x \in 1..Len(W)
        PROVE  /\ DOMAIN W[x] = 1..Len(W[x])
               /\ \A k \in 1..Len(W[x]) : W[x][k] \in Characters
    <3>1. PICK word \in Seq(Characters) : word = W[x]
      BY <1>10
    <3>2. DOMAIN word = 1..Len(word)
          /\ \A k \in 1..Len(word) : word[k] \in Characters
      OBVIOUS
    <3> QED
      BY <3>1, <3>2
  <2> QED
    BY <2>1
<1>12. (\E i \in DOMAIN W : NamesField(W[i])) <=> Hidden(commands)
  <2>1. ASSUME NEW i \in DOMAIN W, NamesField(W[i])
        PROVE  Hidden(commands)
    <3>1. i \in 1..Len(W)
      BY <1>10
    <3>2. PICK c \in 1..Len(commands) :
              \E k \in 1..Len(commands[c]) : W[i] = commands[c][k]
      BY <1>9, <3>1, Zenon DEF SameElements
    <3>3. PICK k \in 1..Len(commands[c]) : W[i] = commands[c][k]
      BY <3>2, Zenon
    <3>4. NamesField(commands[c][k])
      BY <2>1, <3>3
    <3> QED
      BY <3>4, Zenon DEF Hidden
  <2>2. ASSUME NEW c \in 1..Len(commands), NEW k \in 1..Len(commands[c]),
               NamesField(commands[c][k])
        PROVE  \E i \in DOMAIN W : NamesField(W[i])
    <3>1. PICK i \in 1..Len(W) : W[i] = commands[c][k]
      BY <1>9, Zenon DEF SameElements
    <3> QED
      BY <1>10, <2>2, <3>1
  <2> QED
    BY <2>1, <2>2, Zenon DEF Hidden
<1>13. \A c \in Characters :
           Understood(c, JsonEscapes, JsonLetters) <=> c # Control
  BY Codings DEF Alphabet
<1>14. \A x \in 1..Len(W) :
           Clear(W[x], JsonEscapes, JsonLetters) <=>
               ~\E k \in DOMAIN W[x] : W[x][k] = Control
  BY <1>11, <1>13, Zenon DEF Clear
<1>15. AllAllClear(commands) <=>
           \A x \in 1..Len(W) : Clear(W[x], JsonEscapes, JsonLetters)
  <2>1. ASSUME AllAllClear(commands), NEW x \in 1..Len(W)
        PROVE  Clear(W[x], JsonEscapes, JsonLetters)
    <3>1. PICK c \in 1..Len(commands) :
              \E k \in 1..Len(commands[c]) : W[x] = commands[c][k]
      BY <1>9, Zenon DEF SameElements
    <3>2. PICK k \in 1..Len(commands[c]) : W[x] = commands[c][k]
      BY <3>1, Zenon
    <3>3. Clear(commands[c][k], JsonEscapes, JsonLetters)
      BY <2>1, Zenon DEF AllAllClear, AllClear
    <3> QED
      BY <3>2, <3>3
  <2>2. ASSUME \A x \in 1..Len(W) : Clear(W[x], JsonEscapes, JsonLetters),
               NEW c \in 1..Len(commands), NEW k \in 1..Len(commands[c])
        PROVE  Clear(commands[c][k], JsonEscapes, JsonLetters)
    <3>1. PICK x \in 1..Len(W) : W[x] = commands[c][k]
      BY <1>9, Zenon DEF SameElements
    <3>2. Clear(W[x], JsonEscapes, JsonLetters)
      BY <2>2
    <3> QED
      BY <3>1, <3>2
  <2> QED
    BY <2>1, <2>2, Zenon DEF AllAllClear, AllClear
<1>16. (\E i \in DOMAIN W : \E k \in DOMAIN W[i] : W[i][k] = Control)
           <=> ~AllAllClear(commands)
  BY <1>10, <1>14, <1>15, Zenon
<1> QED
  BY <1>5, <1>6, <1>7, <1>8, <1>12, <1>16

(* Only one option is given.                                               *)
LEMMA TypeOfOption ==
    ASSUME typed.options \in SUBSET Options, Cardinality(typed.options) = 1,
           typed.options # {"o"}
    PROVE  /\ typed.options = {"c"} \/ typed.options = {"s"}
              \/ typed.options = {"n"}
           /\ typed.options = {"c"} => Type = "SIMPLE"
           /\ typed.options = {"s"} => Type = "SEQUENCE"
           /\ typed.options = {"n"} => Type = "ABSTRACT"
<1>1. DOMAIN Kind = {"c", "s", "n"} /\ Kind["c"] = "SIMPLE"
      /\ Kind["s"] = "SEQUENCE" /\ Kind["n"] = "ABSTRACT"
  BY DEF Kind
<1>2. Options = {"c", "s", "n", "o"}
  BY <1>1 DEF Options
<1>3. PICK o : typed.options = {o}
  <2>1. IsFiniteSet(Options)
    <3>1. IsFiniteSet({"c"})
      BY FS_Singleton
    <3>2. IsFiniteSet({"c"} \cup {"s"})
      BY <3>1, FS_AddElement
    <3>3. IsFiniteSet({"c"} \cup {"s"} \cup {"n"})
      BY <3>2, FS_AddElement
    <3>4. IsFiniteSet({"c"} \cup {"s"} \cup {"n"} \cup {"o"})
      BY <3>3, FS_AddElement
    <3>5. Options = {"c"} \cup {"s"} \cup {"n"} \cup {"o"}
      BY <1>2
    <3> QED
      BY <3>4, <3>5
  <2>2. IsFiniteSet(typed.options)
    BY <2>1, FS_Subset
  <2> QED
    BY <2>2, FS_Singleton
<1>4. (CHOOSE x \in {o} : TRUE) = o /\ o \in Options
  BY <1>3
<1>5. Type = Kind[o]
  BY <1>3, <1>4 DEF Type
<1> QED
  BY <1>1, <1>2, <1>3, <1>4, <1>5

-----------------------------------------------------------------------------
(* It holds of what is typed.                                              *)
LEMMA TextInit == Init => TextInv
<1> SUFFICES ASSUME Init PROVE TextInv
  OBVIOUS
<1>1. /\ typed.options \in SUBSET Options /\ typed.schedule \in Schedules
      /\ typed.words \in Lines
  BY DEF Init
<1>2. typed.words \in Seq(Seq(Characters))
  BY <1>1, TadmorAssumption
<1>3. stage = "typed" /\ task = NoTask
  BY DEF Init
<1> QED
  BY <1>1, <1>2, <1>3 DEF TextInv

(* Every step keeps it: sending writes the payload, the daemon reads it or *)
(* refuses, saves what it has read, and a restart reads the file.          *)
LEMMA TextNext ==
    ASSUME TextInv, [Next]_vars
    PROVE  TextInv'
<1>1. typed' = typed
  BY DEF Next, Send, SendRaw, Create, Load, Answer, HandleReply, vars
<1>2. /\ (typed.words \in Seq(Seq(Characters)))'
      /\ (typed.schedule \in Schedules)' /\ (typed.options \in SUBSET Options)'
  BY <1>1 DEF TextInv
<1>3. CASE Send
  <2>1. task' = task /\ stage = "typed" /\ stage' \in {"rejected", "sent"}
    BY <1>3 DEF Send
  <2>2. task = NoTask
    BY <2>1 DEF TextInv
  <2>3. ASSUME stage' = "sent", typed.options # {"o"}
        PROVE  \E commands \in Commands : IsSent(commands)'
    <3>1. PICK commands : commands = Split(typed.words)
      OBVIOUS
    <3>2. commands \in Commands
      BY <3>1, WordsOfCommands DEF TextInv
    <3>3. /\ Accepted(typed.options, typed.schedule, typed.words)
          /\ text' = Payload(commands, typed.schedule)
      BY <1>3, <2>3, <3>1 DEF Send
    <3>4. Cardinality(typed.options) = 1
      BY <3>3 DEF Accepted
    <3> QED
      BY <1>1, <2>3, <3>1, <3>2, <3>3, <3>4 DEF IsSent
  <2> QED
    BY <1>1, <1>2, <2>1, <2>2, <2>3 DEF TextInv
<1>4. CASE SendRaw
  <2>1. /\ task' = task /\ stage = "typed" /\ stage' = "sent"
        /\ typed.words = <<>> /\ Cardinality(typed.options) = 1
        /\ typed.options # {"o"}
    BY <1>4 DEF SendRaw
  <2>2. task = NoTask
    BY <2>1 DEF TextInv
  <2>3. PICK commands \in RawCommands :
            text' = Payload(commands, typed.schedule)
    BY <1>4 DEF SendRaw
  <2>4. commands \in Commands
    BY TadmorAssumption DEF Commands
  <2>5. IsSent(commands)'
    BY <1>1, <2>1, <2>3 DEF IsSent
  <2> QED
    BY <1>2, <2>1, <2>2, <2>4, <2>5 DEF TextInv
<1>5. CASE Create
  <2>1. /\ stage = "sent" /\ typed.options # {"o"} /\ text' = text
    BY <1>5 DEF Create
  <2>2. PICK commands \in Commands : IsSent(commands)
    BY <2>1 DEF TextInv
  <2>3. task = NoTask
    BY <2>1 DEF TextInv
  <2>4. IF Taken(commands)
        THEN /\ stage' = "created" /\ task' = TaskOf(commands)
             /\ file' = WrittenFile(TaskOf(commands))
        ELSE stage' = "refused" /\ task' = task
    BY <1>5, <2>2, CreateTakes
  <2>5. /\ IsSent(commands)' /\ Taken(commands)' = Taken(commands)
        /\ TaskOf(commands)' = TaskOf(commands)
    BY <1>1, <2>1, <2>2 DEF IsSent, Taken, TaskOf, Type
  <2>6. CASE Taken(commands)
    <3>1. /\ stage' = "created" /\ IsSent(commands)' /\ Taken(commands)'
          /\ task' = TaskOf(commands)' /\ file' = WrittenFile(task')
      BY <2>4, <2>5, <2>6
    <3> QED
      BY <1>2, <3>1 DEF TextInv
  <2>7. CASE ~Taken(commands)
    <3>1. /\ stage' = "refused" /\ IsSent(commands)' /\ ~Taken(commands)'
          /\ task' = NoTask
      BY <2>3, <2>4, <2>5, <2>7
    <3> QED
      BY <1>2, <3>1 DEF TextInv
  <2> QED
    BY <2>6, <2>7
<1>6. CASE Load
  <2>1. stage = "created" /\ text' = text
    BY <1>6 DEF Load
  <2>2. PICK commands \in Commands :
            /\ IsSent(commands) /\ Taken(commands)
            /\ task = TaskOf(commands) /\ file = WrittenFile(task)
    BY <2>1 DEF TextInv
  <2>3. /\ stage' \in {"loaded", "unreadable"}
        /\ stage' = "loaded" <=> NoArguments(commands)
        /\ stage' = "loaded" => task' = TaskOf(commands)
        /\ stage' # "loaded" => task' = NoTask
    BY <1>6, <2>2, LoadReads
  <2>4. /\ IsSent(commands)' /\ Taken(commands)'
        /\ TaskOf(commands)' = TaskOf(commands)
    BY <1>1, <2>1, <2>2 DEF IsSent, Taken, TaskOf, Type
  <2> QED
    BY <1>2, <2>3, <2>4 DEF TextInv
<1>7. CASE Answer \/ HandleReply
  <2>1. /\ task' = task /\ stage \in {"sent", "answered"}
        /\ stage' \in {"too_long", "answered", "failed", "printed"}
    BY <1>7 DEF Answer, HandleReply
  <2> QED
    BY <1>2, <2>1 DEF TextInv
<1>8. CASE UNCHANGED vars
  BY <1>8 DEF TextInv, vars, IsSent, Taken, TaskOf, Type
<1> QED
  BY <1>3, <1>4, <1>5, <1>6, <1>7, <1>8 DEF Next

(* So it holds in every state that is reached.                             *)
LEMMA TextsKept == Spec => []TextInv
<1>1. TextInv /\ [Next]_vars => TextInv'
  BY TextNext
<1> QED
  BY <1>1, TextInit, PTL DEF Spec

(* What is taken is found, and within the limits.                          *)
LEMMA TakenMeans ==
    ASSUME NEW commands, Taken(commands)
    PROVE  /\ AllAllClear(commands) /\ TaskOf(commands).commands = commands
           /\ TaskOf(commands).schedule = Found(commands, typed.schedule, Type)
           /\ TaskOf(commands).type = Type
           /\ Found(commands, typed.schedule, Type) # "invalid"
           /\ Len(commands) <= MaxCommands
           /\ \A i \in DOMAIN commands : Len(commands[i]) <= MaxArgs
<1>1. Read(commands, 1).value = commands
  BY DEF Read
<1> QED
  BY <1>1 DEF Taken, Valid, TaskOf

(* A created task has the commands that were typed, word for word,         *)
(* whatever the words contain: erraid's parser reads the payload tadmor    *)
(* writes as it was meant. The schedule is the one typed, too, unless the  *)
(* task is abstract and a word with the name of the field hides it.        *)
THEOREM TasksAreAsTyped == Spec => []CreatedAsTyped
<1>1. TextInv => CreatedAsTyped
  <2> SUFFICES ASSUME TextInv, stage = "created", FromWords
               PROVE  /\ FlattenSeq(task.commands) = Words
                      /\ Len(task.commands) =
                             Cardinality({i \in DOMAIN typed.words :
                                 /\ typed.words[i] # Separator
                                 /\ i = 1 \/ typed.words[i - 1] = Separator})
                      /\ task.schedule # typed.schedule =>
                             /\ task.type = "ABSTRACT" /\ task.schedule = "null"
                             /\ \E i \in DOMAIN Words : NamesField(Words[i])
    BY DEF CreatedAsTyped
  <2>1. PICK commands \in Commands :
            /\ IsSent(commands) /\ Taken(commands) /\ task = TaskOf(commands)
    BY DEF TextInv
  <2>2. commands = Split(typed.words) /\ typed.words \in Seq(Seq(Characters))
    BY <2>1 DEF IsSent, FromWords, TextInv
  <2>3. /\ task.commands = commands /\ task.type = Type
        /\ task.schedule = Found(commands, typed.schedule, Type)
        /\ task.schedule # "invalid"
    BY <2>1, TakenMeans
  <2>4. ASSUME task.schedule # typed.schedule
        PROVE  /\ task.type = "ABSTRACT" /\ task.schedule = "null"
               /\ Hidden(commands)
    BY <2>3, <2>4 DEF Found
  <2> QED
    BY <2>2, <2>3, <2>4, WordsOfCommands
<1> QED
  BY <1>1, TextsKept, PTL

(* Erraid refuses what tadmor sends for one of three causes and whenever   *)
(* there is one: a character without a short escape, too many commands, or *)
(* a word that hides the schedule a task needs.                            *)
THEOREM RefusalsHaveCause == Spec => []RefusedForCause
<1>1. TextInv => RefusedForCause
  <2> SUFFICES ASSUME TextInv PROVE RefusedForCause
    OBVIOUS
  <2>1. /\ Len(task.commands) <= MaxCommands
        /\ \A i \in DOMAIN task.commands : Len(task.commands[i]) <= MaxArgs
    <3>1. CASE task = NoTask
      <4>1. task.commands = <<>> /\ 0 <= MaxCommands
        BY <3>1, TadmorAssumption DEF NoTask
      <4> QED
        BY <4>1
    <3>2. CASE task # NoTask
      <4>1. PICK commands \in Commands :
                Taken(commands) /\ task = TaskOf(commands)
        BY <3>2 DEF TextInv
      <4> QED
        BY <4>1, TakenMeans
    <3> QED
      BY <3>1, <3>2
  <2> DEFINE unreadable == \E i \in DOMAIN Words :
                               \E k \in DOMAIN Words[i] : Words[i][k] = Control
             many == Len(Split(typed.words)) > MaxCommands
             hidden == /\ typed.options # {"n"}
                       /\ \E i \in DOMAIN Words : NamesField(Words[i])
  <2>2. ASSUME FromWords, stage \in {"refused", "created"}
        PROVE  stage = "refused" <=> unreadable \/ many \/ hidden
    <3>1. PICK commands \in Commands :
              /\ IsSent(commands)
              /\ stage = "created" <=> Taken(commands)
      BY <2>2 DEF TextInv
    <3>2. /\ commands = Split(typed.words)
          /\ Accepted(typed.options, typed.schedule, typed.words)
          /\ typed.words \in Seq(Seq(Characters))
          /\ typed.options \in SUBSET Options
          /\ Cardinality(typed.options) = 1 /\ typed.options # {"o"}
      BY <2>2, <3>1 DEF IsSent, FromWords, TextInv
    <3>3. /\ typed.options = {"c"} \/ typed.options = {"s"}
             \/ typed.options = {"n"}
          /\ typed.options = {"c"} => Type = "SIMPLE"
          /\ typed.options = {"s"} => Type = "SEQUENCE"
          /\ typed.options = {"n"} => Type = "ABSTRACT"
      BY <3>2, TypeOfOption
    <3>4. {"c"} # {"s"} /\ {"c"} # {"n"} /\ {"s"} # {"n"}
          /\ {"c"} \in {{"c"}, {"s"}} /\ {"s"} \in {{"c"}, {"s"}}
      OBVIOUS
    <3>5. /\ commands # <<>>
          /\ \A i \in DOMAIN commands : Len(commands[i]) <= MaxArgs
          /\ typed.options = {"c"} => Len(commands) = 1
          /\ typed.options # {"n"} => typed.schedule # "null"
      BY <3>2, <3>3, <3>4, TadmorAssumption DEF Accepted
    <3>6. unreadable <=> ~AllAllClear(commands)
      BY <3>2, WordsOfCommands
    <3>7. hidden <=> typed.options # {"n"} /\ Hidden(commands)
      BY <3>2, WordsOfCommands
    <3>8. typed.schedule \in Schedules /\ "invalid" \notin Schedules
      BY DEF TextInv, Schedules
    <3>9. Found(commands, typed.schedule, Type) = "invalid" <=> hidden
      BY <3>3, <3>4, <3>5, <3>7, <3>8 DEF Found
    <3>10. Valid(Type, Read(commands, 1)) <=> ~many
      <4>1. /\ Read(commands, 1).value = commands
            /\ Read(commands, 1).next = 1
        BY DEF Read
      <4>2. Len(commands) \in Nat /\ MaxCommands \in Nat
        BY CommandsAre, TadmorAssumption
      <4>3. many <=> ~(Len(commands) <= MaxCommands)
        BY <3>2, <4>2
      <4> QED
        BY <3>3, <3>4, <3>5, <4>1, <4>3 DEF Valid
    <3>11. Taken(commands) <=> ~(unreadable \/ many \/ hidden)
      BY <3>6, <3>9, <3>10 DEF Taken
    <3> QED
      BY <2>2, <3>1, <3>11
  <2>3. /\ FromWords /\ stage = "refused" => unreadable \/ many \/ hidden
        /\ FromWords /\ stage = "created" => ~(unreadable \/ many \/ hidden)
    <3> HIDE DEF unreadable, many, hidden
    <3> QED
      BY <2>2
  <2> QED
    BY <2>1, <2>3 DEF RefusedForCause
<1> QED
  BY <1>1, TextsKept, PTL

(* The file of a created task has one line for each command, from which    *)
(* the parser of requests reads the words back as they were saved.         *)
THEOREM FilesAreRight == Spec => []FileIsRight
<1>1. TextInv => FileIsRight
  <2> SUFFICES ASSUME TextInv, stage = "created", NEW lines,
                      lines = FileLines(file.body)
               PROVE  /\ Len(lines) = Len(task.commands)
                      /\ \A i \in DOMAIN lines :
                             ReadCommand(lines[i], JsonLetters, TRUE, 2) =
                                 Read(task.commands[i], Len(lines[i]) + 1)
    BY DEF FileIsRight
  <2>1. PICK commands \in Commands :
            /\ Taken(commands) /\ task = TaskOf(commands)
            /\ file = WrittenFile(task)
    BY DEF TextInv
  <2>2. task.commands = commands
    BY <2>1, TakenMeans
  <2>3. LinesOf(commands, task, lines)
    BY <2>1, <2>2 DEF LinesOf
  <2>4. LinesReadAs(commands, lines)
    BY <2>3, FileRead
  <2> QED
    BY <2>2, <2>4 DEF LinesReadAs
<1> QED
  BY <1>1, TextsKept, PTL

(* A restarted erraid reads the task file of commands without arguments    *)
(* back as it was written, and no other: its reader of lines fails on the  *)
(* first argument.                                                         *)
THEOREM FilesReadBackUnlessArgs == Spec => []ReadBackUnlessArgs
<1>1. TextInv => ReadBackUnlessArgs
  <2> SUFFICES ASSUME TextInv, stage \in {"loaded", "unreadable"}, NEW read,
                      read = ReadCommands(text, Field(text, "commands") + 1)
               PROVE  IF \A i \in DOMAIN read.value : read.value[i] = <<>>
                      THEN stage = "loaded" /\ task.commands = read.value
                      ELSE stage = "unreadable"
    BY DEF ReadBackUnlessArgs
  <2>1. PICK commands \in Commands :
            /\ IsSent(commands) /\ Taken(commands)
            /\ stage = "loaded" <=> NoArguments(commands)
            /\ stage = "loaded" => task = TaskOf(commands)
    BY DEF TextInv
  <2>2. typed.schedule \in Schedules /\ text = Payload(commands, typed.schedule)
    BY <2>1 DEF TextInv, IsSent
  <2>3. \E next \in Nat : next # 0 /\
            read = IF AllAllClear(commands) THEN Read(commands, next) ELSE Error
    BY <2>2, RequestRead, Zenon
  <2>4. read.value = commands
    BY <2>1, <2>3, TakenMeans DEF Read
  <2>5. stage = "loaded" => task.commands = commands
    BY <2>1, TakenMeans
  <2>6. NoArguments(commands) <=> \A i \in DOMAIN commands : commands[i] = <<>>
    <3>1. /\ DOMAIN commands = 1..Len(commands)
          /\ \A i \in 1..Len(commands) :
                 Len(commands[i]) = 0 <=> commands[i] = <<>>
      BY CommandsAre
    <3> QED
      BY <3>1, Zenon DEF NoArguments
  <2> QED
    BY <2>1, <2>4, <2>5, <2>6
<1> QED
  BY <1>1, TextsKept, PTL
=============================================================================
