---------------------------- MODULE FramingProofs -----------------------------
(***************************************************************************)
(* Proofs about Framing, for any stream ids, offsets, payloads, extensions *)
(* and damages.                                                            *)
(*                                                                         *)
(* Three facts about the wire format carry the theorems: a well-formed     *)
(* frame decodes from any datagram that begins with its encoding           *)
(* (FrameRoundTrip); what decodes is well formed and takes no more octets  *)
(* than the datagram has (FrameDecoded); and it decodes to the same frame  *)
(* when octets are added (SameFrame).                                      *)
(***************************************************************************)
EXTENDS Framing, SequenceTheorems, WellFoundedInduction, TLAPS

-----------------------------------------------------------------------------
(* Numbers and octets. *)

\* An octet is a number below 256.
LEMMA OctetBounds ==
    ASSUME NEW n
    PROVE  n \in Octets <=> n \in Nat /\ n < 256
BY DEF Octets

\* The two low octets of a number.
LEMMA LowOctets ==
    ASSUME NEW n \in Nat
    PROVE  /\ (n \div 256) % 256 \in Nat /\ (n \div 256) % 256 < 256
           /\ n % 256 \in Nat /\ n % 256 < 256
           /\ ((n \div 256) % 256) * 256 + (n % 256) = n % 65536
OBVIOUS

\* The third octet.
LEMMA HighOctet ==
    ASSUME NEW n \in Nat, n \div 65536 < 256
    PROVE  /\ (n \div 65536) % 256 \in Nat /\ (n \div 65536) % 256 < 256
           /\ ((n \div 65536) % 256) * 65536 + (n % 65536) = n
OBVIOUS

\* The two halves of a number of 32 bits.
LEMMA Halves ==
    ASSUME NEW n \in Nat, n \div 65536 < 65536
    PROVE  /\ n \div 65536 \in Nat
           /\ (n \div 65536) % 65536 = n \div 65536
           /\ (n \div 65536) * 65536 + (n % 65536) = n
OBVIOUS

\* The first octet of a header: the version and the high bits of the type.
LEMMA FirstOctet ==
    ASSUME NEW v \in Nat, v < 16, NEW ty \in Nat, ty < 64
    PROVE  LET b1 == (v % 16) * 16 + (ty \div 4)
           IN  b1 \in Nat /\ b1 < 256 /\ b1 \div 16 = v /\ b1 % 16 = ty \div 4
OBVIOUS

\* The second: the low bits of the type, two flags, the high bits of the id.
LEMMA SecondOctet ==
    ASSUME NEW ty \in Nat, NEW l \in {0, 32}, NEW x \in {0, 16}, NEW hi \in Nat, hi < 4
    PROVE  LET b2 == (ty % 4) * 64 + l + x + hi
           IN  /\ b2 \in Nat /\ b2 < 256
               /\ b2 \div 64 = ty % 4
               /\ (b2 \div 32) % 2 = 1 <=> l = 32
               /\ (b2 \div 16) % 2 = 1 <=> x = 16
               /\ b2 % 4 = hi
<1> DEFINE q == ty % 4
<1>1. q \in Nat /\ q < 4
    OBVIOUS
<1> HIDE DEF q
<1>2. CASE l = 0 /\ x = 0
    BY <1>1, <1>2 DEF q
<1>3. CASE l = 0 /\ x = 16
    BY <1>1, <1>3 DEF q
<1>4. CASE l = 32 /\ x = 0
    BY <1>1, <1>4 DEF q
<1>5. CASE l = 32 /\ x = 16
    BY <1>1, <1>5 DEF q
<1>6. QED
    BY <1>2, <1>3, <1>4, <1>5

\* The two parts of a frame type give the type.
LEMMA TypeOctets ==
    ASSUME NEW ty \in Nat
    PROVE  (ty \div 4) * 4 + (ty % 4) = ty
OBVIOUS

\* The two parts of a stream id give the id.
LEMMA IdOctets ==
    ASSUME NEW n \in Nat, n < 262144
    PROVE  /\ (n \div 65536) % 4 \in Nat /\ (n \div 65536) % 4 < 4
           /\ ((n \div 65536) % 4) * 65536 + (n % 65536) = n
OBVIOUS

-----------------------------------------------------------------------------
(* Octets in a datagram. *)

\* The octets of s stand in b from octet i on.
Holds(b, i, s) ==
    /\ i + Len(s) <= Len(b) + 1
    /\ \A k \in 1 .. Len(s) : b[i + k - 1] = s[k]

\* Octets joined to octets.
LEMMA JoinedSeqs ==
    ASSUME NEW s \in Seq(Octets), NEW t \in Seq(Octets)
    PROVE  s \o t \in Seq(Octets) /\ Len(s \o t) = Len(s) + Len(t)
BY ConcatProperties

\* Joining is associative.
LEMMA JoinAssociates ==
    ASSUME NEW s \in Seq(Octets), NEW t \in Seq(Octets), NEW u \in Seq(Octets)
    PROVE  (s \o t) \o u = s \o (t \o u)
BY ConcatAssociative

\* Two parts stand one after the other exactly when they stand as one.
LEMMA HoldsJoined ==
    ASSUME NEW b \in Seq(Octets), NEW s \in Seq(Octets), NEW t \in Seq(Octets),
           NEW i \in Nat, i > 0
    PROVE  Holds(b, i, s \o t) <=> Holds(b, i, s) /\ Holds(b, i + Len(s), t)
<1> DEFINE m == Len(s)
           n == Len(t)
           u == s \o t
<1>1. /\ m \in Nat /\ n \in Nat /\ Len(b) \in Nat /\ Len(u) = m + n
      /\ \A k \in 1 .. m + n : u[k] = IF k <= m THEN s[k] ELSE t[k - m]
    BY LenProperties, ConcatProperties
<1>2. Holds(b, i, u) <=> i + (m + n) <= Len(b) + 1 /\ \A k \in 1 .. m + n : b[i + k - 1] = u[k]
    BY <1>1 DEF Holds
<1>3. Holds(b, i, s) <=> i + m <= Len(b) + 1 /\ \A k \in 1 .. m : b[i + k - 1] = s[k]
    BY DEF Holds
<1>4. Holds(b, i + m, t) <=> (i + m) + n <= Len(b) + 1 /\ \A k \in 1 .. n : b[(i + m) + k - 1] = t[k]
    BY DEF Holds
<1> HIDE DEF m, n, u
<1>5. ASSUME Holds(b, i, u)
      PROVE  Holds(b, i, s) /\ Holds(b, i + m, t)
    <2>1. i + (m + n) <= Len(b) + 1 /\ \A k \in 1 .. m + n : b[i + k - 1] = u[k]
        BY <1>2, <1>5
    <2>2. ASSUME NEW k \in 1 .. m
          PROVE  b[i + k - 1] = s[k]
        <3>1. k \in 1 .. m + n /\ k <= m
            BY <1>1
        <3>2. QED
            BY <1>1, <2>1, <3>1
    <2>3. ASSUME NEW k \in 1 .. n
          PROVE  b[(i + m) + k - 1] = t[k]
        <3>1. m + k \in 1 .. m + n /\ ~(m + k <= m) /\ (m + k) - m = k
            BY <1>1
        <3>2. i + (m + k) - 1 = (i + m) + k - 1
            BY <1>1
        <3>3. QED
            BY <1>1, <2>1, <3>1, <3>2
    <2>4. i + m <= Len(b) + 1 /\ (i + m) + n <= Len(b) + 1
        BY <1>1, <2>1
    <2>5. QED
        BY <1>3, <1>4, <2>2, <2>3, <2>4
<1>6. ASSUME Holds(b, i, s), Holds(b, i + m, t)
      PROVE  Holds(b, i, u)
    <2>1. \A k \in 1 .. m : b[i + k - 1] = s[k]
        BY <1>3, <1>6
    <2>2. (i + m) + n <= Len(b) + 1 /\ \A k \in 1 .. n : b[(i + m) + k - 1] = t[k]
        BY <1>4, <1>6
    <2>3. ASSUME NEW k \in 1 .. m + n
          PROVE  b[i + k - 1] = u[k]
        <3>1. CASE k <= m
            <4>1. k \in 1 .. m /\ u[k] = s[k]
                BY <1>1, <3>1
            <4>2. QED
                BY <2>1, <4>1
        <3>2. CASE ~(k <= m)
            <4>1. k - m \in 1 .. n /\ (i + m) + (k - m) - 1 = i + k - 1
                BY <1>1, <3>2
            <4>2. QED
                BY <1>1, <2>2, <3>2, <4>1
        <3>3. QED
            BY <3>1, <3>2
    <2>4. i + (m + n) <= Len(b) + 1
        BY <1>1, <2>2
    <2>5. QED
        BY <1>2, <2>3, <2>4
<1>7. QED
    BY <1>5, <1>6 DEF m, u

\* The same, from the whole to its parts.
LEMMA HoldsParts ==
    ASSUME NEW b \in Seq(Octets), NEW s \in Seq(Octets), NEW t \in Seq(Octets),
           NEW i \in Nat, i > 0, Holds(b, i, s \o t)
    PROVE  Holds(b, i, s) /\ Holds(b, i + Len(s), t)
BY HoldsJoined

\* A part of a datagram.
LEMMA PartFacts ==
    ASSUME NEW b \in Seq(Octets), NEW i \in Nat, i > 0, NEW n \in Nat, i + n <= Len(b) + 1
    PROVE  /\ SubSeq(b, i, i + n - 1) \in Seq(Octets)
           /\ Len(SubSeq(b, i, i + n - 1)) = n
           /\ \A k \in 1 .. n : SubSeq(b, i, i + n - 1)[k] = b[i + k - 1]
<1> DEFINE j == i + n - 1
<1>1. Len(b) \in Nat /\ \A k \in 1 .. Len(b) : b[k] \in Octets
    BY LenProperties, ElementOfSeq
<1>2. j \in Int /\ i \in 1 .. j + 1 /\ i \in Int /\ j <= Len(b) /\ j - i + 1 = n
    BY <1>1
<1>3. \A k \in i .. j : b[k] \in Octets
    BY <1>1, <1>2
<1> HIDE DEF j
<1>4. /\ SubSeq(b, i, j) \in Seq(Octets)
      /\ Len(SubSeq(b, i, j)) = IF i <= j THEN j - i + 1 ELSE 0
      /\ \A k \in 1 .. j - i + 1 : SubSeq(b, i, j)[k] = b[i + k - 1]
    BY <1>2, <1>3, SubSeqProperties
<1>5. QED
    BY <1>2, <1>4 DEF j

\* The octets that stand in a datagram are a part of it.
LEMMA HoldsPart ==
    ASSUME NEW b \in Seq(Octets), NEW i \in Nat, i > 0, NEW s \in Seq(Octets), Holds(b, i, s)
    PROVE  SubSeq(b, i, i + Len(s) - 1) = s
<1>1. Len(s) \in Nat /\ i + Len(s) <= Len(b) + 1 /\ \A k \in 1 .. Len(s) : b[i + k - 1] = s[k]
    BY LenProperties DEF Holds
<1> DEFINE p == SubSeq(b, i, i + Len(s) - 1)
<1>2. p \in Seq(Octets) /\ Len(p) = Len(s) /\ \A k \in 1 .. Len(s) : p[k] = b[i + k - 1]
    BY <1>1, PartFacts
<1> HIDE DEF p
<1>3. \A k \in 1 .. Len(s) : p[k] = s[k]
    BY <1>1, <1>2
<1>4. p = s
    BY <1>2, <1>3, SeqEqual
<1>5. QED
    BY <1>4 DEF p

\* A part of a datagram stands in it.
LEMMA PartHolds ==
    ASSUME NEW b \in Seq(Octets), NEW i \in Nat, i > 0, NEW n \in Nat, i + n <= Len(b) + 1
    PROVE  Holds(b, i, SubSeq(b, i, i + n - 1))
BY PartFacts DEF Holds

\* What stands in a datagram still does when octets are added to it.
LEMMA HoldsLonger ==
    ASSUME NEW b \in Seq(Octets), NEW t \in Seq(Octets), NEW s \in Seq(Octets),
           NEW i \in Nat, i > 0, Holds(b, i, s)
    PROVE  Holds(b \o t, i, s)
<1>1. /\ Len(s) \in Nat /\ Len(b) \in Nat /\ Len(t) \in Nat /\ Len(b \o t) = Len(b) + Len(t)
      /\ \A k \in 1 .. Len(b) + Len(t) : (b \o t)[k] = IF k <= Len(b) THEN b[k] ELSE t[k - Len(b)]
    BY LenProperties, ConcatProperties
<1>2. i + Len(s) <= Len(b) + 1 /\ \A k \in 1 .. Len(s) : b[i + k - 1] = s[k]
    BY DEF Holds
<1>3. ASSUME NEW k \in 1 .. Len(s)
      PROVE  (b \o t)[i + k - 1] = s[k]
    <2>1. i + k - 1 \in 1 .. Len(b) + Len(t) /\ i + k - 1 <= Len(b)
        BY <1>1, <1>2
    <2>2. QED
        BY <1>1, <1>2, <2>1
<1>4. QED
    BY <1>1, <1>2, <1>3 DEF Holds

-----------------------------------------------------------------------------
(* Words. *)

\* Two octets, read one by one.
LEMMA PairHeld ==
    ASSUME NEW b \in Seq(Octets), NEW i \in Nat, i > 0, NEW x \in Octets, NEW y \in Octets,
           Holds(b, i, <<x, y>>)
    PROVE  b[i] = x /\ b[i + 1] = y
<1>1. \A k \in 1 .. 2 : b[i + k - 1] = <<x, y>>[k]
    BY DEF Holds
<1>2. 1 \in 1 .. 2 /\ 2 \in 1 .. 2 /\ i + 1 - 1 = i /\ i + 2 - 1 = i + 1
    OBVIOUS
<1>3. b[i + 1 - 1] = <<x, y>>[1] /\ b[i + 2 - 1] = <<x, y>>[2]
    BY <1>1, <1>2
<1>4. QED
    BY <1>2, <1>3

\* Sixteen bits take two octets, and are read back.
LEMMA Octets16Facts ==
    ASSUME NEW n \in Nat
    PROVE  Octets16(n) \in Seq(Octets) /\ Len(Octets16(n)) = 2
<1>1. (n \div 256) % 256 \in Octets /\ n % 256 \in Octets
    BY LowOctets, OctetBounds
<1>2. QED
    BY <1>1 DEF Octets16

\* Reading the two octets gives the low sixteen bits.
LEMMA Word16Held ==
    ASSUME NEW b \in Seq(Octets), NEW i \in Nat, i > 0, NEW n \in Nat, Holds(b, i, Octets16(n))
    PROVE  Word16(b, i) = n % 65536
<1> DEFINE x == (n \div 256) % 256
           y == n % 256
<1>1. x \in Octets /\ y \in Octets /\ x * 256 + y = n % 65536
    BY LowOctets, OctetBounds
<1>2. Holds(b, i, <<x, y>>)
    BY DEF Octets16
<1> HIDE DEF x, y
<1>3. b[i] = x /\ b[i + 1] = y
    BY <1>1, <1>2, PairHeld
<1>4. QED
    BY <1>1, <1>3 DEF Word16

\* Thirty-two bits take four octets.
LEMMA Octets32Facts ==
    ASSUME NEW n \in Words32
    PROVE  Octets32(n) \in Seq(Octets) /\ Len(Octets32(n)) = 4
<1>1. n \in Nat /\ n \div 65536 \in Nat
    BY Halves DEF Words32
<1> DEFINE p == Octets16(n \div 65536)
           q == Octets16(n)
<1>2. p \in Seq(Octets) /\ Len(p) = 2
    BY <1>1, Octets16Facts
<1>3. q \in Seq(Octets) /\ Len(q) = 2
    BY <1>1, Octets16Facts
<1>4. Octets32(n) = p \o q
    BY DEF Octets32
<1> HIDE DEF p, q
<1>5. p \o q \in Seq(Octets) /\ Len(p \o q) = 4
    <2>1. p \o q \in Seq(Octets) /\ Len(p \o q) = Len(p) + Len(q)
        BY <1>2, <1>3, JoinedSeqs
    <2>2. QED
        BY <1>2, <1>3, <2>1
<1>6. QED
    BY <1>4, <1>5

\* Reading the four octets gives the number.
LEMMA Word32Held ==
    ASSUME NEW b \in Seq(Octets), NEW i \in Nat, i > 0, NEW n \in Words32, Holds(b, i, Octets32(n))
    PROVE  Word32(b, i) = n
<1> DEFINE hi == n \div 65536
<1>1. n \in Nat /\ hi \in Nat /\ hi % 65536 = hi /\ hi * 65536 + (n % 65536) = n
    BY Halves DEF Words32
<1> DEFINE p == Octets16(hi)
           q == Octets16(n)
<1>2. Holds(b, i, p \o q)
    BY DEF Octets32
<1> HIDE DEF hi
<1>3. p \in Seq(Octets) /\ Len(p) = 2
    BY <1>1, Octets16Facts
<1>9. n \in Nat
    BY <1>1
<1>4. q \in Seq(Octets)
    BY <1>9, Octets16Facts
<1> HIDE DEF p, q
<1>5. Holds(b, i, p) /\ Holds(b, i + 2, q)
    <2>1. Holds(b, i, p) /\ Holds(b, i + Len(p), q)
        BY <1>2, <1>3, <1>4, HoldsJoined
    <2>2. QED
        BY <1>3, <2>1
<1>6. Word16(b, i) = hi /\ Word16(b, i + 2) = n % 65536
    <2>1. Word16(b, i) = hi % 65536
        BY <1>1, <1>5, Word16Held DEF p
    <2>2. i + 2 \in Nat /\ i + 2 > 0
        OBVIOUS
    <2>3. Word16(b, i + 2) = n % 65536
        BY <1>1, <1>5, <2>2, Word16Held DEF q
    <2>4. QED
        BY <1>1, <2>1, <2>3
<1>7. QED
    BY <1>1, <1>6 DEF Word32

\* Twenty-four bits take three octets.
LEMMA Octets24Facts ==
    ASSUME NEW n \in Words24
    PROVE  Octets24(n) \in Seq(Octets) /\ Len(Octets24(n)) = 3
<1> DEFINE a == (n \div 65536) % 256
<1>0. n \in Nat /\ n \div 65536 < 256
    BY DEF Words24
<1>1. a \in Octets
    BY <1>0, HighOctet, OctetBounds
<1> HIDE DEF a
<1> DEFINE p == <<a>>
           q == Octets16(n)
<1>2. p \in Seq(Octets) /\ Len(p) = 1
    BY <1>1
<1>3. q \in Seq(Octets) /\ Len(q) = 2
    BY <1>0, Octets16Facts
<1>4. Octets24(n) = p \o q
    BY DEF Octets24, a
<1> HIDE DEF p, q
<1>5. p \o q \in Seq(Octets) /\ Len(p \o q) = 3
    <2>1. p \o q \in Seq(Octets) /\ Len(p \o q) = Len(p) + Len(q)
        BY <1>2, <1>3, JoinedSeqs
    <2>2. QED
        BY <1>2, <1>3, <2>1
<1>6. QED
    BY <1>4, <1>5

\* One octet.
LEMMA OneHeld ==
    ASSUME NEW b \in Seq(Octets), NEW i \in Nat, i > 0, NEW x, Holds(b, i, <<x>>)
    PROVE  b[i] = x
<1>1. \A k \in 1 .. 1 : b[i + k - 1] = <<x>>[k]
    BY DEF Holds
<1>2. b[i + 1 - 1] = x /\ i + 1 - 1 = i
    BY <1>1
<1>3. QED
    BY <1>2

\* Reading the three octets gives the number.
LEMMA Word24Held ==
    ASSUME NEW b \in Seq(Octets), NEW i \in Nat, i > 0, NEW n \in Words24,
           Holds(b, i, Octets24(n))
    PROVE  Word24(b, i) = n
<1> DEFINE a == (n \div 65536) % 256
<1>0. n \in Nat /\ n \div 65536 < 256
    BY DEF Words24
<1>1. a \in Octets /\ a * 65536 + (n % 65536) = n
    BY <1>0, HighOctet, OctetBounds
<1> DEFINE p == <<a>>
           q == Octets16(n)
<1>2. Holds(b, i, p \o q)
    BY DEF Octets24
<1> HIDE DEF a
<1>3. p \in Seq(Octets) /\ Len(p) = 1
    BY <1>1
<1>9. n \in Nat
    BY <1>0
<1>4. q \in Seq(Octets)
    BY <1>9, Octets16Facts
<1> HIDE DEF p, q
<1>10. Holds(b, i, p) /\ Holds(b, i + 1, q)
    <2>1. Holds(b, i, p) /\ Holds(b, i + Len(p), q)
        BY <1>2, <1>3, <1>4, HoldsJoined
    <2>2. QED
        BY <1>3, <2>1
<1>5. b[i] = a
    BY <1>10, OneHeld DEF p
<1>6. Word16(b, i + 1) = n % 65536
    <2>1. i + 1 \in Nat /\ i + 1 > 0
        OBVIOUS
    <2>2. QED
        BY <1>9, <1>10, <2>1, Word16Held DEF q
<1>7. QED
    BY <1>1, <1>5, <1>6 DEF Word24

\* A word that is read has its width.
LEMMA Word16Range ==
    ASSUME NEW b \in Seq(Octets), NEW i \in Nat, i > 0, i + 1 <= Len(b)
    PROVE  Word16(b, i) \in Nat /\ Word16(b, i) < 65536
<1>1. b[i] \in Octets /\ b[i + 1] \in Octets
    BY LenProperties, ElementOfSeq
<1>2. b[i] \in Nat /\ b[i] < 256 /\ b[i + 1] \in Nat /\ b[i + 1] < 256
    BY <1>1, OctetBounds
<1>3. QED
    BY <1>2 DEF Word16

\* An octet and sixteen bits make twenty-four bits.
LEMMA JoinedOctet ==
    ASSUME NEW x \in Nat, x < 256, NEW y \in Nat, y < 65536
    PROVE  x * 65536 + y \in Nat /\ (x * 65536 + y) \div 65536 < 256
OBVIOUS

\* Three octets read are twenty-four bits.
LEMMA Word24Range ==
    ASSUME NEW b \in Seq(Octets), NEW i \in Nat, i > 0, i + 2 <= Len(b)
    PROVE  Word24(b, i) \in Words24
<1>1. b[i] \in Octets
    BY LenProperties, ElementOfSeq
<1>2. b[i] \in Nat /\ b[i] < 256
    BY <1>1, OctetBounds
<1>3. Word16(b, i + 1) \in Nat /\ Word16(b, i + 1) < 65536
    <2>1. i + 1 \in Nat /\ i + 1 > 0 /\ (i + 1) + 1 <= Len(b)
        BY LenProperties
    <2>2. QED
        BY <2>1, Word16Range
<1>4. QED
    BY <1>2, <1>3, JoinedOctet DEF Word24, Words24

\* Two halves of sixteen bits make thirty-two bits.
LEMMA JoinedHalves ==
    ASSUME NEW x \in Nat, x < 65536, NEW y \in Nat, y < 65536
    PROVE  x * 65536 + y \in Nat /\ (x * 65536 + y) \div 65536 < 65536
OBVIOUS

\* Four octets read are thirty-two bits.
LEMMA Word32Range ==
    ASSUME NEW b \in Seq(Octets), NEW i \in Nat, i > 0, i + 3 <= Len(b)
    PROVE  Word32(b, i) \in Words32
<1>1. i + 2 \in Nat /\ i + 2 > 0 /\ (i + 2) + 1 <= Len(b) /\ i + 1 <= Len(b)
    BY LenProperties
<1>2. Word16(b, i) \in Nat /\ Word16(b, i) < 65536
    BY <1>1, Word16Range
<1>3. Word16(b, i + 2) \in Nat /\ Word16(b, i + 2) < 65536
    BY <1>1, Word16Range
<1>4. QED
    BY <1>2, <1>3, JoinedHalves DEF Word32, Words32

-----------------------------------------------------------------------------
(* Headers. *)

\* The fields of a header, as the arithmetic needs them.
LEMMA HeaderFields ==
    ASSUME NEW h \in Headers
    PROVE  /\ h.version \in Nat /\ h.version < 16
           /\ h.frame_type \in 0 .. 9 /\ h.frame_type \in Nat /\ h.frame_type < 64
           /\ h.has_extensions \in BOOLEAN
           /\ h.stream_id \in Nat /\ h.stream_id < 262144
           /\ h.offset \in Words32 /\ h.length \in Words32
           /\ h.connection_id \in Seq(Octets) /\ Len(h.connection_id) = 4
           /\ h = [version |-> h.version, frame_type |-> h.frame_type,
                   has_extensions |-> h.has_extensions, stream_id |-> h.stream_id,
                   offset |-> h.offset, length |-> h.length, connection_id |-> h.connection_id]
<1>1. MAX_STREAM_ID \in Nat /\ MAX_STREAM_ID < 262144
    BY DEF MAX_STREAM_ID
<1>2. h.stream_id \in 0 .. MAX_STREAM_ID
    BY DEF Headers
<1>3. h.stream_id \in Nat /\ h.stream_id < 262144
    BY <1>1, <1>2
<1>4. /\ h.version \in 0 .. 15 /\ h.frame_type \in 0 .. 9
      /\ h.has_extensions \in BOOLEAN
      /\ h.offset \in Words32 /\ h.length \in Words32
      /\ h.connection_id \in Seq(Octets) /\ Len(h.connection_id) = 4
      /\ h = [version |-> h.version, frame_type |-> h.frame_type,
              has_extensions |-> h.has_extensions, stream_id |-> h.stream_id,
              offset |-> h.offset, length |-> h.length, connection_id |-> h.connection_id]
    BY DEF Headers, OctetsOf
<1>5. /\ h.version \in Nat /\ h.version < 16
      /\ h.frame_type \in Nat /\ h.frame_type < 64
    <2>1. h.version \in 0 .. 15 /\ h.frame_type \in 0 .. 9
        BY <1>4
    <2>2. QED
        BY <2>1
<1>6. QED
    BY <1>3, <1>4, <1>5

\* The first octet of a header.
VersionOctet(h) == (h.version % 16) * 16 + (h.frame_type \div 4)

\* What the first two octets say.
LEMMA FlagsRead ==
    ASSUME NEW h \in Headers, NEW long \in BOOLEAN
    PROVE  LET b1 == VersionOctet(h)
               b2 == FlagOctet(h, long)
           IN  /\ b1 \in Octets /\ b2 \in Octets
               /\ b1 \div 16 = h.version
               /\ (b1 % 16) * 4 + (b2 \div 64) = h.frame_type
               /\ (b2 \div 32) % 2 = 1 <=> long
               /\ ((b2 \div 16) % 2 = 1) = h.has_extensions
               /\ (b2 % 4) * 65536 + (h.stream_id % 65536) = h.stream_id
<1> DEFINE ty == h.frame_type
           id == h.stream_id
           l  == IF long THEN 32 ELSE 0
           x  == IF h.has_extensions THEN 16 ELSE 0
           hi == (id \div 65536) % 4
           b1 == VersionOctet(h)
           b2 == FlagOctet(h, long)
<1>1. /\ h.version \in Nat /\ h.version < 16
      /\ ty \in Nat /\ ty < 64 /\ h.has_extensions \in BOOLEAN
      /\ id \in Nat /\ id < 262144
    BY HeaderFields
<1>2. l \in {0, 32} /\ x \in {0, 16} /\ (l = 32 <=> long) /\ (x = 16 <=> h.has_extensions)
    BY <1>1
<1>3. b2 = (ty % 4) * 64 + l + x + hi
    BY DEF FlagOctet
<1>4. b1 = (h.version % 16) * 16 + (ty \div 4)
    BY DEF VersionOctet
<1> HIDE DEF ty, id, l, x, b1, b2
<1>5. hi \in Nat /\ hi < 4 /\ hi * 65536 + (id % 65536) = id
    BY <1>1, IdOctets
<1> HIDE DEF hi
<1> DEFINE v == h.version
<1>v. v \in Nat /\ v < 16 /\ ty \in Nat /\ ty < 64
    BY <1>1
<1>w. b1 = (v % 16) * 16 + (ty \div 4)
    BY <1>4
<1> HIDE DEF v
<1>6. b1 \in Nat /\ b1 < 256 /\ b1 \div 16 = v /\ b1 % 16 = ty \div 4
    BY <1>v, <1>w, FirstOctet
<1>7. /\ b2 \in Nat /\ b2 < 256 /\ b2 \div 64 = ty % 4
      /\ (b2 \div 32) % 2 = 1 <=> l = 32
      /\ (b2 \div 16) % 2 = 1 <=> x = 16
      /\ b2 % 4 = hi
    BY <1>1, <1>2, <1>3, <1>5, SecondOctet
<1>8. b1 \in Octets /\ b2 \in Octets
    BY <1>6, <1>7, OctetBounds
<1>9. (b1 % 16) * 4 + (b2 \div 64) = ty
    BY <1>1, <1>6, <1>7, TypeOctets
<1>10. (b2 \div 32) % 2 = 1 <=> long
    BY <1>2, <1>7
<1>11. ((b2 \div 16) % 2 = 1) = h.has_extensions
    BY <1>1, <1>2, <1>7
<1>12. (b2 % 4) * 65536 + (id % 65536) = id
    BY <1>5, <1>7
<1>13. QED
    BY <1>6, <1>8, <1>9, <1>10, <1>11, <1>12 DEF ty, id, b1, b2, v

\* The parts of an encoded header.
LEMMA HeaderParts ==
    ASSUME NEW h \in Headers, NEW long \in BOOLEAN
    PROVE  /\ <<VersionOctet(h), FlagOctet(h, long)>> \in Seq(Octets)
           /\ Len(<<VersionOctet(h), FlagOctet(h, long)>>) = 2
           /\ Octets16(h.stream_id) \in Seq(Octets) /\ Len(Octets16(h.stream_id)) = 2
           /\ Octets32(h.offset) \in Seq(Octets) /\ Len(Octets32(h.offset)) = 4
           /\ Octets32(h.length) \in Seq(Octets) /\ Len(Octets32(h.length)) = 4
           /\ h.connection_id \in Seq(Octets) /\ Len(h.connection_id) = 4
<1>1. VersionOctet(h) \in Octets /\ FlagOctet(h, long) \in Octets
    BY FlagsRead
<1>2. /\ h.stream_id \in Nat /\ h.offset \in Words32 /\ h.length \in Words32
      /\ h.connection_id \in Seq(Octets) /\ Len(h.connection_id) = 4
    BY HeaderFields
<1>3. Octets16(h.stream_id) \in Seq(Octets) /\ Len(Octets16(h.stream_id)) = 2
    BY <1>2, Octets16Facts
<1>4. Octets32(h.offset) \in Seq(Octets) /\ Len(Octets32(h.offset)) = 4
    BY <1>2, Octets32Facts
<1>5. Octets32(h.length) \in Seq(Octets) /\ Len(Octets32(h.length)) = 4
    BY <1>2, Octets32Facts
<1>6. QED
    BY <1>1, <1>2, <1>3, <1>4, <1>5

\* A header takes sixteen octets.
LEMMA HeaderSeq ==
    ASSUME NEW h \in Headers, NEW long \in BOOLEAN
    PROVE  EncodeHeader(h, long) \in Seq(Octets) /\ Len(EncodeHeader(h, long)) = 16
<1> DEFINE p == <<VersionOctet(h), FlagOctet(h, long)>>
           s == Octets16(h.stream_id)
           o == Octets32(h.offset)
           l == Octets32(h.length)
           c == h.connection_id
<1>1. EncodeHeader(h, long) = p \o s \o o \o l \o c
    BY DEF EncodeHeader, VersionOctet
<1>p. p \in Seq(Octets) /\ Len(p) = 2
    BY HeaderParts
<1>s. s \in Seq(Octets) /\ Len(s) = 2
    BY HeaderParts
<1>o. o \in Seq(Octets) /\ Len(o) = 4
    BY HeaderParts
<1>l. l \in Seq(Octets) /\ Len(l) = 4
    BY HeaderParts
<1>c. c \in Seq(Octets) /\ Len(c) = 4
    BY HeaderParts
<1> HIDE DEF p, s, o, l, c
<1>3. p \o s \in Seq(Octets) /\ Len(p \o s) = 4
    <2>1. p \o s \in Seq(Octets) /\ Len(p \o s) = Len(p) + Len(s)
        BY <1>p, <1>s, JoinedSeqs
    <2>2. QED
        BY <1>p, <1>s, <2>1
<1>4. p \o s \o o \in Seq(Octets) /\ Len(p \o s \o o) = 8
    <2>1. p \o s \o o \in Seq(Octets) /\ Len(p \o s \o o) = Len(p \o s) + Len(o)
        BY <1>o, <1>3, JoinedSeqs
    <2>2. QED
        BY <1>o, <1>3, <2>1
<1>5. p \o s \o o \o l \in Seq(Octets) /\ Len(p \o s \o o \o l) = 12
    <2>1. p \o s \o o \o l \in Seq(Octets) /\ Len(p \o s \o o \o l) = Len(p \o s \o o) + Len(l)
        BY <1>l, <1>4, JoinedSeqs
    <2>2. QED
        BY <1>l, <1>4, <2>1
<1>6. p \o s \o o \o l \o c \in Seq(Octets) /\ Len(p \o s \o o \o l \o c) = 16
    <2>1. p \o s \o o \o l \o c \in Seq(Octets) /\ Len(p \o s \o o \o l \o c) = Len(p \o s \o o \o l) + Len(c)
        BY <1>c, <1>5, JoinedSeqs
    <2>2. QED
        BY <1>c, <1>5, <2>1
<1>7. QED
    BY <1>1, <1>6

\* A datagram that begins with two parts.
LEMMA BeginsWith ==
    ASSUME NEW b \in Seq(Octets), NEW s \in Seq(Octets), NEW t \in Seq(Octets),
           Holds(b, 1, s \o t)
    PROVE  Holds(b, 1, s) /\ Holds(b, 1 + Len(s), t)
<1>1. 1 \in Nat /\ 1 > 0
    OBVIOUS
<1>2. QED
    BY <1>1, HoldsParts

\* Where they stand in a datagram that begins with the header.
LEMMA HeaderPlaces ==
    ASSUME NEW h \in Headers, NEW long \in BOOLEAN, NEW b \in Seq(Octets),
           Holds(b, 1, EncodeHeader(h, long))
    PROVE  /\ Holds(b, 1, <<VersionOctet(h), FlagOctet(h, long)>>)
           /\ Holds(b, 3, Octets16(h.stream_id))
           /\ Holds(b, 5, Octets32(h.offset))
           /\ Holds(b, 9, Octets32(h.length))
           /\ Holds(b, 13, h.connection_id)
<1> DEFINE p == <<VersionOctet(h), FlagOctet(h, long)>>
           s == Octets16(h.stream_id)
           o == Octets32(h.offset)
           l == Octets32(h.length)
           c == h.connection_id
<1>1. Holds(b, 1, p \o s \o o \o l \o c)
    BY DEF EncodeHeader, VersionOctet
<1>p. p \in Seq(Octets) /\ Len(p) = 2
    BY HeaderParts
<1>s. s \in Seq(Octets) /\ Len(s) = 2
    BY HeaderParts
<1>o. o \in Seq(Octets) /\ Len(o) = 4
    BY HeaderParts
<1>l. l \in Seq(Octets) /\ Len(l) = 4
    BY HeaderParts
<1>c. c \in Seq(Octets) /\ Len(c) = 4
    BY HeaderParts
<1> HIDE DEF p, s, o, l, c
<1>3. p \o s \in Seq(Octets) /\ Len(p \o s) = 4
    <2>1. p \o s \in Seq(Octets) /\ Len(p \o s) = Len(p) + Len(s)
        BY <1>p, <1>s, JoinedSeqs
    <2>2. QED
        BY <1>p, <1>s, <2>1
<1>4. p \o s \o o \in Seq(Octets) /\ Len(p \o s \o o) = 8
    <2>1. p \o s \o o \in Seq(Octets) /\ Len(p \o s \o o) = Len(p \o s) + Len(o)
        BY <1>o, <1>3, JoinedSeqs
    <2>2. QED
        BY <1>o, <1>3, <2>1
<1>5. p \o s \o o \o l \in Seq(Octets) /\ Len(p \o s \o o \o l) = 12
    <2>1. p \o s \o o \o l \in Seq(Octets) /\ Len(p \o s \o o \o l) = Len(p \o s \o o) + Len(l)
        BY <1>l, <1>4, JoinedSeqs
    <2>2. QED
        BY <1>l, <1>4, <2>1
<1>6. Holds(b, 1, p \o s \o o \o l) /\ Holds(b, 1 + 12, c)
    <2>1. Holds(b, 1, p \o s \o o \o l) /\ Holds(b, 1 + Len(p \o s \o o \o l), c)
        BY <1>1, <1>c, <1>5, BeginsWith
    <2>2. QED
        BY <1>5, <2>1
<1>7. Holds(b, 1, p \o s \o o) /\ Holds(b, 1 + 8, l)
    <2>1. Holds(b, 1, p \o s \o o) /\ Holds(b, 1 + Len(p \o s \o o), l)
        BY <1>l, <1>4, <1>6, BeginsWith
    <2>2. QED
        BY <1>4, <2>1
<1>8. Holds(b, 1, p \o s) /\ Holds(b, 1 + 4, o)
    <2>1. Holds(b, 1, p \o s) /\ Holds(b, 1 + Len(p \o s), o)
        BY <1>o, <1>3, <1>7, BeginsWith
    <2>2. QED
        BY <1>3, <2>1
<1>9. Holds(b, 1, p) /\ Holds(b, 1 + 2, s)
    <2>1. Holds(b, 1, p) /\ Holds(b, 1 + Len(p), s)
        BY <1>p, <1>s, <1>8, BeginsWith
    <2>2. QED
        BY <1>p, <2>1
<1>10. QED
    BY <1>6, <1>7, <1>8, <1>9 DEF p, s, o, l, c

\* What is decoded from an encoded header is the header.
LEMMA HeaderRoundTrip ==
    ASSUME NEW h \in Headers, NEW long \in BOOLEAN, NEW b \in Seq(Octets),
           Holds(b, 1, EncodeHeader(h, long))
    PROVE  /\ DecodeHeader(b) = h
           /\ DecodedType(b) = h.frame_type
           /\ LongBit(b) <=> long
<1> DEFINE b1 == VersionOctet(h)
           b2 == FlagOctet(h, long)
           id == h.stream_id
           offset == h.offset
           length == h.length
           c == h.connection_id
<1>p. Holds(b, 1, <<b1, b2>>)
    BY HeaderPlaces
<1>s. Holds(b, 3, Octets16(id))
    BY HeaderPlaces
<1>o. Holds(b, 5, Octets32(offset))
    BY HeaderPlaces
<1>l. Holds(b, 9, Octets32(length))
    BY HeaderPlaces
<1>c. Holds(b, 13, c)
    BY HeaderPlaces
<1>1. b1 \in Octets /\ b2 \in Octets
    BY FlagsRead
<1>i. id \in Nat
    BY HeaderFields
<1>w. offset \in Words32 /\ length \in Words32
    BY HeaderFields
<1>d. c \in Seq(Octets) /\ Len(c) = 4
    BY HeaderFields
<1> HIDE DEF b1, b2, id, offset, length, c
<1>2. b[1] = b1 /\ b[2] = b2
    <2>1. b[1] = b1 /\ b[1 + 1] = b2
        BY <1>1, <1>p, PairHeld
    <2>2. QED
        BY <2>1
<1>3. Word16(b, 3) = id % 65536
    BY <1>s, <1>i, Word16Held
<1>4. Word32(b, 5) = offset
    BY <1>o, <1>w, Word32Held
<1>5. Word32(b, 9) = length
    BY <1>l, <1>w, Word32Held
<1>6. SubSeq(b, 13, 16) = c
    <2>1. SubSeq(b, 13, 13 + Len(c) - 1) = c
        <3>1. c \in Seq(Octets)
            BY <1>d
        <3>2. QED
            BY <1>c, <3>1, HoldsPart
    <2>2. 13 + Len(c) - 1 = 16
        BY <1>d
    <2>3. QED
        BY <2>1, <2>2
<1>7. /\ b[1] \div 16 = h.version
      /\ (b[1] % 16) * 4 + (b[2] \div 64) = h.frame_type
      /\ (b[2] \div 32) % 2 = 1 <=> long
      /\ ((b[2] \div 16) % 2 = 1) = h.has_extensions
      /\ (b[2] % 4) * 65536 + (h.stream_id % 65536) = h.stream_id
    BY <1>2, FlagsRead DEF b1, b2
<1>8. DecodedType(b) = h.frame_type /\ (LongBit(b) <=> long)
    BY <1>7 DEF DecodedType, LongBit
<1>9. DecodeHeader(b) = h
    <2>1. Word16(b, 3) = h.stream_id % 65536
        BY <1>3 DEF id
    <2>2. /\ Word32(b, 5) = h.offset /\ Word32(b, 9) = h.length
          /\ SubSeq(b, 13, 16) = h.connection_id
        BY <1>4, <1>5, <1>6 DEF offset, length, c
    <2>3. QED
        BY <1>7, <1>8, <2>1, <2>2, HeaderFields DEF DecodeHeader
<1>10. QED
    BY <1>8, <1>9

\* What is read at a place does not change when octets are added at the end.
LEMMA SameOctet ==
    ASSUME NEW b \in Seq(Octets), NEW c \in Seq(Octets), Holds(c, 1, b),
           NEW i \in Nat, i > 0, i <= Len(b)
    PROVE  c[i] = b[i]
<1>1. Len(b) \in Nat /\ \A k \in 1 .. Len(b) : c[1 + k - 1] = b[k]
    BY LenProperties DEF Holds
<1>2. i \in 1 .. Len(b) /\ 1 + i - 1 = i
    BY <1>1
<1>3. QED
    BY <1>1, <1>2

\* A datagram that begins with another one is not shorter.
LEMMA NotShorter ==
    ASSUME NEW b \in Seq(Octets), NEW c \in Seq(Octets), Holds(c, 1, b)
    PROVE  Len(b) \in Nat /\ Len(c) \in Nat /\ Len(b) <= Len(c)
<1>1. Len(b) \in Nat /\ Len(c) \in Nat
    BY LenProperties
<1>2. 1 + Len(b) <= Len(c) + 1
    BY DEF Holds
<1>3. QED
    BY <1>1, <1>2

\* They have the same parts, as far as the shorter one goes,
LEMMA SamePart ==
    ASSUME NEW b \in Seq(Octets), NEW c \in Seq(Octets), Holds(c, 1, b),
           NEW i \in Nat, i > 0, NEW n \in Nat, i + n <= Len(b) + 1
    PROVE  SubSeq(c, i, i + n - 1) = SubSeq(b, i, i + n - 1)
<1> DEFINE p == SubSeq(c, i, i + n - 1)
           q == SubSeq(b, i, i + n - 1)
<1>1. i + n <= Len(c) + 1 /\ Len(b) \in Nat
    BY NotShorter
<1>2. p \in Seq(Octets) /\ Len(p) = n /\ \A k \in 1 .. n : p[k] = c[i + k - 1]
    BY <1>1, PartFacts
<1>3. q \in Seq(Octets) /\ Len(q) = n /\ \A k \in 1 .. n : q[k] = b[i + k - 1]
    BY PartFacts
<1> HIDE DEF p, q
<1>4. ASSUME NEW k \in 1 .. n
      PROVE  p[k] = q[k]
    <2>1. i + k - 1 \in Nat /\ i + k - 1 > 0 /\ i + k - 1 <= Len(b)
        BY <1>1
    <2>2. c[i + k - 1] = b[i + k - 1]
        BY <2>1, SameOctet
    <2>3. QED
        BY <1>2, <1>3, <2>2
<1>5. p = q
    BY <1>2, <1>3, <1>4, SeqEqual
<1>6. QED
    BY <1>5 DEF p, q

\* given by length or by their ends,
LEMMA SameSub ==
    ASSUME NEW b \in Seq(Octets), NEW c \in Seq(Octets), Holds(c, 1, b),
           NEW i \in Nat, i > 0, NEW j \in Nat, i <= j + 1, j <= Len(b)
    PROVE  SubSeq(c, i, j) = SubSeq(b, i, j)
<1> DEFINE n == j + 1 - i
<1>1. n \in Nat /\ i + n <= Len(b) + 1 /\ i + n - 1 = j
    BY NotShorter
<1> HIDE DEF n
<1>2. SubSeq(c, i, i + n - 1) = SubSeq(b, i, i + n - 1)
    BY <1>1, SamePart
<1>3. QED
    BY <1>1, <1>2

\* and the same words.
LEMMA SameWord16 ==
    ASSUME NEW b \in Seq(Octets), NEW c \in Seq(Octets), Holds(c, 1, b),
           NEW i \in Nat, i > 0, i + 1 <= Len(b)
    PROVE  Word16(c, i) = Word16(b, i)
<1>1. i <= Len(b) /\ i + 1 \in Nat /\ i + 1 > 0
    BY NotShorter
<1>2. c[i] = b[i] /\ c[i + 1] = b[i + 1]
    BY <1>1, SameOctet
<1>3. QED
    BY <1>2 DEF Word16

\* The same for three octets.
LEMMA SameWord24 ==
    ASSUME NEW b \in Seq(Octets), NEW c \in Seq(Octets), Holds(c, 1, b),
           NEW i \in Nat, i > 0, i + 2 <= Len(b)
    PROVE  Word24(c, i) = Word24(b, i)
<1>1. i <= Len(b) /\ i + 1 \in Nat /\ i + 1 > 0 /\ (i + 1) + 1 <= Len(b)
    BY NotShorter
<1>2. c[i] = b[i]
    BY <1>1, SameOctet
<1>3. Word16(c, i + 1) = Word16(b, i + 1)
    BY <1>1, SameWord16
<1>4. QED
    BY <1>2, <1>3 DEF Word24

\* The same for four octets.
LEMMA SameWord32 ==
    ASSUME NEW b \in Seq(Octets), NEW c \in Seq(Octets), Holds(c, 1, b),
           NEW i \in Nat, i > 0, i + 3 <= Len(b)
    PROVE  Word32(c, i) = Word32(b, i)
<1>1. i + 1 <= Len(b) /\ i + 2 \in Nat /\ i + 2 > 0 /\ (i + 2) + 1 <= Len(b)
    BY NotShorter
<1>2. Word16(c, i) = Word16(b, i)
    BY <1>1, SameWord16
<1>3. Word16(c, i + 2) = Word16(b, i + 2)
    BY <1>1, SameWord16
<1>4. QED
    BY <1>2, <1>3 DEF Word32

\* The header of a datagram is that of a longer one.
LEMMA SameHeader ==
    ASSUME NEW b \in Seq(Octets), NEW c \in Seq(Octets), Holds(c, 1, b), Len(b) >= 16
    PROVE  /\ DecodeHeader(c) = DecodeHeader(b)
           /\ DecodedType(c) = DecodedType(b)
           /\ LongBit(c) <=> LongBit(b)
<1>0. Len(b) \in Nat
    BY NotShorter
<1>1. c[1] = b[1] /\ c[2] = b[2]
    <2>1. 1 <= Len(b) /\ 2 <= Len(b)
        BY <1>0
    <2>2. QED
        BY <2>1, SameOctet
<1>2. Word16(c, 3) = Word16(b, 3)
    <2>1. 3 + 1 <= Len(b)
        BY <1>0
    <2>2. QED
        BY <2>1, SameWord16
<1>3. Word32(c, 5) = Word32(b, 5)
    <2>1. 5 + 3 <= Len(b)
        BY <1>0
    <2>2. QED
        BY <2>1, SameWord32
<1>4. Word32(c, 9) = Word32(b, 9)
    <2>1. 9 + 3 <= Len(b)
        BY <1>0
    <2>2. QED
        BY <2>1, SameWord32
<1>5. SubSeq(c, 13, 16) = SubSeq(b, 13, 16)
    <2>1. 13 <= 16 + 1 /\ 16 <= Len(b)
        BY <1>0
    <2>2. QED
        BY <2>1, SameSub
<1>6. DecodedType(c) = DecodedType(b) /\ (LongBit(c) <=> LongBit(b))
    BY <1>1 DEF DecodedType, LongBit
<1>7. DecodeHeader(c) = DecodeHeader(b)
    <2> DEFINE v(d) == d[1] \div 16
               x(d) == (d[2] \div 16) % 2 = 1
               i(d) == (d[2] % 4) * 65536 + Word16(d, 3)
    <2>1. \A d : DecodeHeader(d) =
              [version |-> v(d), frame_type |-> DecodedType(d), has_extensions |-> x(d),
               stream_id |-> i(d), offset |-> Word32(d, 5), length |-> Word32(d, 9),
               connection_id |-> SubSeq(d, 13, 16)]
        BY DEF DecodeHeader
    <2>2. v(c) = v(b) /\ x(c) = x(b) /\ i(c) = i(b)
        BY <1>1, <1>2
    <2> HIDE DEF v, x, i
    <2>3. QED
        BY <1>3, <1>4, <1>5, <1>6, <2>1, <2>2
<1>8. QED
    BY <1>6, <1>7

\* The high half of an octet.
LEMMA TopBits ==
    ASSUME NEW x \in Nat, x < 256
    PROVE  x \div 16 \in 0 .. 15
OBVIOUS

\* Two bits and sixteen bits make the eighteen bits of a stream id.
LEMMA HighBits ==
    ASSUME NEW x \in Nat, x < 256, NEW y \in Nat, y < 65536
    PROVE  (x % 4) * 65536 + y \in Nat /\ (x % 4) * 65536 + y < 262144
<1>2. x % 4 \in Nat /\ x % 4 < 4
    OBVIOUS
<1>3. QED
    BY <1>2

\* What is decoded as a header is one, when the type is known.
LEMMA HeaderDecoded ==
    ASSUME NEW b \in Seq(Octets), Len(b) >= 16, DecodedType(b) \in 0 .. 9
    PROVE  DecodeHeader(b) \in Headers
<1>0. Len(b) \in Nat
    BY LenProperties
<1>1. b[1] \in Nat /\ b[1] < 256 /\ b[2] \in Nat /\ b[2] < 256
    <2>1. 1 \in 1 .. Len(b) /\ 2 \in 1 .. Len(b)
        BY <1>0
    <2>2. b[1] \in Octets /\ b[2] \in Octets
        BY <2>1, ElementOfSeq
    <2>3. QED
        BY <2>2, OctetBounds
<1>2. Word16(b, 3) \in Nat /\ Word16(b, 3) < 65536
    <2>1. 3 + 1 <= Len(b)
        BY <1>0
    <2>2. QED
        BY <2>1, Word16Range
<1>3. Word32(b, 5) \in Words32
    <2>1. 5 + 3 <= Len(b)
        BY <1>0
    <2>2. QED
        BY <2>1, Word32Range
<1>4. Word32(b, 9) \in Words32
    <2>1. 9 + 3 <= Len(b)
        BY <1>0
    <2>2. QED
        BY <2>1, Word32Range
<1>5. SubSeq(b, 13, 16) \in OctetsOf(4)
    <2>1. 13 + 4 <= Len(b) + 1 /\ 13 + 4 - 1 = 16
        BY <1>0
    <2>2. SubSeq(b, 13, 13 + 4 - 1) \in Seq(Octets) /\ Len(SubSeq(b, 13, 13 + 4 - 1)) = 4
        BY <2>1, PartFacts
    <2>3. QED
        BY <2>1, <2>2 DEF OctetsOf
<1>6. b[1] \div 16 \in 0 .. 15
    <2> DEFINE x == b[1]
    <2>1. x \in Nat /\ x < 256
        BY <1>1
    <2> HIDE DEF x
    <2>2. x \div 16 \in 0 .. 15
        BY <2>1, TopBits
    <2>3. QED
        BY <2>2 DEF x
<1>7. (b[2] % 4) * 65536 + Word16(b, 3) \in 0 .. MAX_STREAM_ID
    <2> DEFINE n == (b[2] % 4) * 65536 + Word16(b, 3)
    <2>1. n \in Nat /\ n < 262144
        BY <1>1, <1>2, HighBits
    <2> HIDE DEF n
    <2>2. MAX_STREAM_ID \in Nat /\ (n < 262144 => n <= MAX_STREAM_ID)
        BY <2>1 DEF MAX_STREAM_ID
    <2>3. n \in 0 .. MAX_STREAM_ID
        BY <2>1, <2>2
    <2>4. QED
        BY <2>3 DEF n
<1>8. QED
    BY <1>3, <1>4, <1>5, <1>6, <1>7 DEF DecodeHeader, Headers

-----------------------------------------------------------------------------
(* Extensions. *)

\* The rest of a datagram.
LEMMA FromFacts ==
    ASSUME NEW b \in Seq(Octets), NEW i \in Nat, i > 0, i <= Len(b)
    PROVE  /\ From(b, i) \in Seq(Octets)
           /\ Len(From(b, i)) = Len(b) + 1 - i
           /\ \A k \in 1 .. Len(b) + 1 - i : From(b, i)[k] = b[i + k - 1]
<1> DEFINE n == Len(b) + 1 - i
<1>1. Len(b) \in Nat /\ n \in Nat /\ i + n <= Len(b) + 1 /\ i + n - 1 = Len(b)
    BY LenProperties
<1> HIDE DEF n
<1>2. From(b, i) = SubSeq(b, i, i + n - 1)
    BY <1>1 DEF From
<1>3. QED
    BY <1>1, <1>2, PartFacts DEF n

\* What decode() makes of the octets from i on.
LEMMA ExtensionAt ==
    ASSUME NEW b \in Seq(Octets), NEW i \in Nat, i > 0, i <= Len(b)
    PROVE  DecodeExtension(From(b, i)) =
               IF i + 3 > Len(b) \/ i + 4 + Word24(b, i + 1) > Len(b) + 1 THEN Error
               ELSE Extension(DecodedExtType(b[i]),
                              SubSeq(b, i + 4, i + 3 + Word24(b, i + 1)))
<1> DEFINE r == From(b, i)
           n == Word24(b, i + 1)
<1>1. /\ Len(b) \in Nat /\ r \in Seq(Octets) /\ Len(r) = Len(b) + 1 - i
      /\ \A k \in 1 .. Len(b) + 1 - i : r[k] = b[i + k - 1]
    BY LenProperties, FromFacts
<1> HIDE DEF r
<1>2. Len(r) < 4 <=> i + 3 > Len(b)
    BY <1>1
<1>3. CASE Len(r) < 4
    <2>1. DecodeExtension(r) = Error
        BY <1>3 DEF DecodeExtension
    <2>2. QED
        BY <1>2, <1>3, <2>1 DEF r
<1>4. CASE ~(Len(r) < 4)
    <2>1. r[1] = b[i] /\ r[2] = b[i + 1] /\ r[3] = b[i + 2] /\ r[4] = b[i + 3]
        <3>1. /\ 1 \in 1 .. Len(b) + 1 - i /\ i + 1 - 1 = i
              /\ 2 \in 1 .. Len(b) + 1 - i /\ i + 2 - 1 = i + 1
              /\ 3 \in 1 .. Len(b) + 1 - i /\ i + 3 - 1 = i + 2
              /\ 4 \in 1 .. Len(b) + 1 - i /\ i + 4 - 1 = i + 3
            BY <1>1, <1>4
        <3>2. /\ r[1] = b[i + 1 - 1] /\ r[2] = b[i + 2 - 1]
              /\ r[3] = b[i + 3 - 1] /\ r[4] = b[i + 4 - 1]
            BY <1>1, <3>1
        <3>3. QED
            BY <3>1, <3>2
    <2>2. Word24(r, 2) = n
        <3>1. Word24(r, 2) = r[2] * 65536 + (r[3] * 256 + r[4])
            BY DEF Word24, Word16
        <3>2. n = b[i + 1] * 65536 + (b[i + 2] * 256 + b[i + 3])
            <4>1. n = b[i + 1] * 65536 + (b[i + 1 + 1] * 256 + b[i + 1 + 1 + 1])
                BY DEF Word24, Word16
            <4>2. i + 1 + 1 = i + 2 /\ i + 1 + 1 + 1 = i + 3
                OBVIOUS
            <4>3. QED
                BY <4>1, <4>2
        <3>3. QED
            BY <2>1, <3>1, <3>2
    <2>3. n \in Nat
        <3>1. i + 1 \in Nat /\ i + 1 > 0 /\ (i + 1) + 2 <= Len(b)
            BY <1>1, <1>2, <1>4
        <3>2. n \in Words24
            BY <3>1, Word24Range
        <3>3. QED
            BY <3>2 DEF Words24
    <2> HIDE DEF n
    <2>4. CASE Len(r) < 4 + n
        <3>1. DecodeExtension(r) = Error
            BY <2>2, <2>4 DEF DecodeExtension
        <3>2. i + 4 + n > Len(b) + 1
            BY <1>1, <2>3, <2>4
        <3>3. QED
            BY <3>1, <3>2 DEF r, n
    <2>5. CASE ~(Len(r) < 4 + n)
        <3> DEFINE v == SubSeq(r, 5, 4 + n)
                   w == SubSeq(b, i + 4, i + 3 + n)
        <3>1. DecodeExtension(r) = Extension(DecodedExtType(b[i]), v)
            BY <1>4, <2>1, <2>2, <2>5 DEF DecodeExtension
        <3>2. i + 3 <= Len(b) /\ i + 4 + n <= Len(b) + 1 /\ n <= Len(b) + 1 - i - 4
            BY <1>1, <2>3, <2>4, <2>5
        <3>3. v \in Seq(Octets) /\ Len(v) = n /\ \A k \in 1 .. n : v[k] = r[5 + k - 1]
            <4>1. 5 + n <= Len(r) + 1 /\ 5 + n - 1 = 4 + n
                BY <1>1, <2>3, <2>5
            <4>2. 5 \in Nat /\ 5 > 0
                OBVIOUS
            <4> DEFINE j == 5 + n - 1
            <4>3. SubSeq(r, 5, j) \in Seq(Octets) /\ Len(SubSeq(r, 5, j)) = n
                  /\ \A k \in 1 .. n : SubSeq(r, 5, j)[k] = r[5 + k - 1]
                BY <1>1, <2>3, <4>1, <4>2, PartFacts
            <4> HIDE DEF j
            <4>4. j = 4 + n
                BY <4>1 DEF j
            <4>5. QED
                BY <4>3, <4>4
        <3>4. w \in Seq(Octets) /\ Len(w) = n /\ \A k \in 1 .. n : w[k] = b[i + 4 + k - 1]
            <4>1. i + 4 \in Nat /\ i + 4 > 0 /\ i + 4 + n <= Len(b) + 1 /\ i + 4 + n - 1 = i + 3 + n
                BY <2>3, <3>2
            <4> DEFINE j == i + 4 + n - 1
            <4>2. SubSeq(b, i + 4, j) \in Seq(Octets) /\ Len(SubSeq(b, i + 4, j)) = n
                  /\ \A k \in 1 .. n : SubSeq(b, i + 4, j)[k] = b[i + 4 + k - 1]
                BY <2>3, <4>1, PartFacts
            <4> HIDE DEF j
            <4>3. j = i + 3 + n
                BY <4>1 DEF j
            <4>4. QED
                BY <4>2, <4>3
        <3> HIDE DEF v, w
        <3>5. ASSUME NEW k \in 1 .. n
              PROVE  v[k] = w[k]
            <4>1. /\ 5 + k - 1 \in 1 .. Len(b) + 1 - i
                  /\ i + (5 + k - 1) - 1 = i + 4 + k - 1
                BY <1>1, <2>3, <3>2
            <4>2. r[5 + k - 1] = b[i + (5 + k - 1) - 1]
                BY <1>1, <4>1
            <4>3. QED
                BY <3>3, <3>4, <4>1, <4>2
        <3>6. v = w
            BY <3>3, <3>4, <3>5, SeqEqual
        <3>7. ~(i + 3 > Len(b)) /\ ~(i + 4 + n > Len(b) + 1)
            BY <1>1, <2>3, <3>2
        <3>8. QED
            BY <3>1, <3>6, <3>7 DEF r, n, w
    <2>6. QED
        BY <2>4, <2>5
<1>5. QED
    BY <1>3, <1>4

\* What decodes is an extension or the end of a chain, and lies in the datagram.
LEMMA ExtensionDecoded ==
    ASSUME NEW b \in Seq(Octets), NEW i \in Nat, i > 0, i <= Len(b),
           NEW e, e = DecodeExtension(From(b, i)), e # Error
    PROVE  /\ e \in Extensions \cup Terminators
           /\ e.ext_type = ExtType.Terminator <=> e \notin Extensions
           /\ ExtensionSize(e) \in Nat /\ ExtensionSize(e) >= 4
           /\ i + ExtensionSize(e) <= Len(b) + 1
<1> DEFINE n == Word24(b, i + 1)
           v == SubSeq(b, i + 4, i + 3 + n)
           ty == DecodedExtType(b[i])
<1>1. /\ ~(i + 3 > Len(b)) /\ ~(i + 4 + n > Len(b) + 1)
      /\ e = Extension(ty, v)
    BY ExtensionAt
<1>2. Len(b) \in Nat
    BY LenProperties
<1>3. n \in Words24
    <2>1. i + 1 \in Nat /\ i + 1 > 0 /\ (i + 1) + 2 <= Len(b)
        BY <1>1, <1>2
    <2>2. QED
        BY <2>1, Word24Range
<1>4. n \in Nat
    BY <1>3 DEF Words24
<1> HIDE DEF n
<1>5. v \in Seq(Octets) /\ Len(v) = n
    <2>1. i + 4 \in Nat /\ i + 4 > 0 /\ i + 4 + n <= Len(b) + 1 /\ i + 4 + n - 1 = i + 3 + n
        BY <1>1, <1>2, <1>4
    <2> DEFINE j == i + 4 + n - 1
    <2>2. SubSeq(b, i + 4, j) \in Seq(Octets) /\ Len(SubSeq(b, i + 4, j)) = n
        BY <1>4, <2>1, PartFacts
    <2> HIDE DEF j
    <2>3. j = i + 3 + n
        BY <2>1 DEF j
    <2>4. QED
        BY <2>2, <2>3
<1>6. ty \in 1 .. 5 \/ ty = 0
    BY DEF DecodedExtType, ExtType
<1> HIDE DEF v, ty
<1>7. e.ext_type = ty /\ e.value = v /\ e = [ext_type |-> ty, value |-> v]
    BY <1>1 DEF Extension
<1>8. v \in Values
    BY <1>3, <1>5 DEF Values
<1>9. CASE ty = 0
    <2>1. e \in Terminators /\ e.ext_type = ExtType.Terminator
        BY <1>7, <1>8, <1>9 DEF Terminators, ExtType
    <2>2. e \notin Extensions
        BY <1>7, <1>9 DEF Extensions
    <2>3. ExtensionSize(e) = 4 + n
        BY <1>5, <1>7 DEF ExtensionSize
    <2>4. QED
        BY <1>1, <1>2, <1>4, <2>1, <2>2, <2>3
<1>10. CASE ty \in 1 .. 5
    <2>1. e \in Extensions /\ e.ext_type # ExtType.Terminator
        BY <1>7, <1>8, <1>10 DEF Extensions, ExtType
    <2>2. ExtensionSize(e) = 4 + n
        BY <1>5, <1>7 DEF ExtensionSize
    <2>3. QED
        BY <1>1, <1>2, <1>4, <2>1, <2>2
<1>11. QED
    BY <1>6, <1>9, <1>10

\* It is the same in a longer datagram.
LEMMA SameExtension ==
    ASSUME NEW b \in Seq(Octets), NEW c \in Seq(Octets), Holds(c, 1, b),
           NEW i \in Nat, i > 0, i <= Len(b), DecodeExtension(From(b, i)) # Error
    PROVE  DecodeExtension(From(c, i)) = DecodeExtension(From(b, i))
<1> DEFINE n == Word24(b, i + 1)
<1>1. Len(b) \in Nat /\ Len(c) \in Nat /\ Len(b) <= Len(c)
    BY NotShorter
<1>2. /\ ~(i + 3 > Len(b)) /\ ~(i + 4 + n > Len(b) + 1)
      /\ DecodeExtension(From(b, i)) =
            Extension(DecodedExtType(b[i]), SubSeq(b, i + 4, i + 3 + n))
    BY ExtensionAt
<1>3. i + 1 \in Nat /\ i + 1 > 0 /\ (i + 1) + 2 <= Len(b)
    BY <1>1, <1>2
<1>4. n \in Nat
    BY <1>3, Word24Range DEF Words24
<1>5. Word24(c, i + 1) = n
    BY <1>3, SameWord24
<1>6. c[i] = b[i]
    BY SameOctet
<1> HIDE DEF n
<1>7. SubSeq(c, i + 4, i + 3 + n) = SubSeq(b, i + 4, i + 3 + n)
    <2>1. /\ i + 4 \in Nat /\ i + 4 > 0 /\ i + 3 + n \in Nat
          /\ i + 4 <= (i + 3 + n) + 1 /\ i + 3 + n <= Len(b)
        BY <1>1, <1>2, <1>4
    <2>2. QED
        BY <2>1, SameSub
<1>8. i <= Len(c) /\ ~(i + 3 > Len(c)) /\ ~(i + 4 + n > Len(c) + 1)
    BY <1>1, <1>2, <1>4
<1>9. DecodeExtension(From(c, i)) =
          Extension(DecodedExtType(c[i]), SubSeq(c, i + 4, i + 3 + n))
    <2>1. DecodeExtension(From(c, i)) =
              IF i + 3 > Len(c) \/ i + 4 + Word24(c, i + 1) > Len(c) + 1 THEN Error
              ELSE Extension(DecodedExtType(c[i]),
                             SubSeq(c, i + 4, i + 3 + Word24(c, i + 1)))
        BY <1>8, ExtensionAt
    <2>2. QED
        BY <1>5, <1>8, <2>1
<1>10. QED
    BY <1>2, <1>6, <1>7, <1>9

\* The fields of an extension.
LEMMA ExtensionFields ==
    ASSUME NEW e \in Extensions \cup Terminators
    PROVE  /\ e.ext_type \in 0 .. 5 /\ e.ext_type \in Octets
           /\ e.value \in Seq(Octets) /\ Len(e.value) \in Words24 /\ Len(e.value) \in Nat
           /\ e = Extension(e.ext_type, e.value)
           /\ ExtensionSize(e) = 4 + Len(e.value)
<1>1. e.ext_type \in 0 .. 5 /\ e.value \in Values /\ e = [ext_type |-> e.ext_type, value |-> e.value]
    BY DEF Extensions, Terminators, ExtType
<1>2. e.ext_type \in Octets
    BY <1>1 DEF Octets
<1>3. QED
    BY <1>1, <1>2 DEF Values, Words24, Extension, ExtensionSize

\* An extension takes as many octets as its size says.
LEMMA ExtensionSeq ==
    ASSUME NEW e \in Extensions \cup Terminators
    PROVE  EncodeExtension(e) \in Seq(Octets) /\ Len(EncodeExtension(e)) = ExtensionSize(e)
<1> DEFINE t == <<e.ext_type>>
           l == Octets24(Len(e.value))
           v == e.value
<1>1. EncodeExtension(e) = t \o l \o v
    BY DEF EncodeExtension
<1>2. ExtensionSize(e) = 4 + Len(v)
    BY ExtensionFields
<1>t. t \in Seq(Octets) /\ Len(t) = 1
    BY ExtensionFields
<1>l. l \in Seq(Octets) /\ Len(l) = 3
    <2>1. Len(e.value) \in Words24
        BY ExtensionFields
    <2>2. QED
        BY <2>1, Octets24Facts
<1>v. v \in Seq(Octets) /\ Len(v) \in Nat
    BY ExtensionFields
<1> HIDE DEF t, l, v
<1>3. t \o l \in Seq(Octets) /\ Len(t \o l) = 4
    <2>1. t \o l \in Seq(Octets) /\ Len(t \o l) = Len(t) + Len(l)
        BY <1>t, <1>l, JoinedSeqs
    <2>2. QED
        BY <1>t, <1>l, <2>1
<1>4. t \o l \o v \in Seq(Octets) /\ Len(t \o l \o v) = 4 + Len(v)
    <2>1. t \o l \o v \in Seq(Octets) /\ Len(t \o l \o v) = Len(t \o l) + Len(v)
        BY <1>v, <1>3, JoinedSeqs
    <2>2. QED
        BY <1>v, <1>3, <2>1
<1>5. QED
    BY <1>1, <1>2, <1>4

\* What is decoded from an encoded extension is the extension.
LEMMA ExtensionRoundTrip ==
    ASSUME NEW e \in Extensions \cup Terminators, NEW b \in Seq(Octets),
           NEW i \in Nat, i > 0, Holds(b, i, EncodeExtension(e))
    PROVE  /\ DecodeExtension(From(b, i)) = e
           /\ i <= Len(b) /\ i + ExtensionSize(e) <= Len(b) + 1
<1> DEFINE t == <<e.ext_type>>
           l == Octets24(Len(e.value))
           v == e.value
<1>1. Holds(b, i, t \o l \o v)
    BY DEF EncodeExtension
<1>2. ExtensionSize(e) = 4 + Len(v) /\ e = Extension(e.ext_type, v) /\ e.ext_type \in 0 .. 5
    BY ExtensionFields
<1>t. t \in Seq(Octets) /\ Len(t) = 1
    BY ExtensionFields
<1>l. l \in Seq(Octets) /\ Len(l) = 3
    <2>1. Len(e.value) \in Words24
        BY ExtensionFields
    <2>2. QED
        BY <2>1, Octets24Facts
<1>v. v \in Seq(Octets) /\ Len(v) \in Nat
    BY ExtensionFields
<1>b. Len(b) \in Nat
    BY LenProperties
<1> HIDE DEF t, l, v
<1>3. t \o l \in Seq(Octets) /\ Len(t \o l) = 4
    <2>1. t \o l \in Seq(Octets) /\ Len(t \o l) = Len(t) + Len(l)
        BY <1>t, <1>l, JoinedSeqs
    <2>2. QED
        BY <1>t, <1>l, <2>1
<1>4. Holds(b, i, t \o l) /\ Holds(b, i + 4, v)
    <2>1. Holds(b, i, t \o l) /\ Holds(b, i + Len(t \o l), v)
        BY <1>1, <1>3, <1>v, HoldsParts
    <2>2. QED
        BY <1>3, <2>1
<1>5. Holds(b, i, t) /\ Holds(b, i + 1, l)
    <2>1. Holds(b, i, t) /\ Holds(b, i + Len(t), l)
        BY <1>4, <1>t, <1>l, HoldsParts
    <2>2. QED
        BY <1>t, <2>1
<1>6. b[i] = e.ext_type
    <2>1. Holds(b, i, <<e.ext_type>>)
        BY <1>5 DEF t
    <2>2. QED
        BY <2>1, OneHeld
<1>7. Word24(b, i + 1) = Len(v)
    <2>1. i + 1 \in Nat /\ i + 1 > 0
        OBVIOUS
    <2>2. Len(e.value) \in Words24
        BY ExtensionFields
    <2>3. Holds(b, i + 1, Octets24(Len(e.value)))
        BY <1>5 DEF l
    <2>4. Word24(b, i + 1) = Len(e.value)
        BY <2>1, <2>2, <2>3, Word24Held
    <2>5. QED
        BY <2>4 DEF v
<1>8. SubSeq(b, i + 4, i + 3 + Len(v)) = v
    <2>1. i + 4 \in Nat /\ i + 4 > 0 /\ i + 4 + Len(v) - 1 = i + 3 + Len(v)
        BY <1>v
    <2>2. v \in Seq(Octets)
        BY <1>v
    <2>3. SubSeq(b, i + 4, i + 4 + Len(v) - 1) = v
        BY <1>4, <2>1, <2>2, HoldsPart
    <2>4. QED
        BY <2>1, <2>3
<1>9. i + 4 + Len(v) <= Len(b) + 1
    BY <1>4 DEF Holds
<1>10. i <= Len(b) /\ ~(i + 3 > Len(b)) /\ ~(i + 4 + Len(v) > Len(b) + 1)
    BY <1>v, <1>b, <1>9
<1>11. DecodeExtension(From(b, i)) = Extension(DecodedExtType(b[i]), SubSeq(b, i + 4, i + 3 + Len(v)))
    <2>1. DecodeExtension(From(b, i)) =
              IF i + 3 > Len(b) \/ i + 4 + Word24(b, i + 1) > Len(b) + 1 THEN Error
              ELSE Extension(DecodedExtType(b[i]),
                             SubSeq(b, i + 4, i + 3 + Word24(b, i + 1)))
        BY <1>10, ExtensionAt
    <2>2. QED
        BY <1>7, <1>10, <2>1
<1>12. DecodedExtType(b[i]) = e.ext_type
    BY <1>2, <1>6 DEF DecodedExtType, ExtType
<1>13. i + ExtensionSize(e) <= Len(b) + 1
    BY <1>2, <1>v, <1>9
<1>14. QED
    BY <1>2, <1>8, <1>10, <1>11, <1>12, <1>13

-----------------------------------------------------------------------------
(* Chains.  DecodeChain goes through a datagram by recursion on the place it *)
(* has reached; the lemmas go through it by the last place that is wrong.    *)

\* A set of numbers has a least one: induction, stated about sets.
LEMMA LeastOf ==
    ASSUME NEW T, T \subseteq Nat, T # {}
    PROVE  \E x \in T : \A y \in T : x <= y
<1> DEFINE R == OpToRel(<, Nat)
<1>1. IsWellFoundedOn(R, Nat)
    BY NatLessThanWellFounded
<1>2. \A x, y \in Nat : x < y => <<x, y>> \in R
    BY DEF OpToRel
<1> HIDE DEF R
<1>3. PICK x \in T : \A y \in T : <<y, x>> \notin R
    BY <1>1, WFMin
<1>4. \A y \in T : x \in Nat /\ y \in Nat /\ ~(y < x)
    BY <1>2, <1>3
<1>5. \A y \in T : x <= y
    BY <1>4
<1>6. QED
    BY <1>3, <1>5

\* A bounded one has a greatest.
LEMMA GreatestOf ==
    ASSUME NEW n \in Nat, NEW S, S \subseteq 0 .. n, S # {}
    PROVE  \E x \in S : \A y \in S : y <= x
<1> DEFINE T == {n - y : y \in S}
<1>1. T \subseteq Nat /\ T # {}
    <2>1. \A y \in S : y \in 0 .. n
        OBVIOUS
    <2>2. \A y \in S : n - y \in Nat
        BY <2>1
    <2>3. QED
        BY <2>2
<1>2. PICK m \in T : \A k \in T : m <= k
    <2> HIDE DEF T
    <2>1. QED
        BY <1>1, LeastOf
<1>3. PICK x \in S : m = n - x
    BY <1>2
<1>4. ASSUME NEW y \in S PROVE y <= x
    <2>1. n - y \in T
        OBVIOUS
    <2>2. n - x <= n - y
        BY <1>2, <1>3, <2>1
    <2>3. x \in 0 .. n /\ y \in 0 .. n
        OBVIOUS
    <2>4. QED
        BY <2>2, <2>3
<1>5. QED
    BY <1>4

\* One step of decoding a chain: an extension, and what more says of the rest.
ChainStep(more, b, i) ==
    IF i > Len(b) THEN Error
    ELSE LET e == DecodeExtension(From(b, i))
         IN  IF e = Error THEN Error
             ELSE IF e.ext_type = ExtType.Terminator
             THEN Chain(<<>>, i + ExtensionSize(e))
             ELSE IF more[i + ExtensionSize(e)] = Error THEN Error
             ELSE Chain(<<e>> \o more[i + ExtensionSize(e)].extensions,
                        more[i + ExtensionSize(e)].at)

\* g gives what decodes from place s on.
Decodes(g, b, s) == g = [i \in s .. Len(b) + 1 |-> ChainStep(g, b, i)]

\* DecodeChain is the value of such a function.
LEMMA ChainIsFunction ==
    ASSUME NEW b, NEW s
    PROVE  DecodeChain(b, s) = (CHOOSE g : Decodes(g, b, s))[s]
BY DEF DecodeChain, Decodes, ChainStep

\* Where an extension was decoded, the next place is within reach.
LEMMA NextPlace ==
    ASSUME NEW b \in Seq(Octets), NEW i \in Nat, i > 0, i <= Len(b),
           DecodeExtension(From(b, i)) # Error
    PROVE  LET j == i + ExtensionSize(DecodeExtension(From(b, i)))
           IN  j \in Nat /\ j > i /\ j <= Len(b) + 1
<1> DEFINE e == DecodeExtension(From(b, i))
<1>1. ExtensionSize(e) \in Nat /\ ExtensionSize(e) >= 4 /\ i + ExtensionSize(e) <= Len(b) + 1
    BY ExtensionDecoded
<1> HIDE DEF e
<1>2. i + ExtensionSize(e) \in Nat /\ i + ExtensionSize(e) > i
    BY <1>1
<1>3. QED
    BY <1>1, <1>2 DEF e

\* Two functions that agree after a place agree at it.
LEMMA SameStep ==
    ASSUME NEW b \in Seq(Octets), NEW i \in Nat, i > 0, i <= Len(b) + 1, NEW g, NEW h,
           \A j \in i + 1 .. Len(b) + 1 : g[j] = h[j]
    PROVE  ChainStep(g, b, i) = ChainStep(h, b, i)
<1> DEFINE e == DecodeExtension(From(b, i))
           j == i + ExtensionSize(e)
<1>0. Len(b) \in Nat
    BY LenProperties
<1>1. CASE i > Len(b) \/ e = Error
    BY <1>1 DEF ChainStep
<1>2. CASE ~(i > Len(b)) /\ e # Error
    <2>1. j \in Nat /\ j > i /\ j <= Len(b) + 1
        <3>1. i <= Len(b)
            BY <1>0, <1>2
        <3>2. QED
            BY <1>2, <3>1, NextPlace
    <2> HIDE DEF j
    <2>2. j \in i + 1 .. Len(b) + 1
        BY <1>0, <2>1
    <2>3. g[j] = h[j]
        BY <2>2
    <2> HIDE DEF e
    <2>4. QED
        BY <2>3 DEF ChainStep, j, e
<1>3. QED
    BY <1>1, <1>2

\* Two of them agree where both are defined.
LEMMA DecodesAgree ==
    ASSUME NEW b \in Seq(Octets), NEW s \in Nat, s > 0, NEW r \in Nat, r > 0,
           NEW g, NEW h, Decodes(g, b, s), Decodes(h, b, r),
           NEW i \in Nat, s <= i, r <= i, i <= Len(b) + 1
    PROVE  g[i] = h[i]
<1> DEFINE n == Len(b) + 1
           S == {k \in i .. n : g[k] # h[k]}
<1>0. Len(b) \in Nat /\ n \in Nat
    BY LenProperties
<1>1. g = [k \in s .. n |-> ChainStep(g, b, k)] /\ h = [k \in r .. n |-> ChainStep(h, b, k)]
    BY DEF Decodes
<1>2. SUFFICES ASSUME S # {} PROVE FALSE
    BY <1>0
<1>3. S \subseteq 0 .. n
    BY <1>0
<1>4. PICK x \in S : \A y \in S : y <= x
    <2> HIDE DEF S, n
    <2>1. QED
        BY <1>0, <1>2, <1>3, GreatestOf
<1>5. x \in i .. n /\ g[x] # h[x]
    BY <1>4
<1>6. ASSUME NEW j \in x + 1 .. n PROVE g[j] = h[j]
    <2>1. j \in i .. n /\ ~(j <= x)
        BY <1>0, <1>5
    <2>2. QED
        BY <1>4, <2>1
<1>7. x \in Nat /\ x > 0 /\ x <= Len(b) + 1
    BY <1>0, <1>5
<1>8. ChainStep(g, b, x) = ChainStep(h, b, x)
    BY <1>6, <1>7, SameStep
<1>9. x \in s .. n /\ x \in r .. n
    BY <1>0, <1>5
<1> HIDE DEF n, S
<1>10. g[x] = ChainStep(g, b, x) /\ h[x] = ChainStep(h, b, x)
    BY <1>1, <1>9
<1>11. QED
    BY <1>5, <1>8, <1>10

\* There is one for every place in the datagram.
LEMMA DecodesExists ==
    ASSUME NEW b \in Seq(Octets), NEW s \in Nat, s > 0, s <= Len(b) + 1
    PROVE  \E g : Decodes(g, b, s)
<1> DEFINE n == Len(b) + 1
           S == {k \in s .. n : ~ \E g : Decodes(g, b, k)}
<1>0. Len(b) \in Nat /\ n \in Nat /\ s \in s .. n
    BY LenProperties
<1>1. SUFFICES ASSUME S # {} PROVE FALSE
    BY <1>0
<1>2. S \subseteq 0 .. n
    BY <1>0
<1>3. PICK x \in S : \A y \in S : y <= x
    <2> HIDE DEF S, n
    <2>1. QED
        BY <1>0, <1>1, <1>2, GreatestOf
<1>4. x \in s .. n /\ x \in Nat /\ x > 0 /\ x <= Len(b) + 1 /\ ~ \E g : Decodes(g, b, x)
    BY <1>0, <1>3
<1>5. CASE x = n
    <2> DEFINE g == [i \in x .. n |-> Error]
    <2>1. \A i \in x .. n : ChainStep(g, b, i) = Error
        <3>1. \A i \in x .. n : i > Len(b)
            BY <1>0, <1>5
        <3>2. QED
            BY <3>1 DEF ChainStep
    <2>2. g = [i \in x .. n |-> ChainStep(g, b, i)]
        BY <2>1
    <2> HIDE DEF g
    <2>3. Decodes(g, b, x)
        BY <2>2 DEF Decodes
    <2>4. QED
        BY <1>4, <2>3
<1>6. CASE x # n
    <2>1. x + 1 \in s .. n /\ ~(x + 1 <= x)
        BY <1>0, <1>4, <1>6
    <2>2. PICK h : Decodes(h, b, x + 1)
        BY <1>3, <2>1
    <2> DEFINE g == [i \in x .. n |-> IF i = x THEN ChainStep(h, b, x) ELSE h[i]]
    <2>3. h = [i \in x + 1 .. n |-> ChainStep(h, b, i)]
        BY <2>2 DEF Decodes
    <2>4. ASSUME NEW j \in x + 1 .. n PROVE g[j] = h[j]
        <3>1. j \in x .. n /\ j # x
            BY <1>0, <1>4
        <3>2. QED
            BY <3>1
    <2>5. ASSUME NEW i \in x .. n PROVE g[i] = ChainStep(g, b, i)
        <3>1. i \in Nat /\ i > 0 /\ i <= Len(b) + 1
            BY <1>0, <1>4
        <3>2. ASSUME NEW j \in i + 1 .. Len(b) + 1 PROVE h[j] = g[j]
            <4>1. j \in x + 1 .. n
                BY <1>0, <1>4, <3>1
            <4>2. QED
                BY <2>4, <4>1
        <3>3. ChainStep(h, b, i) = ChainStep(g, b, i)
            <4> HIDE DEF g
            <4>1. QED
                BY <3>1, <3>2, SameStep
        <3>4. g[i] = ChainStep(h, b, i)
            <4>1. CASE i = x
                BY <4>1
            <4>2. CASE i # x
                <5>1. i \in x + 1 .. n
                    BY <1>0, <1>4, <3>1, <4>2
                <5>2. h[i] = ChainStep(h, b, i)
                    <6> HIDE DEF n
                    <6>1. QED
                        BY <2>3, <5>1
                <5>3. QED
                    BY <4>2, <5>2
            <4>3. QED
                BY <4>1, <4>2
        <3>5. QED
            BY <3>3, <3>4
    <2>6. g = [i \in x .. n |-> ChainStep(g, b, i)]
        BY <2>5
    <2> HIDE DEF g
    <2>7. Decodes(g, b, x)
        BY <2>6 DEF Decodes
    <2>8. QED
        BY <1>4, <2>7
<1>7. QED
    BY <1>5, <1>6

\* DecodeChain satisfies the equation it is defined by.
LEMMA ChainUnfolds ==
    ASSUME NEW b \in Seq(Octets), NEW i \in Nat, i > 0, i <= Len(b) + 1
    PROVE  DecodeChain(b, i) = ChainStep([j \in 1 .. Len(b) + 1 |-> DecodeChain(b, j)], b, i)
<1> DEFINE n == Len(b) + 1
           F(s) == CHOOSE g : Decodes(g, b, s)
           D == [j \in 1 .. n |-> DecodeChain(b, j)]
<1>0. Len(b) \in Nat /\ n \in Nat /\ i \in i .. n
    BY LenProperties
<1>1. ASSUME NEW s \in Nat, s > 0, s <= n PROVE Decodes(F(s), b, s)
    <2>1. \E g : Decodes(g, b, s)
        BY <1>1, DecodesExists
    <2>2. QED
        BY <2>1
<1>2. ASSUME NEW s PROVE DecodeChain(b, s) = F(s)[s]
    BY ChainIsFunction
<1>3. Decodes(F(i), b, i)
    BY <1>1
<1>4. ASSUME NEW j \in i + 1 .. Len(b) + 1 PROVE F(i)[j] = D[j]
    <2>1. j \in Nat /\ j > 0 /\ j <= n /\ i <= j /\ j <= j /\ j \in 1 .. n
        BY <1>0
    <2>2. Decodes(F(j), b, j)
        BY <1>1, <2>1
    <2> HIDE DEF F, n
    <2>3. F(i)[j] = F(j)[j]
        BY <1>3, <2>1, <2>2, DecodesAgree DEF n
    <2>4. QED
        BY <1>2, <2>1, <2>3
<1>5. F(i)[i] = ChainStep(F(i), b, i)
    <2> DEFINE f == F(i)
    <2>1. f = [k \in i .. n |-> ChainStep(f, b, k)]
        BY <1>3 DEF Decodes
    <2> HIDE DEF f, n
    <2>2. f[i] = ChainStep(f, b, i)
        BY <1>0, <2>1
    <2>3. QED
        BY <2>2 DEF f
<1>6. ChainStep(F(i), b, i) = ChainStep(D, b, i)
    <2> HIDE DEF F, D
    <2>1. QED
        BY <1>4, SameStep
<1>7. QED
    BY <1>2, <1>5, <1>6

-----------------------------------------------------------------------------
(* Encoded chains. *)

\* g joins the first n of the sequences ss, one after the other.
Flattens(g, ss, n) == g = [i \in 1 .. n |-> IF i = 1 THEN ss[i] ELSE g[i - 1] \o ss[i]]

\* FlattenSeq is the last value of such a function.
LEMMA FlattenIsFunction ==
    ASSUME NEW ss, Len(ss) # 0
    PROVE  FlattenSeq(ss) = (CHOOSE g : Flattens(g, ss, Len(ss)))[Len(ss)]
BY DEF FlattenSeq, Flattens

\* There is one for any number of sequences.
LEMMA FlattensExists ==
    ASSUME NEW ss, NEW n \in Nat, n > 0
    PROVE  \E g : Flattens(g, ss, n)
<1> DEFINE S == {k \in 1 .. n : \E g : Flattens(g, ss, k)}
<1>1. 1 \in S
    <2> DEFINE g == [i \in 1 .. 1 |-> ss[i]]
    <2>1. g = [i \in 1 .. 1 |-> IF i = 1 THEN ss[i] ELSE g[i - 1] \o ss[i]]
        OBVIOUS
    <2> HIDE DEF g
    <2>2. Flattens(g, ss, 1)
        BY <2>1 DEF Flattens
    <2>3. QED
        BY <2>2
<1>2. S \subseteq 0 .. n
    OBVIOUS
<1>3. PICK x \in S : \A y \in S : y <= x
    <2> HIDE DEF S
    <2>1. QED
        BY <1>1, <1>2, GreatestOf
<1>4. PICK h : Flattens(h, ss, x)
    BY <1>3
<1>5. x \in Nat /\ x > 0 /\ x <= n
    BY <1>3
<1>6. CASE x < n
    <2> DEFINE g == [i \in 1 .. x + 1 |-> IF i = x + 1 THEN h[x] \o ss[x + 1] ELSE h[i]]
    <2>1. h = [i \in 1 .. x |-> IF i = 1 THEN ss[i] ELSE h[i - 1] \o ss[i]]
        BY <1>4 DEF Flattens
    <2>2. ASSUME NEW i \in 1 .. x + 1
          PROVE  g[i] = IF i = 1 THEN ss[i] ELSE g[i - 1] \o ss[i]
        <3>1. CASE i = x + 1
            <4>1. x \in 1 .. x + 1 /\ x # x + 1 /\ i - 1 = x /\ i # 1
                BY <1>5, <3>1
            <4>2. g[x] = h[x]
                BY <4>1
            <4>3. g[i] = h[x] \o ss[i]
                BY <3>1
            <4> HIDE DEF g
            <4>4. QED
                BY <4>1, <4>2, <4>3
        <3>2. CASE i # x + 1
            <4>1. i \in 1 .. x
                BY <1>5, <3>2
            <4>2. g[i] = h[i]
                BY <3>2
            <4>3. h[i] = IF i = 1 THEN ss[i] ELSE h[i - 1] \o ss[i]
                BY <2>1, <4>1
            <4>4. i # 1 => i - 1 \in 1 .. x + 1 /\ i - 1 # x + 1
                BY <1>5, <4>1
            <4>5. i # 1 => g[i - 1] = h[i - 1]
                BY <4>4
            <4> HIDE DEF g
            <4>6. QED
                BY <4>2, <4>3, <4>5
        <3>3. QED
            BY <3>1, <3>2
    <2>3. g = [i \in 1 .. x + 1 |-> IF i = 1 THEN ss[i] ELSE g[i - 1] \o ss[i]]
        BY <2>2
    <2> HIDE DEF g
    <2>4. Flattens(g, ss, x + 1)
        BY <2>3 DEF Flattens
    <2>5. x + 1 \in S
        BY <1>5, <1>6, <2>4
    <2>6. QED
        BY <1>3, <1>5, <2>5
<1>7. CASE x = n
    BY <1>4, <1>7
<1>8. QED
    BY <1>5, <1>6, <1>7

\* What a sequence of sequences is put together from, step by step.
LEMMA FlattenSteps ==
    ASSUME NEW ss \in Seq(Seq(Octets)), ss # <<>>
    PROVE  \E f : /\ FlattenSeq(ss) = f[Len(ss)]
                  /\ f[1] = ss[1]
                  /\ \A i \in 2 .. Len(ss) : f[i] = f[i - 1] \o ss[i]
                  /\ \A i \in 1 .. Len(ss) : f[i] \in Seq(Octets)
<1> DEFINE n == Len(ss)
           f == CHOOSE g : Flattens(g, ss, n)
<1>1. n \in Nat /\ n > 0 /\ \A i \in 1 .. n : ss[i] \in Seq(Octets)
    BY LenProperties, ElementOfSeq, EmptySeq
<1>2. FlattenSeq(ss) = f[n]
    BY <1>1, FlattenIsFunction
<1>3. Flattens(f, ss, n)
    <2>1. \E g : Flattens(g, ss, n)
        <3> HIDE DEF n
        <3>1. QED
            BY <1>1, FlattensExists
    <2>2. QED
        BY <2>1
<1> HIDE DEF f, n
<1>4. \A i \in 1 .. n : f[i] = IF i = 1 THEN ss[i] ELSE f[i - 1] \o ss[i]
    BY <1>3 DEF Flattens
<1>5. f[1] = ss[1] /\ 1 \in 1 .. n
    BY <1>1, <1>4
<1>6. ASSUME NEW i \in 2 .. n PROVE f[i] = f[i - 1] \o ss[i]
    <2>1. i \in 1 .. n /\ i # 1
        BY <1>1
    <2>2. QED
        BY <1>4, <2>1
<1>7. \A i \in 1 .. n : f[i] \in Seq(Octets)
    <2> DEFINE T == {i \in 1 .. n : f[i] \notin Seq(Octets)}
    <2>1. SUFFICES ASSUME T # {} PROVE FALSE
        OBVIOUS
    <2>2. T \subseteq Nat
        OBVIOUS
    <2>3. PICK x \in T : \A y \in T : x <= y
        <3> HIDE DEF T
        <3>1. QED
            BY <2>1, <2>2, LeastOf
    <2>4. x # 1
        BY <1>1, <1>5
    <2>5. x \in 2 .. n /\ x - 1 \in 1 .. n /\ x \in 1 .. n /\ ~(x <= x - 1)
        <3>1. x \in 1 .. n
            BY <2>3
        <3>2. QED
            BY <1>1, <2>4, <3>1
    <2>6. f[x - 1] \in Seq(Octets)
        BY <2>3, <2>5
    <2>7. f[x] = f[x - 1] \o ss[x] /\ ss[x] \in Seq(Octets)
        BY <1>1, <1>6, <2>5
    <2>8. f[x] \in Seq(Octets)
        BY <2>6, <2>7, JoinedSeqs
    <2>9. QED
        BY <2>3, <2>8
<1>8. QED
    BY <1>2, <1>5, <1>6, <1>7 DEF n

\* Nothing joined is nothing.
LEMMA FlattenEmpty == FlattenSeq(<<>>) = <<>>
BY DEF FlattenSeq

\* Sequences of octets join to one.
LEMMA FlattenIsSeq ==
    ASSUME NEW ss \in Seq(Seq(Octets))
    PROVE  FlattenSeq(ss) \in Seq(Octets)
<1>1. CASE ss = <<>>
    BY <1>1, FlattenEmpty, EmptySeq
<1>2. CASE ss # <<>>
    <2>1. PICK f : FlattenSeq(ss) = f[Len(ss)] /\ \A i \in 1 .. Len(ss) : f[i] \in Seq(Octets)
        BY <1>2, FlattenSteps
    <2>2. Len(ss) \in 1 .. Len(ss)
        BY <1>2, LenProperties, EmptySeq
    <2>3. QED
        BY <2>1, <2>2
<1>3. QED
    BY <1>1, <1>2

\* The first sequence comes first.
LEMMA FlattenFirst ==
    ASSUME NEW s \in Seq(Octets), NEW ss \in Seq(Seq(Octets))
    PROVE  FlattenSeq(<<s>> \o ss) = s \o FlattenSeq(ss)
<1> DEFINE tt == <<s>> \o ss
           n == Len(ss)
<1>0. n \in Nat
    BY LenProperties
<1>1. tt \in Seq(Seq(Octets)) /\ Len(tt) = n + 1 /\ tt[1] = s
      /\ \A i \in 1 .. n : tt[i + 1] = ss[i]
    <2> DEFINE p == <<s>>
    <2>1. p \in Seq(Seq(Octets)) /\ Len(p) = 1 /\ p[1] = s
        OBVIOUS
    <2> HIDE DEF p
    <2>2. p \o ss \in Seq(Seq(Octets)) /\ Len(p \o ss) = 1 + n
          /\ \A i \in 1 .. 1 + n : (p \o ss)[i] = IF i <= 1 THEN p[i] ELSE ss[i - 1]
        <3> DEFINE S == Seq(Octets)
        <3>1. p \in Seq(S) /\ ss \in Seq(S)
            BY <2>1
        <3> HIDE DEF S
        <3>2. p \o ss \in Seq(S) /\ Len(p \o ss) = Len(p) + Len(ss)
              /\ \A i \in 1 .. Len(p) + Len(ss) :
                    (p \o ss)[i] = IF i <= Len(p) THEN p[i] ELSE ss[i - Len(p)]
            BY <3>1, ConcatProperties
        <3>3. QED
            BY <2>1, <3>2 DEF S
    <2>3. (p \o ss)[1] = s
        BY <1>0, <2>1, <2>2
    <2>4. ASSUME NEW i \in 1 .. n PROVE (p \o ss)[i + 1] = ss[i]
        <3>1. i + 1 \in 1 .. 1 + n /\ ~(i + 1 <= 1) /\ (i + 1) - 1 = i
            BY <1>0
        <3>2. QED
            BY <2>2, <3>1
    <2>5. QED
        BY <1>0, <2>2, <2>3, <2>4 DEF p
<1>2. tt # <<>>
    BY <1>0, <1>1
<1> HIDE DEF tt
<1>3. PICK h : /\ FlattenSeq(tt) = h[Len(tt)]
               /\ h[1] = tt[1]
               /\ \A i \in 2 .. Len(tt) : h[i] = h[i - 1] \o tt[i]
    <2>1. tt \in Seq(Seq(Octets))
        BY <1>1
    <2>2. PICK f : /\ FlattenSeq(tt) = f[Len(tt)]
                   /\ f[1] = tt[1]
                   /\ \A i \in 2 .. Len(tt) : f[i] = f[i - 1] \o tt[i]
                   /\ \A i \in 1 .. Len(tt) : f[i] \in Seq(Octets)
        BY <1>2, <2>1, FlattenSteps
    <2>3. QED
        BY <2>2
<1>4. CASE ss = <<>>
    <2>1. n = 0
        BY <1>4
    <2>2. FlattenSeq(tt) = s
        BY <1>1, <1>3, <2>1
    <2>3. s \o <<>> = s
        BY ConcatEmptySeq
    <2>4. QED
        BY <1>4, <2>2, <2>3, FlattenEmpty DEF tt
<1>5. CASE ss # <<>>
    <2>0. n > 0 /\ \A i \in 1 .. n : ss[i] \in Seq(Octets)
        BY <1>5, LenProperties, EmptySeq, ElementOfSeq
    <2>1. PICK f : /\ FlattenSeq(ss) = f[n]
                   /\ f[1] = ss[1]
                   /\ \A i \in 2 .. n : f[i] = f[i - 1] \o ss[i]
                   /\ \A i \in 1 .. n : f[i] \in Seq(Octets)
        BY <1>5, FlattenSteps
    <2> DEFINE T == {i \in 1 .. n : h[i + 1] # s \o f[i]}
    <2>2. T = {}
        <3>1. SUFFICES ASSUME T # {} PROVE FALSE
            OBVIOUS
        <3>2. T \subseteq Nat
            OBVIOUS
        <3>3. PICK x \in T : \A y \in T : x <= y
            <4> HIDE DEF T
            <4>1. QED
                BY <3>1, <3>2, LeastOf
        <3>4. x \in 1 .. n /\ x + 1 \in 2 .. n + 1 /\ (x + 1) - 1 = x
            BY <1>0, <3>3
        <3>5. h[x + 1] = h[x] \o ss[x]
            <4>1. h[x + 1] = h[(x + 1) - 1] \o tt[x + 1]
                BY <1>1, <1>3, <3>4
            <4>2. QED
                BY <1>1, <3>4, <4>1
        <3>6. CASE x = 1
            <4>1. h[x + 1] = s \o f[x]
                BY <1>1, <1>3, <2>1, <3>5, <3>6
            <4>2. QED
                BY <3>3, <4>1
        <3>7. CASE x # 1
            <4>1. x \in 2 .. n /\ x - 1 \in 1 .. n /\ ~(x <= x - 1) /\ (x - 1) + 1 = x
                BY <3>4, <3>7
            <4>2. h[(x - 1) + 1] = s \o f[x - 1]
                BY <3>3, <4>1
            <4>3. h[x] = s \o f[x - 1]
                BY <4>1, <4>2
            <4>4. f[x] = f[x - 1] \o ss[x]
                BY <2>1, <4>1
            <4>5. f[x - 1] \in Seq(Octets) /\ ss[x] \in Seq(Octets)
                BY <2>0, <2>1, <3>4, <4>1
            <4>6. (s \o f[x - 1]) \o ss[x] = s \o (f[x - 1] \o ss[x])
                <5> DEFINE u == f[x - 1]
                           v == ss[x]
                <5>1. u \in Seq(Octets) /\ v \in Seq(Octets)
                    BY <4>5
                <5> HIDE DEF u, v
                <5>2. (s \o u) \o v = s \o (u \o v)
                    BY <5>1, JoinAssociates
                <5>3. QED
                    BY <5>2 DEF u, v
            <4>7. h[x + 1] = s \o f[x]
                BY <3>5, <4>3, <4>4, <4>6
            <4>8. QED
                BY <3>3, <4>7
        <3>8. QED
            BY <3>6, <3>7
    <2>3. n \in 1 .. n
        BY <1>0, <2>0
    <2>4. h[n + 1] = s \o f[n]
        BY <2>2, <2>3
    <2>5. QED
        BY <1>1, <1>3, <2>1, <2>4 DEF tt
<1>6. QED
    BY <1>4, <1>5

\* What ends a chain.
End == Extension(ExtType.Terminator, <<>>)

\* The extension that ends a chain takes four octets.
LEMMA EndFacts ==
    /\ End \in Terminators /\ End.ext_type = ExtType.Terminator
    /\ ExtensionSize(End) = 4
    /\ EncodeExtension(End) \in Seq(Octets) /\ Len(EncodeExtension(End)) = 4
<1>1. <<>> \in Values
    <2>1. <<>> \in Seq(Octets) /\ Len(<<>>) = 0
        BY EmptySeq
    <2>2. 0 \in Words24
        BY DEF Words24
    <2>3. QED
        BY <2>1, <2>2 DEF Values
<1>2. End \in Terminators /\ End.ext_type = ExtType.Terminator /\ End.value = <<>>
    BY <1>1 DEF End, Extension, Terminators
<1>3. ExtensionSize(End) = 4
    BY <1>2 DEF ExtensionSize
<1>4. QED
    BY <1>2, <1>3, ExtensionSeq

\* The extensions of a chain, each encoded.
Encoded(es) == [i \in DOMAIN es |-> EncodeExtension(es[i])]

\* They are sequences of octets.
LEMMA EncodedFacts ==
    ASSUME NEW es \in Seq(Extensions)
    PROVE  /\ Encoded(es) \in Seq(Seq(Octets)) /\ Len(Encoded(es)) = Len(es)
           /\ \A i \in 1 .. Len(es) : Encoded(es)[i] = EncodeExtension(es[i])
<1>1. Len(es) \in Nat /\ DOMAIN es = 1 .. Len(es) /\ \A i \in 1 .. Len(es) : es[i] \in Extensions
    BY LenProperties, ElementOfSeq
<1>2. \A i \in 1 .. Len(es) : EncodeExtension(es[i]) \in Seq(Octets)
    BY <1>1, ExtensionSeq
<1>3. Encoded(es) = [i \in 1 .. Len(es) |-> EncodeExtension(es[i])]
    BY <1>1 DEF Encoded
<1>4. [i \in 1 .. Len(es) |-> EncodeExtension(es[i])] \in Seq(Seq(Octets))
    <2> DEFINE n == Len(es)
               S == Seq(Octets)
               f == [i \in 1 .. n |-> EncodeExtension(es[i])]
    <2>1. n \in Nat /\ \A i \in 1 .. n : EncodeExtension(es[i]) \in S
        BY <1>1, <1>2
    <2> HIDE DEF n, S
    <2>2. f \in [1 .. n -> S]
        BY <2>1
    <2> HIDE DEF f
    <2>3. f \in Seq(S)
        BY <2>1, <2>2
    <2>4. QED
        BY <2>3 DEF n, S, f
<1>5. Encoded(es) \in Seq(Seq(Octets))
    BY <1>3, <1>4
<1>6. DOMAIN Encoded(es) = 1 .. Len(es)
    BY <1>3
<1>7. Len(Encoded(es)) = Len(es)
    BY <1>1, <1>5, <1>6, LenProperties
<1>8. QED
    BY <1>3, <1>5, <1>7

\* An encoded chain: the encoded extensions and the end.
LEMMA ChainSeq ==
    ASSUME NEW es \in Seq(Extensions)
    PROVE  /\ EncodeChain(es) \in Seq(Octets)
           /\ EncodeChain(es) = FlattenSeq(Encoded(es)) \o EncodeExtension(End)
<1>1. EncodeChain(es) = FlattenSeq(Encoded(es)) \o EncodeExtension(End)
    BY DEF EncodeChain, Encoded, End
<1>2. FlattenSeq(Encoded(es)) \in Seq(Octets)
    BY EncodedFacts, FlattenIsSeq
<1>3. EncodeExtension(End) \in Seq(Octets)
    BY EndFacts
<1>4. FlattenSeq(Encoded(es)) \o EncodeExtension(End) \in Seq(Octets)
    BY <1>2, <1>3, JoinedSeqs
<1>5. QED
    BY <1>1, <1>4

\* The empty chain is its end alone.
LEMMA EncodeEmptyChain == EncodeChain(<<>>) = EncodeExtension(End)
<1>1. <<>> \in Seq(Extensions)
    BY EmptySeq
<1>2. Encoded(<<>>) = <<>>
    <2>1. Encoded(<<>>) \in Seq(Seq(Octets)) /\ Len(Encoded(<<>>)) = Len(<<>>)
        BY <1>1, EncodedFacts
    <2>2. Len(<<>>) = 0
        BY <1>1, EmptySeq
    <2>3. QED
        BY <2>1, <2>2, EmptySeq
<1>3. EncodeChain(<<>>) = <<>> \o EncodeExtension(End)
    BY <1>1, <1>2, ChainSeq, FlattenEmpty
<1>4. <<>> \o EncodeExtension(End) = EncodeExtension(End)
    BY EndFacts, ConcatEmptySeq
<1>5. QED
    BY <1>3, <1>4

\* The first extension comes first.
LEMMA EncodeLongerChain ==
    ASSUME NEW e \in Extensions, NEW es \in Seq(Extensions)
    PROVE  /\ <<e>> \o es \in Seq(Extensions) /\ Len(<<e>> \o es) = Len(es) + 1
           /\ EncodeChain(<<e>> \o es) = EncodeExtension(e) \o EncodeChain(es)
<1> DEFINE p == <<e>>
           n == Len(es)
           fs == p \o es
           x == EncodeExtension(e)
           ss == Encoded(es)
           q == <<x>>
           z == EncodeExtension(End)
<1>0. n \in Nat
    BY LenProperties
<1>1. p \in Seq(Extensions) /\ Len(p) = 1 /\ p[1] = e
    OBVIOUS
<1>2. x \in Seq(Octets)
    BY ExtensionSeq
<1>3. q \in Seq(Seq(Octets)) /\ Len(q) = 1 /\ q[1] = x
    <2> HIDE DEF x
    <2>1. QED
        BY <1>2
<1>4. ss \in Seq(Seq(Octets)) /\ Len(ss) = n /\ \A i \in 1 .. n : ss[i] = EncodeExtension(es[i])
    BY EncodedFacts
<1> HIDE DEF p, q, ss, x
<1>5. fs \in Seq(Extensions) /\ Len(fs) = n + 1
      /\ \A i \in 1 .. n + 1 : fs[i] = IF i <= 1 THEN e ELSE es[i - 1]
    <2>1. fs \in Seq(Extensions) /\ Len(fs) = Len(p) + n
          /\ \A i \in 1 .. Len(p) + n : fs[i] = IF i <= Len(p) THEN p[i] ELSE es[i - Len(p)]
        BY <1>1, ConcatProperties
    <2>2. Len(p) + n = n + 1
        BY <1>0, <1>1
    <2> HIDE DEF fs
    <2>3. QED
        BY <1>0, <1>1, <2>1, <2>2
<1> HIDE DEF fs
<1>6. Encoded(fs) \in Seq(Seq(Octets)) /\ Len(Encoded(fs)) = n + 1
      /\ \A i \in 1 .. n + 1 : Encoded(fs)[i] = EncodeExtension(fs[i])
    BY <1>5, EncodedFacts
<1>7. q \o ss \in Seq(Seq(Octets)) /\ Len(q \o ss) = n + 1
      /\ \A i \in 1 .. n + 1 : (q \o ss)[i] = IF i <= 1 THEN x ELSE ss[i - 1]
    <2> DEFINE S == Seq(Octets)
    <2>1. q \in Seq(S) /\ ss \in Seq(S)
        BY <1>3, <1>4
    <2> HIDE DEF S
    <2>2. q \o ss \in Seq(S) /\ Len(q \o ss) = Len(q) + Len(ss)
          /\ \A i \in 1 .. Len(q) + Len(ss) :
                (q \o ss)[i] = IF i <= Len(q) THEN q[i] ELSE ss[i - Len(q)]
        BY <2>1, ConcatProperties
    <2>3. Len(q) + Len(ss) = n + 1
        BY <1>0, <1>3, <1>4
    <2>4. QED
        BY <1>0, <1>3, <2>2, <2>3 DEF S
<1>8. Encoded(fs) = q \o ss
    <2> DEFINE a == Encoded(fs)
               c == q \o ss
    <2>1. ASSUME NEW i \in 1 .. n + 1 PROVE a[i] = c[i]
        <3>1. CASE i = 1
            <4>1. i <= 1
                BY <3>1
            <4>2. a[i] = EncodeExtension(e) /\ c[i] = x
                BY <1>5, <1>6, <1>7, <4>1
            <4>3. QED
                BY <4>2 DEF x
        <3>2. CASE i # 1
            <4>1. i - 1 \in 1 .. n /\ ~(i <= 1)
                BY <1>0, <3>2
            <4>2. a[i] = EncodeExtension(es[i - 1])
                BY <1>5, <1>6, <4>1
            <4>3. c[i] = ss[i - 1]
                BY <1>7, <4>1
            <4>4. QED
                BY <1>4, <4>1, <4>2, <4>3
        <3>3. QED
            BY <3>1, <3>2
    <2> DEFINE S == Seq(Octets)
    <2>2. a \in Seq(S) /\ c \in Seq(S) /\ Len(a) = n + 1 /\ Len(c) = n + 1
        BY <1>6, <1>7
    <2> HIDE DEF a, c, S
    <2>3. a = c
        BY <2>1, <2>2, SeqEqual
    <2>4. QED
        BY <2>3 DEF a, c
<1>9. FlattenSeq(Encoded(fs)) = x \o FlattenSeq(ss)
    BY <1>2, <1>4, <1>8, FlattenFirst DEF q
<1> DEFINE r == FlattenSeq(ss)
<1>10. r \in Seq(Octets)
    BY <1>4, FlattenIsSeq
<1>11. z \in Seq(Octets)
    BY EndFacts
<1>12. EncodeChain(fs) = FlattenSeq(Encoded(fs)) \o z
    BY <1>5, ChainSeq
<1>13. EncodeChain(es) = r \o z
    BY ChainSeq DEF ss
<1> HIDE DEF r, z
<1>14. (x \o r) \o z = x \o (r \o z)
    BY <1>2, <1>10, <1>11, JoinAssociates
<1>15. EncodeChain(fs) = x \o EncodeChain(es)
    BY <1>9, <1>12, <1>13, <1>14 DEF r
<1>16. QED
    BY <1>5, <1>15 DEF fs, p, x

\* g adds up the sizes of the extensions es, one after the other.
Sums(g, es) ==
    g = [i \in 0 .. Len(es) |-> IF i = 0 THEN 0 ELSE g[i - 1] + ExtensionSize(es[i])]

\* ExtensionsSize is the last value of such a function.
LEMMA SizeIsFunction ==
    ASSUME NEW es
    PROVE  ExtensionsSize(es) = (CHOOSE g : Sums(g, es))[Len(es)]
BY DEF ExtensionsSize, Sums

\* One of them gives the lengths of what is encoded.
LEMMA LengthsSum ==
    ASSUME NEW es \in Seq(Extensions)
    PROVE  \E g : Sums(g, es) /\ g[Len(es)] = Len(FlattenSeq(Encoded(es)))
<1> DEFINE n == Len(es)
           ss == Encoded(es)
<1>1. n \in Nat /\ ss \in Seq(Seq(Octets)) /\ Len(ss) = n
      /\ \A i \in 1 .. n : ss[i] \in Seq(Octets) /\ Len(ss[i]) = ExtensionSize(es[i])
    BY LenProperties, ElementOfSeq, EncodedFacts, ExtensionSeq
<1> HIDE DEF ss
<1>2. CASE n = 0
    <2> DEFINE g == [i \in 0 .. n |-> 0]
    <2>1. \A i \in 0 .. n : i = 0
        BY <1>2
    <2>2. g = [i \in 0 .. n |-> IF i = 0 THEN 0 ELSE g[i - 1] + ExtensionSize(es[i])]
        BY <2>1
    <2>3. g[n] = 0
        BY <1>2
    <2>4. ss = <<>>
        BY <1>1, <1>2, EmptySeq
    <2>5. Len(FlattenSeq(ss)) = 0
        BY <2>4, FlattenEmpty, EmptySeq
    <2> HIDE DEF g
    <2>6. QED
        BY <2>2, <2>3, <2>5 DEF Sums, ss
<1>3. CASE n # 0
    <2>1. ss # <<>>
        BY <1>1, <1>3, EmptySeq
    <2>2. PICK f : /\ FlattenSeq(ss) = f[n] /\ f[1] = ss[1]
                   /\ \A i \in 2 .. n : f[i] = f[i - 1] \o ss[i]
                   /\ \A i \in 1 .. n : f[i] \in Seq(Octets)
        <3> HIDE DEF n
        <3>1. QED
            BY <1>1, <2>1, FlattenSteps
    <2> DEFINE g == [i \in 0 .. n |-> IF i = 0 THEN 0 ELSE Len(f[i])]
    <2>3. ASSUME NEW i \in 0 .. n, i # 0 PROVE g[i] = g[i - 1] + ExtensionSize(es[i])
        <3>1. i \in 1 .. n /\ i - 1 \in 0 .. n /\ g[i] = Len(f[i])
            BY <1>1, <2>3
        <3>2. Len(ss[i]) = ExtensionSize(es[i]) /\ ss[i] \in Seq(Octets)
            BY <1>1, <3>1
        <3>3. CASE i = 1
            <4>1. g[i - 1] = 0 /\ Len(f[i]) = ExtensionSize(es[i])
                BY <2>2, <3>1, <3>2, <3>3
            <4>2. Len(ss[i]) \in Nat
                BY <3>2, LenProperties
            <4> HIDE DEF g, n
            <4>3. QED
                BY <3>1, <3>2, <4>1, <4>2
        <3>4. CASE i # 1
            <4>1. i \in 2 .. n /\ i - 1 \in 1 .. n /\ i - 1 # 0
                BY <1>1, <3>1, <3>4
            <4>2. g[i - 1] = Len(f[i - 1])
                BY <3>1, <4>1
            <4>3. f[i] = f[i - 1] \o ss[i] /\ f[i - 1] \in Seq(Octets)
                BY <2>2, <4>1
            <4>4. Len(f[i]) = Len(f[i - 1]) + Len(ss[i])
                BY <3>2, <4>3, JoinedSeqs
            <4> HIDE DEF g, n
            <4>5. QED
                BY <3>1, <3>2, <4>2, <4>4
        <3>5. QED
            BY <3>3, <3>4
    <2>4. g[0] = 0 /\ g[n] = Len(f[n])
        BY <1>1, <1>3
    <2>5. g = [i \in 0 .. n |-> IF i = 0 THEN 0 ELSE g[i - 1] + ExtensionSize(es[i])]
        <3>1. \A i \in 0 .. n : g[i] = IF i = 0 THEN 0 ELSE g[i - 1] + ExtensionSize(es[i])
            BY <2>3, <2>4
        <3>2. QED
            BY <3>1
    <2> HIDE DEF g
    <2>6. QED
        BY <2>2, <2>4, <2>5 DEF Sums, ss
<1>4. QED
    BY <1>2, <1>3

\* There is only one.
LEMMA SumIsUnique ==
    ASSUME NEW es \in Seq(Extensions), NEW g, NEW h, Sums(g, es), Sums(h, es)
    PROVE  g[Len(es)] = h[Len(es)]
<1> DEFINE n == Len(es)
           T == {i \in 0 .. n : g[i] # h[i]}
<1>1. n \in Nat
    BY LenProperties
<1>2. \A i \in 0 .. n : /\ g[i] = IF i = 0 THEN 0 ELSE g[i - 1] + ExtensionSize(es[i])
                        /\ h[i] = IF i = 0 THEN 0 ELSE h[i - 1] + ExtensionSize(es[i])
    BY DEF Sums
<1> HIDE DEF n
<1>3. T = {}
    <2>1. SUFFICES ASSUME T # {} PROVE FALSE
        OBVIOUS
    <2>2. T \subseteq Nat
        BY <1>1
    <2>3. PICK x \in T : \A y \in T : x <= y
        <3> HIDE DEF T
        <3>1. QED
            BY <2>1, <2>2, LeastOf
    <2>4. x \in 0 .. n /\ x # 0 /\ g[x] # h[x]
        BY <1>1, <1>2
    <2>5. x - 1 \in 0 .. n /\ ~(x <= x - 1)
        BY <1>1, <2>4
    <2>6. g[x - 1] = h[x - 1]
        BY <2>3, <2>5
    <2>7. QED
        BY <1>2, <2>4, <2>6
<1>4. n \in 0 .. n
    BY <1>1
<1>5. QED
    BY <1>3, <1>4 DEF n

\* What wire_size() adds up for a chain is the length of what encode() writes.
LEMMA EncodedChainSize ==
    ASSUME NEW es \in Seq(Extensions)
    PROVE  Len(EncodeChain(es)) = ExtensionsSize(es) + 4 /\ ExtensionsSize(es) \in Nat
<1> DEFINE h == CHOOSE g : Sums(g, es)
           x == FlattenSeq(Encoded(es))
           z == EncodeExtension(End)
<1>1. PICK g : Sums(g, es) /\ g[Len(es)] = Len(x)
    BY LengthsSum
<1>2. Sums(h, es)
    BY <1>1
<1>3. ExtensionsSize(es) = h[Len(es)]
    BY SizeIsFunction
<1> HIDE DEF h
<1>4. ExtensionsSize(es) = Len(x)
    BY <1>1, <1>2, <1>3, SumIsUnique
<1>5. x \in Seq(Octets) /\ z \in Seq(Octets) /\ Len(z) = 4
    BY EncodedFacts, FlattenIsSeq, EndFacts
<1>6. EncodeChain(es) = x \o z
    BY ChainSeq
<1> HIDE DEF x, z
<1>7. QED
    BY <1>4, <1>5, <1>6, JoinedSeqs, LenProperties

-----------------------------------------------------------------------------
(* Decoded chains. *)

\* No chain is an error.
LEMMA ChainFacts ==
    ASSUME NEW es \in Seq(Extensions), NEW at \in Nat
    PROVE  /\ Chain(es, at) \in Chains /\ Chain(es, at) # Error
           /\ Chain(es, at).extensions = es /\ Chain(es, at).at = at
BY ResultAssumption DEF Chain, Chains

\* The end of a chain, and one extension of it.
LEMMA ChainEnds ==
    ASSUME NEW b \in Seq(Octets), NEW i \in Nat, i > 0, i <= Len(b), NEW e,
           e = DecodeExtension(From(b, i)), e # Error, e.ext_type = ExtType.Terminator
    PROVE  DecodeChain(b, i) = Chain(<<>>, i + ExtensionSize(e))
<1> DEFINE D == [k \in 1 .. Len(b) + 1 |-> DecodeChain(b, k)]
<1>1. Len(b) \in Nat /\ i <= Len(b) + 1 /\ ~(i > Len(b))
    BY LenProperties
<1>2. DecodeChain(b, i) = ChainStep(D, b, i)
    BY <1>1, ChainUnfolds
<1> HIDE DEF D
<1>3. ChainStep(D, b, i) = Chain(<<>>, i + ExtensionSize(e))
    BY <1>1 DEF ChainStep
<1>4. QED
    BY <1>2, <1>3

\* An extension is followed by the rest of the chain.
LEMMA ChainGoesOn ==
    ASSUME NEW b \in Seq(Octets), NEW i \in Nat, i > 0, i <= Len(b), NEW e,
           e = DecodeExtension(From(b, i)), e # Error, e.ext_type # ExtType.Terminator,
           NEW more, more = DecodeChain(b, i + ExtensionSize(e))
    PROVE  /\ more = Error => DecodeChain(b, i) = Error
           /\ more # Error => DecodeChain(b, i) = Chain(<<e>> \o more.extensions, more.at)
<1> DEFINE D == [k \in 1 .. Len(b) + 1 |-> DecodeChain(b, k)]
           j == i + ExtensionSize(e)
<1>1. Len(b) \in Nat /\ i <= Len(b) + 1 /\ ~(i > Len(b))
    BY LenProperties
<1>2. DecodeChain(b, i) = ChainStep(D, b, i)
    BY <1>1, ChainUnfolds
<1>3. j \in Nat /\ j > i /\ j <= Len(b) + 1
    BY NextPlace
<1>4. j \in 1 .. Len(b) + 1
    <2> HIDE DEF j
    <2>1. QED
        BY <1>1, <1>3
<1>5. D[j] = more
    BY <1>4
<1> HIDE DEF D, j
<1>6. ChainStep(D, b, i) =
          IF D[j] = Error THEN Error ELSE Chain(<<e>> \o D[j].extensions, D[j].at)
    BY <1>1 DEF ChainStep, j
<1>7. QED
    BY <1>2, <1>5, <1>6

\* Where nothing decodes, there is no chain.
LEMMA ChainFails ==
    ASSUME NEW b \in Seq(Octets), NEW i \in Nat, i > 0, i <= Len(b) + 1,
           i > Len(b) \/ DecodeExtension(From(b, i)) = Error
    PROVE  DecodeChain(b, i) = Error
<1> DEFINE D == [k \in 1 .. Len(b) + 1 |-> DecodeChain(b, k)]
<1>1. DecodeChain(b, i) = ChainStep(D, b, i)
    BY ChainUnfolds
<1> HIDE DEF D
<1>2. ChainStep(D, b, i) = Error
    BY DEF ChainStep
<1>3. QED
    BY <1>1, <1>2

\* What is decoded from an encoded chain is the chain.
LEMMA ChainRoundTrip ==
    ASSUME NEW b \in Seq(Octets), NEW es \in Seq(Extensions), NEW i \in Nat, i > 0,
           Holds(b, i, EncodeChain(es))
    PROVE  DecodeChain(b, i) = Chain(es, i + Len(EncodeChain(es)))
<1> DEFINE Bad(fs, j) == /\ j > 0 /\ Holds(b, j, EncodeChain(fs))
                         /\ DecodeChain(b, j) # Chain(fs, j + Len(EncodeChain(fs)))
           T == {k \in Nat : \E fs \in Seq(Extensions), j \in Nat : Len(fs) = k /\ Bad(fs, j)}
<1>1. SUFFICES ASSUME T # {} PROVE FALSE
    <2>1. Len(es) \in Nat
        BY LenProperties
    <2>2. ASSUME Bad(es, i) PROVE FALSE
        <3> HIDE DEF Bad
        <3>1. Len(es) \in T
            BY <2>1, <2>2
        <3>2. QED
            BY <1>1, <3>1
    <2>3. QED
        BY <2>2
<1>2. T \subseteq Nat
    OBVIOUS
<1>3. PICK n \in T : \A k \in T : n <= k
    <2> HIDE DEF T
    <2>1. QED
        BY <1>1, <1>2, LeastOf
<1>4. PICK fs \in Seq(Extensions), j \in Nat : Len(fs) = n /\ Bad(fs, j)
    BY <1>3
<1>5. CASE fs = <<>>
    <2>1. Holds(b, j, EncodeExtension(End)) /\ j > 0
        BY <1>4, <1>5, EncodeEmptyChain
    <2>2. DecodeExtension(From(b, j)) = End /\ j <= Len(b)
        BY <2>1, EndFacts, ExtensionRoundTrip
    <2>3. End # Error /\ End.ext_type = ExtType.Terminator
        BY EndFacts, ResultAssumption
    <2>4. DecodeChain(b, j) = Chain(<<>>, j + ExtensionSize(End))
        BY <2>1, <2>2, <2>3, ChainEnds
    <2>5. Len(EncodeChain(fs)) = ExtensionSize(End)
        BY <1>5, EncodeEmptyChain, EndFacts
    <2>6. QED
        BY <1>4, <1>5, <2>4, <2>5
<1>6. CASE fs # <<>>
    <2> DEFINE e == Head(fs)
               gs == Tail(fs)
               x == EncodeExtension(e)
               y == EncodeChain(gs)
    <2>1. e \in Extensions /\ gs \in Seq(Extensions) /\ fs = <<e>> \o gs
        BY <1>6, HeadTailProperties
    <2> HIDE DEF e, gs
    <2>2. EncodeChain(fs) = x \o y /\ n = Len(gs) + 1
        BY <1>4, <2>1, EncodeLongerChain
    <2>3. x \in Seq(Octets) /\ Len(x) = ExtensionSize(e)
        BY <2>1, ExtensionSeq
    <2>4. y \in Seq(Octets)
        BY <2>1, ChainSeq
    <2> HIDE DEF y
    <2>5. Holds(b, j, x) /\ Holds(b, j + Len(x), y) /\ j > 0
        BY <1>4, <2>2, <2>3, <2>4, HoldsParts DEF Bad
    <2>6. DecodeExtension(From(b, j)) = e /\ j <= Len(b)
        BY <2>1, <2>5, ExtensionRoundTrip
    <2> HIDE DEF x
    <2>7. e # Error /\ e.ext_type # ExtType.Terminator
        BY <2>1, ResultAssumption DEF Extensions, ExtType
    <2> DEFINE m == j + ExtensionSize(e)
    <2>8. m \in Nat /\ m > 0 /\ m = j + Len(x) /\ Len(x) \in Nat
        BY <2>3, <2>5, LenProperties
    <2> HIDE DEF m
    <2>9. DecodeChain(b, m) = Chain(gs, m + Len(y))
        <3>1. Len(gs) \in Nat /\ ~(n <= Len(gs))
            BY <2>1, <2>2, LenProperties
        <3>2. ~Bad(gs, m)
            <4> HIDE DEF Bad
            <4>1. ASSUME Bad(gs, m) PROVE Len(gs) \in T
                BY <2>1, <2>8, <3>1, <4>1
            <4>2. QED
                BY <1>3, <3>1, <4>1
        <3>3. Holds(b, m, EncodeChain(gs))
            BY <2>5, <2>8 DEF y
        <3>4. QED
            BY <2>8, <3>2, <3>3 DEF y
    <2>10. Len(y) \in Nat
        BY <2>4, LenProperties
    <2>11. /\ Chain(gs, m + Len(y)) # Error
           /\ Chain(gs, m + Len(y)).extensions = gs
           /\ Chain(gs, m + Len(y)).at = m + Len(y)
        BY <2>1, <2>8, <2>10, ChainFacts
    <2>12. DecodeChain(b, j) = Chain(<<e>> \o gs, m + Len(y))
        BY <2>5, <2>6, <2>7, <2>9, <2>11, ChainGoesOn DEF m
    <2>13. m + Len(y) = j + Len(EncodeChain(fs))
        <3>1. Len(x \o y) = Len(x) + Len(y)
            BY <2>3, <2>4, JoinedSeqs
        <3>2. QED
            BY <2>2, <2>8, <2>10, <3>1
    <2>14. QED
        BY <1>4, <2>1, <2>12, <2>13
<1>7. QED
    BY <1>5, <1>6

\* What is decoded is a chain, no longer than the octets it took, and these
\* lie in the datagram.
Measured(b, i, c) ==
    /\ c.extensions \in Seq(Extensions) /\ c.at \in Nat
    /\ i + Len(EncodeChain(c.extensions)) <= c.at
    /\ c.at <= Len(b) + 1

\* Whatever decodes as a chain is one, of extensions that lie in the datagram.
LEMMA ChainDecoded ==
    ASSUME NEW b \in Seq(Octets), NEW i \in Nat, i > 0, i <= Len(b) + 1,
           DecodeChain(b, i) # Error
    PROVE  Measured(b, i, DecodeChain(b, i))
<1> DEFINE n == Len(b) + 1
           S == {k \in 1 .. n : DecodeChain(b, k) # Error /\ ~Measured(b, k, DecodeChain(b, k))}
<1>0. Len(b) \in Nat /\ n \in Nat /\ i \in 1 .. n
    BY LenProperties
<1>1. SUFFICES ASSUME S # {} PROVE FALSE
    BY <1>0
<1>2. S \subseteq 0 .. n
    OBVIOUS
<1>3. PICK x \in S : \A y \in S : y <= x
    <2> HIDE DEF S, n
    <2>1. QED
        BY <1>0, <1>1, <1>2, GreatestOf
<1>4. x \in 1 .. n /\ x \in Nat /\ x > 0 /\ x <= Len(b) + 1
    BY <1>0, <1>3
<1>5. DecodeChain(b, x) # Error /\ ~Measured(b, x, DecodeChain(b, x))
    BY <1>3
<1> DEFINE e == DecodeExtension(From(b, x))
           j == x + ExtensionSize(e)
<1>6. x <= Len(b) /\ e # Error
    <2>1. ~(x > Len(b)) /\ e # Error
        BY <1>4, <1>5, ChainFails
    <2>2. QED
        BY <1>0, <1>4, <2>1
<1>7. /\ e \in Extensions \cup Terminators
      /\ e.ext_type = ExtType.Terminator <=> e \notin Extensions
      /\ ExtensionSize(e) \in Nat /\ ExtensionSize(e) >= 4
      /\ j <= Len(b) + 1
    BY <1>4, <1>6, ExtensionDecoded
<1> DEFINE z == ExtensionSize(e)
<1>8. j \in Nat /\ j = x + z /\ z \in Nat /\ z >= 4
    BY <1>4, <1>7
<1> HIDE DEF j
<1>9. CASE e.ext_type = ExtType.Terminator
    <2>1. DecodeChain(b, x) = Chain(<<>>, j)
        BY <1>4, <1>6, <1>9, ChainEnds DEF j
    <2>2. <<>> \in Seq(Extensions) /\ Len(EncodeChain(<<>>)) = 4
        BY EmptySeq, EncodeEmptyChain, EndFacts
    <2>3. Chain(<<>>, j).extensions = <<>> /\ Chain(<<>>, j).at = j
        BY DEF Chain
    <2>4. x + 4 <= j
        BY <1>4, <1>8
    <2>5. Measured(b, x, Chain(<<>>, j))
        BY <1>7, <1>8, <2>2, <2>3, <2>4 DEF Measured
    <2>6. QED
        BY <1>5, <2>1, <2>5
<1>10. CASE e.ext_type # ExtType.Terminator
    <2> DEFINE more == DecodeChain(b, j)
               es == more.extensions
               at == more.at
    <2>1. more # Error /\ DecodeChain(b, x) = Chain(<<e>> \o es, at)
        BY <1>4, <1>5, <1>6, <1>10, ChainGoesOn DEF j
    <2>2. j \in 1 .. n /\ ~(j <= x)
        BY <1>0, <1>4, <1>7, <1>8
    <2>3. Measured(b, j, more)
        BY <1>3, <2>1, <2>2
    <2> HIDE DEF more
    <2>4. /\ es \in Seq(Extensions) /\ at \in Nat
          /\ j + Len(EncodeChain(es)) <= at /\ at <= Len(b) + 1
        BY <2>3 DEF Measured
    <2>5. e \in Extensions
        BY <1>7, <1>10
    <2> DEFINE a == EncodeExtension(e)
               c == EncodeChain(es)
    <2> HIDE DEF e, es, at
    <2>6. /\ <<e>> \o es \in Seq(Extensions)
          /\ EncodeChain(<<e>> \o es) = a \o c
        BY <2>4, <2>5, EncodeLongerChain
    <2>7. a \in Seq(Octets) /\ Len(a) = z
        BY <2>5, ExtensionSeq
    <2>8. c \in Seq(Octets)
        BY <2>4, ChainSeq
    <2>9. j + Len(c) <= at
        BY <2>4
    <2> HIDE DEF a, c, z
    <2>10. Len(a \o c) = Len(a) + Len(c) /\ Len(c) \in Nat
        BY <2>7, <2>8, JoinedSeqs, LenProperties
    <2>11. x + Len(a \o c) <= at
        BY <1>4, <1>8, <2>4, <2>7, <2>9, <2>10
    <2>12. /\ Chain(<<e>> \o es, at).extensions = <<e>> \o es
           /\ Chain(<<e>> \o es, at).at = at
        BY DEF Chain
    <2>13. Measured(b, x, Chain(<<e>> \o es, at))
        BY <2>4, <2>6, <2>11, <2>12 DEF Measured
    <2>14. QED
        BY <1>5, <2>1, <2>13
<1>11. QED
    BY <1>9, <1>10

\* It is the same in a longer datagram.
LEMMA SameChain ==
    ASSUME NEW b \in Seq(Octets), NEW c \in Seq(Octets), Holds(c, 1, b),
           NEW i \in Nat, i > 0, i <= Len(b) + 1, DecodeChain(b, i) # Error
    PROVE  DecodeChain(c, i) = DecodeChain(b, i)
<1> DEFINE n == Len(b) + 1
           S == {k \in 1 .. n : DecodeChain(b, k) # Error /\ DecodeChain(c, k) # DecodeChain(b, k)}
<1>0. Len(b) \in Nat /\ Len(c) \in Nat /\ Len(b) <= Len(c) /\ n \in Nat /\ i \in 1 .. n
    BY NotShorter
<1>1. SUFFICES ASSUME S # {} PROVE FALSE
    BY <1>0
<1>2. S \subseteq 0 .. n
    OBVIOUS
<1>3. PICK x \in S : \A y \in S : y <= x
    <2> HIDE DEF S, n
    <2>1. QED
        BY <1>0, <1>1, <1>2, GreatestOf
<1>4. x \in 1 .. n /\ x \in Nat /\ x > 0 /\ x <= Len(b) + 1
    BY <1>0, <1>3
<1>5. DecodeChain(b, x) # Error /\ DecodeChain(c, x) # DecodeChain(b, x)
    BY <1>3
<1> DEFINE e == DecodeExtension(From(b, x))
           j == x + ExtensionSize(e)
<1>6. x <= Len(b) /\ x <= Len(c) /\ e # Error
    <2>1. ~(x > Len(b)) /\ e # Error
        BY <1>4, <1>5, ChainFails
    <2>2. QED
        BY <1>0, <1>4, <2>1
<1>7. e = DecodeExtension(From(c, x))
    BY <1>4, <1>6, SameExtension
<1>8. j \in Nat /\ j > x /\ j <= Len(b) + 1
    BY <1>4, <1>6, NextPlace
<1> HIDE DEF e
<1>9. CASE e.ext_type = ExtType.Terminator
    <2>1. DecodeChain(b, x) = Chain(<<>>, j)
        BY <1>4, <1>6, <1>9, ChainEnds DEF e
    <2>2. DecodeChain(c, x) = Chain(<<>>, j)
        BY <1>4, <1>6, <1>7, <1>9, ChainEnds
    <2>3. QED
        BY <1>5, <2>1, <2>2
<1>10. CASE e.ext_type # ExtType.Terminator
    <2>1. /\ DecodeChain(b, j) = Error => DecodeChain(b, x) = Error
          /\ DecodeChain(b, j) # Error =>
                DecodeChain(b, x) = Chain(<<e>> \o DecodeChain(b, j).extensions, DecodeChain(b, j).at)
        BY <1>4, <1>6, <1>10, ChainGoesOn DEF e
    <2>2. DecodeChain(c, j) # Error =>
              DecodeChain(c, x) = Chain(<<e>> \o DecodeChain(c, j).extensions, DecodeChain(c, j).at)
        BY <1>4, <1>6, <1>7, <1>10, ChainGoesOn
    <2>3. j \in 1 .. n /\ ~(j <= x)
        <3> HIDE DEF j
        <3>1. QED
            BY <1>0, <1>4, <1>8
    <2>4. DecodeChain(c, j) = DecodeChain(b, j)
        BY <1>3, <1>5, <2>1, <2>3
    <2>5. QED
        BY <1>5, <2>1, <2>2, <2>4
<1>11. QED
    BY <1>9, <1>10

-----------------------------------------------------------------------------
(* Frames. *)

\* What decode() can return: the lengths and the flags agree, and the two
\* copies of a long frame's header do.
WellFormed(f) ==
    /\ f \in Frames
    /\ f.header.length = Len(f.payload)
    /\ ~f.header.has_extensions => f.extensions = <<>>
    /\ f.long_header # None =>
          f.long_header.short = f.header /\ f.header.frame_type \in LongTypes

\* Frames as encode() puts them together.
HeaderPart(f) ==
    IF f.long_header = None
    THEN EncodeHeader(f.header, FALSE)
    ELSE EncodeHeader(f.long_header.short, TRUE) \o f.long_header.source

\* The extensions of a frame as they stand in its datagram.
ChainPart(f) == IF f.header.has_extensions THEN EncodeChain(f.extensions) ELSE <<>>

\* The fields of a frame.
LEMMA FrameFields ==
    ASSUME NEW f \in Frames
    PROVE  /\ f.long_header = None \/ f.long_header \in LongHeaders
           /\ f.header \in Headers /\ f.extensions \in Seq(Extensions)
           /\ f.payload \in Seq(Octets)
           /\ f = Frame(f.long_header, f.header, f.extensions, f.payload)
           /\ f # Error
BY ResultAssumption DEF Frames, Frame

\* The fields of a long header.
LEMMA LongFields ==
    ASSUME NEW l \in LongHeaders
    PROVE  /\ l.short \in Headers /\ l.source \in Seq(Octets) /\ Len(l.source) = 8
           /\ l = [short |-> l.short, source |-> l.source]
           /\ l # None
BY ResultAssumption DEF LongHeaders, OctetsOf

\* The headers of a frame take as many octets as their size says.
LEMMA HeaderPartFacts ==
    ASSUME NEW f \in Frames
    PROVE  HeaderPart(f) \in Seq(Octets) /\ Len(HeaderPart(f)) = HeaderSize(f)
<1>1. CASE f.long_header = None
    <2>1. EncodeHeader(f.header, FALSE) \in Seq(Octets) /\ Len(EncodeHeader(f.header, FALSE)) = 16
        BY FrameFields, HeaderSeq
    <2>2. QED
        BY <1>1, <2>1 DEF HeaderPart, HeaderSize, SHORT_HEADER_SIZE
<1>2. CASE f.long_header # None
    <2> DEFINE l == f.long_header
               p == EncodeHeader(l.short, TRUE)
               q == l.source
    <2>1. l \in LongHeaders
        BY <1>2, FrameFields
    <2>2. p \in Seq(Octets) /\ Len(p) = 16
        BY <2>1, LongFields, HeaderSeq
    <2>3. q \in Seq(Octets) /\ Len(q) = 8
        BY <2>1, LongFields
    <2>4. HeaderPart(f) = p \o q
        BY <1>2 DEF HeaderPart
    <2> HIDE DEF p, q
    <2>5. p \o q \in Seq(Octets) /\ Len(p \o q) = Len(p) + Len(q)
        BY <2>2, <2>3, JoinedSeqs
    <2>6. Len(p \o q) = 24
        BY <2>2, <2>3, <2>5
    <2>7. QED
        BY <1>2, <2>4, <2>5, <2>6 DEF HeaderSize, LONG_HEADER_SIZE
<1>3. QED
    BY <1>1, <1>2

\* So do its extensions.
LEMMA ChainPartFacts ==
    ASSUME NEW f \in Frames
    PROVE  ChainPart(f) \in Seq(Octets) /\ Len(ChainPart(f)) = ChainSize(f) /\ ChainSize(f) \in Nat
<1>1. CASE f.header.has_extensions
    <2>1. EncodeChain(f.extensions) \in Seq(Octets)
        BY FrameFields, ChainSeq
    <2>2. Len(EncodeChain(f.extensions)) = ChainSize(f)
        BY <1>1, FrameFields, EncodedChainSize DEF ChainSize
    <2>3. QED
        BY <1>1, <2>1, <2>2, LenProperties DEF ChainPart
<1>2. CASE ~f.header.has_extensions
    <2>1. <<>> \in Seq(Octets) /\ Len(<<>>) = 0
        BY EmptySeq
    <2>2. QED
        BY <1>2, <2>1 DEF ChainPart, ChainSize
<1>3. QED
    BY <1>1, <1>2

\* wire_size() is the length of what encode() writes.
LEMMA EncodedSize ==
    ASSUME NEW f \in Frames
    PROVE  Encode(f) \in Seq(Octets) /\ Len(Encode(f)) = WireSize(f)
<1> DEFINE p == HeaderPart(f)
           q == ChainPart(f)
           r == f.payload
<1>1. Encode(f) = p \o q \o r
    BY DEF Encode, HeaderPart, ChainPart
<1>2. p \in Seq(Octets) /\ Len(p) = HeaderSize(f)
    BY HeaderPartFacts
<1>3. q \in Seq(Octets) /\ Len(q) = ChainSize(f)
    BY ChainPartFacts
<1>4. r \in Seq(Octets)
    BY FrameFields
<1>5. WireSize(f) = HeaderSize(f) + ChainSize(f) + Len(r)
    BY DEF WireSize
<1> HIDE DEF p, q, r
<1>6. p \o q \in Seq(Octets) /\ Len(p \o q) = Len(p) + Len(q)
    BY <1>2, <1>3, JoinedSeqs
<1>7. p \o q \o r \in Seq(Octets) /\ Len(p \o q \o r) = Len(p \o q) + Len(r)
    BY <1>4, <1>6, JoinedSeqs
<1>8. QED
    BY <1>1, <1>2, <1>3, <1>5, <1>6, <1>7

\* Where the parts of a frame stand.
LEMMA FramePlaces ==
    ASSUME NEW f \in Frames, NEW b \in Seq(Octets), Holds(b, 1, Encode(f))
    PROVE  /\ Holds(b, 1, HeaderPart(f))
           /\ Holds(b, 1 + HeaderSize(f), ChainPart(f))
           /\ Holds(b, 1 + HeaderSize(f) + ChainSize(f), f.payload)
<1> DEFINE p == HeaderPart(f)
           q == ChainPart(f)
           r == f.payload
<1>1. Holds(b, 1, p \o q \o r)
    BY DEF Encode, HeaderPart, ChainPart
<1>2. p \in Seq(Octets) /\ Len(p) = HeaderSize(f)
    BY HeaderPartFacts
<1>3. q \in Seq(Octets) /\ Len(q) = ChainSize(f) /\ ChainSize(f) \in Nat
    BY ChainPartFacts
<1>4. r \in Seq(Octets)
    BY FrameFields
<1>5. HeaderSize(f) \in Nat
    BY DEF HeaderSize, SHORT_HEADER_SIZE, LONG_HEADER_SIZE
<1> HIDE DEF p, q, r
<1>6. p \o q \in Seq(Octets) /\ Len(p \o q) = Len(p) + Len(q)
    BY <1>2, <1>3, JoinedSeqs
<1>7. Holds(b, 1, p \o q) /\ Holds(b, 1 + Len(p \o q), r)
    BY <1>1, <1>4, <1>6, BeginsWith
<1>8. Holds(b, 1, p) /\ Holds(b, 1 + Len(p), q)
    BY <1>2, <1>3, <1>7, BeginsWith
<1>9. 1 + Len(p \o q) = 1 + HeaderSize(f) + ChainSize(f)
    BY <1>2, <1>3, <1>5, <1>6
<1>10. QED
    BY <1>2, <1>7, <1>8, <1>9 DEF p, q, r

\* What follows the header decodes to the extensions and the payload.
LEMMA BodyRoundTrip ==
    ASSUME NEW f, WellFormed(f), NEW b \in Seq(Octets), Holds(b, 1, Encode(f))
    PROVE  DecodeBody(b, f.long_header, f.header, 1 + HeaderSize(f)) = f
<1> DEFINE h == f.header
           start == 1 + HeaderSize(f)
           at == start + ChainSize(f)
           es == f.extensions
           p == f.payload
           chain == IF h.has_extensions THEN DecodeChain(b, start) ELSE Chain(<<>>, start)
<1>1. f \in Frames
    BY DEF WellFormed
<1>2. /\ es \in Seq(Extensions) /\ p \in Seq(Octets)
      /\ f = Frame(f.long_header, h, es, p) /\ f # Error
    BY <1>1, FrameFields
<1>3. start \in Nat /\ start > 0
    BY DEF HeaderSize, SHORT_HEADER_SIZE, LONG_HEADER_SIZE
<1>4. ChainSize(f) \in Nat
    BY <1>1, ChainPartFacts
<1>5. Holds(b, start, ChainPart(f)) /\ Holds(b, at, p)
    BY <1>1, FramePlaces
<1>6. chain = Chain(es, at)
    <2>1. CASE h.has_extensions
        <3>1. ChainPart(f) = EncodeChain(es) /\ ChainSize(f) = Len(EncodeChain(es))
            BY <1>1, <2>1, ChainPartFacts DEF ChainPart
        <3>2. Holds(b, start, EncodeChain(es))
            BY <1>5, <3>1
        <3>3. DecodeChain(b, start) = Chain(es, start + Len(EncodeChain(es)))
            <4> HIDE DEF start, es
            <4>1. QED
                BY <1>2, <1>3, <3>2, ChainRoundTrip
        <3>4. QED
            BY <2>1, <3>1, <3>3
    <2>2. CASE ~h.has_extensions
        <3>1. es = <<>> /\ ChainSize(f) = 0
            BY <2>2 DEF WellFormed, ChainSize
        <3>2. at = start
            BY <1>3, <3>1
        <3>3. QED
            BY <2>2, <3>1, <3>2
    <2>3. QED
        BY <2>1, <2>2
<1>7. at \in Nat /\ at > 0
    BY <1>3, <1>4
<1>8. h.length = Len(p)
    BY DEF WellFormed
<1> HIDE DEF at
<1>9. chain # Error /\ chain.extensions = es /\ chain.at = at
    BY <1>2, <1>6, <1>7, ChainFacts
<1>10. PayloadOf(b, h, at) = p
    <2>1. at + Len(p) <= Len(b) + 1 /\ Len(p) \in Nat /\ Len(b) \in Nat
        BY <1>2, <1>5, LenProperties DEF Holds
    <2>2. at + Len(p) - 1 <= Len(b)
        BY <1>7, <2>1
    <2>3. SubSeq(b, at, at + Len(p) - 1) = p
        BY <1>2, <1>5, <1>7, HoldsPart
    <2>4. QED
        BY <1>8, <2>2, <2>3 DEF PayloadOf
<1>11. p # Error
    BY <1>2, ResultAssumption
<1>12. DecodeBody(b, f.long_header, h, start) =
           LET payload == IF chain = Error THEN Error ELSE PayloadOf(b, h, chain.at)
           IN  IF payload = Error THEN Error ELSE Frame(f.long_header, h, chain.extensions, payload)
    BY DEF DecodeBody
<1> HIDE DEF chain, p, es, h, start
<1>13. DecodeBody(b, f.long_header, h, start) = Frame(f.long_header, h, es, p)
    BY <1>9, <1>10, <1>11, <1>12
<1>14. QED
    BY <1>2, <1>13 DEF h, start

\* decode() undoes encode(), whatever follows the frame in the datagram.
LEMMA FrameRoundTrip ==
    ASSUME NEW f, WellFormed(f), NEW b \in Seq(Octets), Holds(b, 1, Encode(f))
    PROVE  Decode(b) = f
<1>1. f \in Frames
    BY DEF WellFormed
<1>2. Holds(b, 1, HeaderPart(f))
    BY <1>1, FramePlaces
<1>3. HeaderPart(f) \in Seq(Octets) /\ Len(HeaderPart(f)) = HeaderSize(f)
    BY <1>1, HeaderPartFacts
<1>4. Len(b) \in Nat /\ HeaderSize(f) <= Len(b)
    <2>1. 1 + Len(HeaderPart(f)) <= Len(b) + 1
        BY <1>2 DEF Holds
    <2>2. HeaderSize(f) \in Nat /\ Len(b) \in Nat
        BY LenProperties DEF HeaderSize, SHORT_HEADER_SIZE, LONG_HEADER_SIZE
    <2>3. QED
        BY <1>3, <2>1, <2>2
<1>5. DecodeBody(b, f.long_header, f.header, 1 + HeaderSize(f)) = f
    BY BodyRoundTrip
<1>6. f.header \in Headers
    BY <1>1, FrameFields
<1>7. CASE f.long_header = None
    <2>1. Holds(b, 1, EncodeHeader(f.header, FALSE)) /\ HeaderSize(f) = 16
        BY <1>2, <1>7 DEF HeaderPart, HeaderSize, SHORT_HEADER_SIZE
    <2>2. /\ DecodeHeader(b) = f.header /\ DecodedType(b) = f.header.frame_type
          /\ ~LongBit(b)
        BY <1>6, <2>1, HeaderRoundTrip
    <2>3. DecodedType(b) \in 0 .. 9
        BY <1>6, <2>2, HeaderFields
    <2>4. ~(Len(b) < 16)
        BY <1>4, <2>1
    <2>5. 1 + HeaderSize(f) = 17
        BY <2>1
    <2>6. DecodeShort(b) = f
        BY <1>5, <1>7, <2>2, <2>3, <2>5 DEF DecodeShort, SHORT_HEADER_SIZE
    <2>7. QED
        BY <2>2, <2>4, <2>6 DEF Decode, SHORT_HEADER_SIZE
<1>8. CASE f.long_header # None
    <2> DEFINE l == f.long_header
               p == EncodeHeader(f.header, TRUE)
               q == l.source
    <2>1. l \in LongHeaders /\ l.short = f.header /\ f.header.frame_type \in LongTypes
        BY <1>1, <1>8, FrameFields DEF WellFormed
    <2>2. HeaderSize(f) = 24 /\ Holds(b, 1, p \o q)
        BY <1>2, <1>8, <2>1 DEF HeaderPart, HeaderSize, LONG_HEADER_SIZE
    <2>3. q \in Seq(Octets) /\ Len(q) = 8 /\ l = [short |-> f.header, source |-> q]
        BY <2>1, LongFields
    <2>4. p \in Seq(Octets) /\ Len(p) = 16
        BY <1>6, HeaderSeq
    <2> HIDE DEF p, q
    <2>5. Holds(b, 1, p) /\ Holds(b, 17, q)
        <3>1. Holds(b, 1, p) /\ Holds(b, 1 + Len(p), q)
            BY <2>2, <2>3, <2>4, BeginsWith
        <3>2. 1 + Len(p) = 17
            BY <2>4
        <3>3. QED
            BY <3>1, <3>2
    <2>6. /\ DecodeHeader(b) = f.header /\ DecodedType(b) = f.header.frame_type
          /\ LongBit(b)
        BY <1>6, <2>5, HeaderRoundTrip DEF p
    <2>7. SubSeq(b, 17, 24) = q
        <3>1. q \in Seq(Octets)
            BY <2>3
        <3>2. SubSeq(b, 17, 17 + Len(q) - 1) = q
            BY <2>5, <3>1, HoldsPart
        <3>3. 17 + Len(q) - 1 = 24
            BY <2>3
        <3>4. QED
            BY <3>2, <3>3
    <2>8. ~(Len(b) < 16) /\ ~(Len(b) < 24) /\ 1 + HeaderSize(f) = 25 /\ 24 + 1 = 25
        BY <1>4, <2>2
    <2>9. DecodeLong(b) = DecodeBody(b, l, f.header, 25)
        BY <2>1, <2>3, <2>6, <2>7, <2>8 DEF DecodeLong, LONG_HEADER_SIZE
    <2>10. QED
        BY <1>5, <2>6, <2>8, <2>9 DEF Decode, SHORT_HEADER_SIZE
<1>9. QED
    BY <1>7, <1>8

\* What decodes after a header that was announced.
LEMMA BodyDecoded ==
    ASSUME NEW b \in Seq(Octets), NEW long_header, NEW h \in Headers,
           NEW start \in Nat, start > 0, start <= Len(b) + 1,
           NEW f, f = DecodeBody(b, long_header, h, start), f # Error
    PROVE  \E es \in Seq(Extensions), p \in Seq(Octets) :
              /\ f = Frame(long_header, h, es, p)
              /\ Len(p) = h.length
              /\ ~h.has_extensions => es = <<>>
              /\ start + ChainSize(f) + Len(p) <= Len(b) + 1
<1> DEFINE chain == IF h.has_extensions THEN DecodeChain(b, start) ELSE Chain(<<>>, start)
           es == chain.extensions
           at == chain.at
           p == PayloadOf(b, h, at)
<1>1. /\ chain # Error /\ p # Error
      /\ f = Frame(long_header, h, es, p)
    <2>1. f = LET payload == IF chain = Error THEN Error ELSE PayloadOf(b, h, chain.at)
              IN  IF payload = Error THEN Error
                  ELSE Frame(long_header, h, chain.extensions, payload)
        BY DEF DecodeBody
    <2> HIDE DEF chain
    <2>2. QED
        BY <2>1
<1>0. Len(b) \in Nat
    BY LenProperties
<1>2. /\ es \in Seq(Extensions) /\ at \in Nat
      /\ at <= Len(b) + 1
      /\ IF h.has_extensions THEN start + Len(EncodeChain(es)) <= at
         ELSE es = <<>> /\ start = at
    <2>1. CASE h.has_extensions
        <3>1. chain = DecodeChain(b, start)
            BY <2>1
        <3>2. Measured(b, start, chain)
            <4> HIDE DEF chain
            <4>1. QED
                BY <1>1, <3>1, ChainDecoded
        <3>3. QED
            BY <2>1, <3>2 DEF Measured
    <2>2. CASE ~h.has_extensions
        <3>1. chain = Chain(<<>>, start)
            BY <2>2
        <3>2. es = <<>> /\ at = start
            BY <3>1 DEF Chain
        <3>3. <<>> \in Seq(Extensions)
            BY EmptySeq
        <3>4. QED
            BY <2>2, <3>2, <3>3
    <2>3. QED
        BY <2>1, <2>2
<1> HIDE DEF chain, es, at
<1>3. f.extensions = es /\ f.header = h
    BY <1>1 DEF Frame
<1>4. ChainSize(f) \in Nat /\ start + ChainSize(f) <= at
    <2>1. CASE h.has_extensions
        <3>1. ChainSize(f) = Len(EncodeChain(es))
            BY <1>2, <1>3, <2>1, EncodedChainSize DEF ChainSize
        <3>2. EncodeChain(es) \in Seq(Octets)
            BY <1>2, ChainSeq
        <3>3. Len(EncodeChain(es)) \in Nat
            BY <3>2, LenProperties
        <3>4. QED
            BY <1>2, <2>1, <3>1, <3>3
    <2>2. CASE ~h.has_extensions
        BY <1>2, <1>3, <2>2 DEF ChainSize
    <2>3. QED
        BY <2>1, <2>2
<1>5. h.length \in Nat
    BY HeaderFields DEF Words32
<1>6. at + h.length - 1 <= Len(b) /\ p = SubSeq(b, at, at + h.length - 1)
    BY <1>1 DEF PayloadOf
<1>7. at > 0 /\ at + h.length <= Len(b) + 1
    BY <1>0, <1>2, <1>4, <1>5, <1>6
<1>8. p \in Seq(Octets) /\ Len(p) = h.length
    <2> DEFINE n == h.length
    <2>1. n \in Nat /\ at + n <= Len(b) + 1 /\ at \in Nat /\ at > 0
          /\ p = SubSeq(b, at, at + n - 1)
        BY <1>2, <1>5, <1>6, <1>7
    <2> HIDE DEF n, p
    <2>2. p \in Seq(Octets) /\ Len(p) = n
        BY <2>1, PartFacts
    <2>3. QED
        BY <2>2 DEF n
<1> HIDE DEF p
<1>9. start + ChainSize(f) + Len(p) <= Len(b) + 1
    BY <1>0, <1>2, <1>4, <1>5, <1>7, <1>8
<1>10. ~h.has_extensions => es = <<>>
    BY <1>2
<1>11. QED
    BY <1>1, <1>2, <1>8, <1>9, <1>10

\* What decode() accepts is well formed, and no longer than the datagram.
LEMMA FrameDecoded ==
    ASSUME NEW b \in Seq(Octets), Decode(b) # Error
    PROVE  WellFormed(Decode(b)) /\ WireSize(Decode(b)) <= Len(b)
<1> DEFINE f == Decode(b)
           h == DecodeHeader(b)
<1>0. Len(b) \in Nat
    BY LenProperties
<1>1. Len(b) >= 16
    BY <1>0 DEF Decode, SHORT_HEADER_SIZE
<1>2. CASE LongBit(b)
    <2> DEFINE q == SubSeq(b, 17, 24)
               l == [short |-> h, source |-> q]
    <2>1. /\ ~(Len(b) < 24) /\ DecodedType(b) \in LongTypes
          /\ f = DecodeBody(b, l, h, 25)
        <3>1. f = DecodeLong(b)
            BY <1>0, <1>1, <1>2 DEF Decode, SHORT_HEADER_SIZE
        <3>2. 24 + 1 = 25
            OBVIOUS
        <3>3. QED
            BY <3>1, <3>2 DEF DecodeLong, LONG_HEADER_SIZE
    <2>2. h \in Headers /\ h.frame_type = DecodedType(b)
        <3>1. DecodedType(b) \in 0 .. 9
            BY <2>1 DEF LongTypes, FrameType
        <3>2. h \in Headers
            BY <1>1, <3>1, HeaderDecoded
        <3>3. QED
            BY <3>2 DEF DecodeHeader
    <2>3. q \in OctetsOf(8)
        <3>1. 17 + 8 <= Len(b) + 1 /\ 17 + 8 - 1 = 24
            BY <1>0, <2>1
        <3>2. /\ SubSeq(b, 17, 17 + 8 - 1) \in Seq(Octets)
              /\ Len(SubSeq(b, 17, 17 + 8 - 1)) = 8
            BY <3>1, PartFacts
        <3>3. QED
            BY <3>1, <3>2 DEF OctetsOf
    <2> HIDE DEF h, q
    <2>4. l \in LongHeaders /\ l.short = h
        BY <2>2, <2>3 DEF LongHeaders
    <2>5. 25 <= Len(b) + 1
        BY <1>0, <2>1
    <2> HIDE DEF l, f
    <2>6. f # Error
        BY DEF f
    <2>7. PICK es \in Seq(Extensions), p \in Seq(Octets) :
              /\ f = Frame(l, h, es, p)
              /\ Len(p) = h.length
              /\ ~h.has_extensions => es = <<>>
              /\ 25 + ChainSize(f) + Len(p) <= Len(b) + 1
        <3>1. 25 \in Nat /\ 25 > 0
            OBVIOUS
        <3>2. QED
            BY <2>1, <2>2, <2>5, <2>6, <3>1, BodyDecoded
    <2>8. f.long_header = l /\ f.header = h /\ f.extensions = es /\ f.payload = p
        BY <2>7 DEF Frame
    <2>9. f \in Frames
        BY <2>2, <2>4, <2>7 DEF Frame, Frames
    <2>10. l # None
        BY <2>4, LongFields
    <2>11. WellFormed(f)
        BY <2>1, <2>2, <2>4, <2>7, <2>8, <2>9 DEF WellFormed
    <2>12. WireSize(f) <= Len(b)
        <3>1. WireSize(f) = 24 + ChainSize(f) + Len(p)
            BY <2>8, <2>10 DEF WireSize, HeaderSize, LONG_HEADER_SIZE
        <3>2. ChainSize(f) \in Nat /\ Len(p) \in Nat
            BY <2>7, <2>9, ChainPartFacts, LenProperties
        <3>3. QED
            BY <1>0, <2>7, <3>1, <3>2
    <2>13. QED
        BY <2>11, <2>12 DEF f
<1>3. CASE ~LongBit(b)
    <2>1. DecodedType(b) \in 0 .. 9 /\ f = DecodeBody(b, None, h, 17)
        <3>1. f = DecodeShort(b)
            BY <1>0, <1>1, <1>3 DEF Decode, SHORT_HEADER_SIZE
        <3>2. 16 + 1 = 17
            OBVIOUS
        <3>3. QED
            BY <3>1, <3>2 DEF DecodeShort, SHORT_HEADER_SIZE
    <2>2. h \in Headers
        BY <1>1, <2>1, HeaderDecoded
    <2>5. 17 <= Len(b) + 1
        BY <1>0, <1>1
    <2> HIDE DEF h, f
    <2>6. f # Error
        BY DEF f
    <2>7. PICK es \in Seq(Extensions), p \in Seq(Octets) :
              /\ f = Frame(None, h, es, p)
              /\ Len(p) = h.length
              /\ ~h.has_extensions => es = <<>>
              /\ 17 + ChainSize(f) + Len(p) <= Len(b) + 1
        <3>1. 17 \in Nat /\ 17 > 0
            OBVIOUS
        <3>2. QED
            BY <2>1, <2>2, <2>5, <2>6, <3>1, BodyDecoded
    <2>8. f.long_header = None /\ f.header = h /\ f.extensions = es /\ f.payload = p
        BY <2>7 DEF Frame
    <2>9. f \in Frames
        BY <2>2, <2>7 DEF Frame, Frames
    <2>11. WellFormed(f)
        BY <2>7, <2>8, <2>9 DEF WellFormed
    <2>12. WireSize(f) <= Len(b)
        <3>1. WireSize(f) = 16 + ChainSize(f) + Len(p)
            BY <2>8 DEF WireSize, HeaderSize, SHORT_HEADER_SIZE
        <3>2. ChainSize(f) \in Nat /\ Len(p) \in Nat
            BY <2>7, <2>9, ChainPartFacts, LenProperties
        <3>3. QED
            BY <1>0, <2>7, <3>1, <3>2
    <2>13. QED
        BY <2>11, <2>12 DEF f
<1>4. QED
    BY <1>2, <1>3

\* It is the same in a longer datagram.
LEMMA SameBody ==
    ASSUME NEW b \in Seq(Octets), NEW c \in Seq(Octets), Holds(c, 1, b),
           NEW long_header, NEW h \in Headers,
           NEW start \in Nat, start > 0, start <= Len(b) + 1,
           DecodeBody(b, long_header, h, start) # Error
    PROVE  DecodeBody(c, long_header, h, start) = DecodeBody(b, long_header, h, start)
<1> DEFINE Ch(d) == IF h.has_extensions THEN DecodeChain(d, start) ELSE Chain(<<>>, start)
           chain == Ch(b)
           at == chain.at
<1>0. Len(b) \in Nat /\ Len(c) \in Nat /\ Len(b) <= Len(c)
    BY NotShorter
<1>1. \A d : DecodeBody(d, long_header, h, start) =
          LET payload == IF Ch(d) = Error THEN Error ELSE PayloadOf(d, h, Ch(d).at)
          IN  IF payload = Error THEN Error
              ELSE Frame(long_header, h, Ch(d).extensions, payload)
    BY DEF DecodeBody
<1>2. chain # Error /\ PayloadOf(b, h, at) # Error
    <2> HIDE DEF Ch
    <2>1. QED
        BY <1>1
<1>3. Ch(c) = Ch(b)
    <2>1. CASE h.has_extensions
        <3>1. DecodeChain(b, start) # Error
            BY <1>2, <2>1
        <3>2. DecodeChain(c, start) = DecodeChain(b, start)
            BY <3>1, SameChain
        <3>3. QED
            BY <3>2
    <2>2. CASE ~h.has_extensions
        BY <2>2
    <2>3. QED
        BY <2>1, <2>2
<1>4. at \in Nat /\ at > 0
    <2>1. CASE h.has_extensions
        <3>1. chain = DecodeChain(b, start)
            BY <2>1
        <3>2. Measured(b, start, chain)
            <4> HIDE DEF chain
            <4>1. QED
                BY <1>2, <3>1, ChainDecoded
        <3> DEFINE m == Len(EncodeChain(chain.extensions))
        <3>3. at \in Nat /\ start + m <= at /\ chain.extensions \in Seq(Extensions)
            BY <3>2 DEF Measured
        <3>4. m \in Nat
            BY <3>3, ChainSeq, LenProperties
        <3> HIDE DEF m, at
        <3>5. QED
            BY <3>3, <3>4
    <2>2. CASE ~h.has_extensions
        BY <2>2 DEF Chain
    <2>3. QED
        BY <2>1, <2>2
<1> HIDE DEF Ch, chain, at
<1>5. PayloadOf(c, h, at) = PayloadOf(b, h, at)
    <2> DEFINE j == at + h.length - 1
    <2>1. j <= Len(b) /\ PayloadOf(b, h, at) = SubSeq(b, at, j)
        BY <1>2 DEF PayloadOf
    <2>2. h.length \in Nat
        BY HeaderFields DEF Words32
    <2>3. j \in Nat /\ at <= j + 1 /\ j <= Len(c)
        BY <1>0, <1>4, <2>1, <2>2
    <2>4. PayloadOf(c, h, at) = SubSeq(c, at, j)
        BY <2>3 DEF PayloadOf
    <2> HIDE DEF j
    <2>5. SubSeq(c, at, j) = SubSeq(b, at, j)
        BY <1>4, <2>1, <2>3, SameSub
    <2>6. QED
        BY <2>1, <2>4, <2>5
<1>6. QED
    BY <1>1, <1>2, <1>3, <1>5 DEF chain, at

\* What decodes decodes to the same frame when octets are added to the
\* datagram.
LEMMA SameFrame ==
    ASSUME NEW b \in Seq(Octets), NEW c \in Seq(Octets), Holds(c, 1, b), Decode(b) # Error
    PROVE  Decode(c) = Decode(b)
<1> DEFINE h == DecodeHeader(b)
<1>0. Len(b) \in Nat /\ Len(c) \in Nat /\ Len(b) <= Len(c)
    BY NotShorter
<1>1. Len(b) >= 16 /\ ~(Len(b) < 16) /\ ~(Len(c) < 16)
    BY <1>0 DEF Decode, SHORT_HEADER_SIZE
<1>2. /\ DecodeHeader(c) = h /\ DecodedType(c) = DecodedType(b)
      /\ LongBit(c) <=> LongBit(b)
    BY <1>1, SameHeader
<1>3. CASE LongBit(b)
    <2> DEFINE l == [short |-> h, source |-> SubSeq(b, 17, 24)]
    <2>1. Decode(b) = DecodeLong(b) /\ Decode(c) = DecodeLong(c)
        BY <1>1, <1>2, <1>3 DEF Decode, SHORT_HEADER_SIZE
    <2>2. ~(Len(b) < 24) /\ DecodedType(b) \in LongTypes
        BY <2>1 DEF DecodeLong, LONG_HEADER_SIZE
    <2>3. ~(Len(c) < 24) /\ 24 <= Len(b) /\ 25 <= Len(b) + 1 /\ 24 + 1 = 25
        BY <1>0, <2>2
    <2>4. SubSeq(c, 17, 24) = SubSeq(b, 17, 24)
        <3>1. /\ 17 \in Nat /\ 17 > 0 /\ 24 \in Nat
              /\ 17 <= 24 + 1 /\ 24 <= Len(b)
            BY <2>3
        <3>2. QED
            BY <3>1, SameSub
    <2>5. DecodeLong(b) = DecodeBody(b, l, h, 25) /\ DecodeLong(c) = DecodeBody(c, l, h, 25)
        BY <1>2, <2>2, <2>3, <2>4 DEF DecodeLong, LONG_HEADER_SIZE
    <2>6. h \in Headers
        <3>1. DecodedType(b) \in 0 .. 9
            BY <2>2 DEF LongTypes, FrameType
        <3>2. QED
            BY <1>1, <3>1, HeaderDecoded
    <2> HIDE DEF h, l
    <2>7. DecodeBody(c, l, h, 25) = DecodeBody(b, l, h, 25)
        <3>1. 25 \in Nat /\ 25 > 0 /\ DecodeBody(b, l, h, 25) # Error
            BY <2>1, <2>5
        <3>2. QED
            BY <2>3, <2>6, <3>1, SameBody
    <2>8. QED
        BY <2>1, <2>5, <2>7
<1>4. CASE ~LongBit(b)
    <2>1. Decode(b) = DecodeShort(b) /\ Decode(c) = DecodeShort(c)
        BY <1>1, <1>2, <1>4 DEF Decode, SHORT_HEADER_SIZE
    <2>2. DecodedType(b) \in 0 .. 9
        BY <2>1 DEF DecodeShort
    <2>3. 17 <= Len(b) + 1 /\ 16 + 1 = 17
        BY <1>0, <1>1
    <2>5. /\ DecodeShort(b) = DecodeBody(b, None, h, 17)
          /\ DecodeShort(c) = DecodeBody(c, None, h, 17)
        BY <1>2, <2>2, <2>3 DEF DecodeShort, SHORT_HEADER_SIZE
    <2>6. h \in Headers
        BY <1>1, <2>2, HeaderDecoded
    <2> HIDE DEF h
    <2>7. DecodeBody(c, None, h, 17) = DecodeBody(b, None, h, 17)
        <3>1. 17 \in Nat /\ 17 > 0 /\ DecodeBody(b, None, h, 17) # Error
            BY <2>1, <2>5
        <3>2. QED
            BY <2>3, <2>6, <3>1, SameBody
    <2>8. QED
        BY <2>1, <2>5, <2>7
<1>5. QED
    BY <1>3, <1>4

-----------------------------------------------------------------------------
(* The frames of a program. *)

\* A frame that was built by the constructors and add_extension.
Built(f) ==
    /\ f \in Frames
    /\ f.header.length = Len(f.payload)
    /\ ~f.header.has_extensions => f.extensions = <<>>
    /\ f.long_header # None => f.header.frame_type \in LongTypes
    /\ f.long_header # None /\ f.extensions = <<>> => f.long_header.short = f.header

\* A frame the constructors build encodes, when its type can be expressed.
LEMMA BuiltWellFormed ==
    ASSUME NEW f, Built(f), Expressible(f)
    PROVE  WellFormed(f)
BY DEF Built, Expressible, WellFormed

\* The numbers the constructors put in.
LEMMA SmallWords ==
    /\ 0 \in Words32 /\ 4 \in Words32 /\ 8 \in Words32 /\ 1 \in Words24
    /\ \A n \in Nat : n + 1 \in Words32 => n \in Words32
BY DEF Words32, Words24

\* What a program sends as a payload.
LEMMA PayloadFacts ==
    /\ \A p \in Payloads : p \in Seq(Octets) /\ Len(p) \in Words32
    /\ \A offset \in Offsets : Octets32(offset) \in Seq(Octets) /\ Len(Octets32(offset)) \in Words32
    /\ Nonce \in Seq(Octets) /\ Len(Nonce) \in Words32
    /\ \A code \in {0, 8}, p \in Payloads :
          <<code>> \o p \in Seq(Octets) /\ Len(<<code>> \o p) \in Words32
    /\ <<>> \in Seq(Octets) /\ Len(<<>>) \in Words32
<1>1. ASSUME NEW p \in Payloads
      PROVE  p \in Seq(Octets) /\ Len(p) \in Words32 /\ Len(p) + 1 \in Words32
    <2>1. p \in Seq(Octets) /\ Len(p) + 1 \in Words32
        BY RangeAssumption
    <2>2. Len(p) \in Nat
        BY <2>1, LenProperties
    <2>3. QED
        BY <2>1, <2>2, SmallWords
<1>2. ASSUME NEW offset \in Offsets
      PROVE  Octets32(offset) \in Seq(Octets) /\ Len(Octets32(offset)) \in Words32
    <2>1. offset \in Words32
        BY RangeAssumption
    <2>2. Octets32(offset) \in Seq(Octets) /\ Len(Octets32(offset)) = 4
        BY <2>1, Octets32Facts
    <2>3. QED
        BY <2>2, SmallWords
<1>3. Nonce \in Seq(Octets) /\ Len(Nonce) \in Words32
    BY RangeAssumption, SmallWords DEF OctetsOf
<1>4. ASSUME NEW code \in {0, 8}, NEW p \in Payloads
      PROVE  <<code>> \o p \in Seq(Octets) /\ Len(<<code>> \o p) \in Words32
    <2> DEFINE q == <<code>>
    <2>1. q \in Seq(Octets) /\ Len(q) = 1
        <3>1. code \in Octets
            BY DEF Octets
        <3>2. QED
            BY <3>1
    <2>2. p \in Seq(Octets) /\ Len(p) + 1 \in Words32 /\ Len(p) \in Nat
        BY <1>1, LenProperties
    <2> HIDE DEF q
    <2>3. q \o p \in Seq(Octets) /\ Len(q \o p) = Len(q) + Len(p)
        BY <2>1, <2>2, JoinedSeqs
    <2>4. Len(q) + Len(p) = Len(p) + 1
        BY <2>1, <2>2
    <2>5. QED
        BY <2>2, <2>3, <2>4 DEF q
<1>5. <<>> \in Seq(Octets) /\ Len(<<>>) \in Words32
    BY EmptySeq, SmallWords
<1>6. QED
    BY <1>1, <1>2, <1>3, <1>4, <1>5

\* The header the constructors fill in.
LEMMA NewHeader ==
    ASSUME NEW type \in 0 .. 9, NEW id \in 0 .. MAX_STREAM_ID, NEW offset \in Words32,
           NEW p \in Seq(Octets), Len(p) \in Words32
    PROVE  LET h == Header(type, id, offset, p)
           IN  /\ h \in Headers /\ h.length = Len(p) /\ h.frame_type = type
               /\ ~h.has_extensions
BY RangeAssumption DEF Header, Headers, AETHER_VERSION

\* A frame with a short header.
LEMMA NewShortBuilt ==
    ASSUME NEW type \in 0 .. 9, NEW id \in 0 .. MAX_STREAM_ID, NEW offset \in Words32,
           NEW p \in Seq(Octets), Len(p) \in Words32
    PROVE  /\ Built(NewShort(type, id, offset, p))
           /\ NewShort(type, id, offset, p).long_header = None
<1> DEFINE h == Header(type, id, offset, p)
           f == NewShort(type, id, offset, p)
<1>1. h \in Headers /\ h.length = Len(p) /\ ~h.has_extensions
    BY NewHeader
<1>2. f = [long_header |-> None, header |-> h, extensions |-> <<>>, payload |-> p]
    BY DEF NewShort, Frame
<1> HIDE DEF h, f
<1>3. <<>> \in Seq(Extensions)
    BY EmptySeq
<1>4. f \in Frames
    BY <1>1, <1>2, <1>3 DEF Frames
<1>5. Built(f) /\ f.long_header = None
    BY <1>1, <1>2, <1>4 DEF Built
<1>6. QED
    BY <1>5 DEF f

\* Zero is a stream id and an offset.
LEMMA ZeroFacts == 0 \in 0 .. MAX_STREAM_ID /\ 0 \in Words32 /\ 0 \in Nat
<1>1. MAX_STREAM_ID \in Nat
    BY DEF MAX_STREAM_ID
<1>2. QED
    BY <1>1, SmallWords

\* A frame with a long header.
LEMMA NewLongBuilt ==
    ASSUME NEW type \in LongTypes, NEW p \in Seq(Octets), Len(p) \in Words32
    PROVE  Built(NewLong(type, p))
<1> DEFINE h == Header(type, 0, 0, p)
           l == [short |-> h, source |-> SourceId]
           f == NewLong(type, p)
<1>1. type \in 0 .. 9
    BY DEF LongTypes, FrameType
<1>2. h \in Headers /\ h.length = Len(p) /\ ~h.has_extensions /\ h.frame_type = type
    BY <1>1, ZeroFacts, NewHeader
<1>3. f = [long_header |-> l, header |-> h, extensions |-> <<>>, payload |-> p]
    BY DEF NewLong, Frame
<1> HIDE DEF h, f
<1>4. l \in LongHeaders /\ l.short = h
    BY <1>2, RangeAssumption DEF LongHeaders
<1> HIDE DEF l
<1>5. <<>> \in Seq(Extensions)
    BY EmptySeq
<1>6. f \in Frames
    BY <1>2, <1>3, <1>4, <1>5 DEF Frames
<1>7. Built(f)
    BY <1>2, <1>3, <1>4, <1>6 DEF Built
<1>8. QED
    BY <1>7 DEF f

\* A frame that gets another extension.
LEMMA ExtendedBuilt ==
    ASSUME NEW f, Built(f), NEW e \in Extensions
    PROVE  Built(WithExtension(f, e))
<1> DEFINE g == WithExtension(f, e)
           h == [f.header EXCEPT !.has_extensions = TRUE]
           es == Append(f.extensions, e)
<1>1. f \in Frames
    BY DEF Built
<1>2. f.header \in Headers /\ f.extensions \in Seq(Extensions) /\ f.payload \in Seq(Octets)
      /\ f.long_header \in LongHeaders \cup {None}
    BY <1>1 DEF Frames
<1>3. g = [long_header |-> f.long_header, header |-> h, extensions |-> es, payload |-> f.payload]
    <2> DEFINE l == f.long_header
               k == f.header
               fs == f.extensions
               p == f.payload
    <2>1. f = [long_header |-> l, header |-> k, extensions |-> fs, payload |-> p]
        BY <1>1, FrameFields DEF Frame
    <2>2. g = [f EXCEPT !.header = h, !.extensions = es]
        BY DEF WithExtension
    <2> HIDE DEF l, k, fs, p, g, h, es
    <2>3. g = [long_header |-> l, header |-> h, extensions |-> es, payload |-> p]
        BY <2>1, <2>2
    <2>4. QED
        BY <2>3 DEF l, p
<1>4. h \in Headers /\ h.has_extensions /\ h.length = f.header.length /\ h.frame_type = f.header.frame_type
    BY <1>2 DEF Headers
<1>5. es \in Seq(Extensions) /\ es # <<>>
    BY <1>2, AppendProperties
<1> HIDE DEF g, h, es
<1>6. g \in Frames
    BY <1>2, <1>3, <1>4, <1>5 DEF Frames
<1>7. g.long_header = f.long_header /\ g.header = h /\ g.extensions = es /\ g.payload = f.payload
    BY <1>3
<1>8. h.length = Len(f.payload) /\ (f.long_header # None => h.frame_type \in LongTypes)
    BY <1>4 DEF Built
<1>9. Built(g)
    BY <1>4, <1>5, <1>6, <1>7, <1>8 DEF Built
<1>10. QED
    BY <1>9 DEF g

\* Every frame a sender starts with is built by the constructors.
LEMMA NewFramesBuilt ==
    ASSUME NEW f \in NewFrames
    PROVE  Built(f)
<1>0. /\ \A id \in StreamIds : id \in 0 .. MAX_STREAM_ID
      /\ \A offset \in Offsets : offset \in Words32
    BY RangeAssumption
<1>1. CASE f \in LongFrames
    BY <1>1, PayloadFacts, NewLongBuilt DEF LongFrames
<1>2. CASE f \in DataFrames
    <2>1. PICK id \in StreamIds, offset \in Offsets, p \in Payloads :
              f = NewShort(2, id, offset, p)
        BY <1>2 DEF DataFrames, FrameType
    <2>2. id \in 0 .. MAX_STREAM_ID /\ offset \in Words32 /\ p \in Seq(Octets) /\ Len(p) \in Words32
        BY <1>0, PayloadFacts
    <2>3. QED
        BY <2>1, <2>2, NewShortBuilt
<1>3. CASE f \in AckFrames
    <2>1. PICK id \in StreamIds, offset \in Offsets : f = NewShort(3, id, 0, Octets32(offset))
        BY <1>3 DEF AckFrames, FrameType
    <2> DEFINE p == Octets32(offset)
    <2>2. id \in 0 .. MAX_STREAM_ID /\ p \in Seq(Octets) /\ Len(p) \in Words32
        BY <1>0, PayloadFacts
    <2> HIDE DEF p
    <2>3. Built(NewShort(3, id, 0, p))
        BY <2>2, ZeroFacts, NewShortBuilt
    <2>4. QED
        BY <2>1, <2>3 DEF p
<1>4. CASE f = PingFrame
    <2>1. f = NewShort(5, 0, 0, Nonce)
        BY <1>4 DEF PingFrame, FrameType
    <2>2. QED
        BY <2>1, ZeroFacts, PayloadFacts, NewShortBuilt
<1>5. CASE f \in CloseFrames
    <2>1. PICK code \in {0, 8}, reason \in Payloads : f = NewShort(4, 0, 0, <<code>> \o reason)
        BY <1>5 DEF CloseFrames, FrameType
    <2> DEFINE p == <<code>> \o reason
    <2>2. p \in Seq(Octets) /\ Len(p) \in Words32
        BY PayloadFacts
    <2> HIDE DEF p
    <2>3. Built(NewShort(4, 0, 0, p))
        BY <2>2, ZeroFacts, NewShortBuilt
    <2>4. QED
        BY <2>1, <2>3 DEF p
<1>6. CASE f \in PathFrames
    <2> DEFINE e == Extension(ExtType.PathId, <<1>>)
    <2>1. PICK type \in {6, 7} : f = WithExtension(NewShort(type, 0, 0, Nonce), e)
        BY <1>6 DEF PathFrames, FrameType
    <2>2. e \in Extensions
        <3>1. 1 \in Octets
            BY DEF Octets
        <3>2. <<1>> \in Seq(Octets) /\ Len(<<1>>) = 1
            BY <3>1
        <3>3. <<1>> \in Values
            BY <3>2, SmallWords DEF Values
        <3>4. QED
            BY <3>3 DEF Extension, Extensions, ExtType
    <2> HIDE DEF e
    <2>3. Built(NewShort(type, 0, 0, Nonce))
        BY ZeroFacts, PayloadFacts, NewShortBuilt
    <2>4. QED
        BY <2>1, <2>2, <2>3, ExtendedBuilt
<1>7. CASE f \in StreamFrames
    <2>1. PICK type \in {8, 9}, id \in StreamIds : f = NewShort(type, id, 0, <<>>)
        BY <1>7 DEF StreamFrames, FrameType
    <2> DEFINE p == <<>>
    <2>2. id \in 0 .. MAX_STREAM_ID /\ p \in Seq(Octets) /\ Len(p) \in Words32
        BY <1>0, PayloadFacts
    <2>3. type \in 0 .. 9
        OBVIOUS
    <2> HIDE DEF p
    <2>4. Built(NewShort(type, id, 0, p))
        BY <2>2, <2>3, ZeroFacts, NewShortBuilt
    <2>5. QED
        BY <2>1, <2>4 DEF p
<1>8. QED
    BY <1>1, <1>2, <1>3, <1>4, <1>5, <1>6, <1>7 DEF NewFrames

-----------------------------------------------------------------------------
(* A frame's way. *)

\* What the network carries, seen from what the sender encoded.
Carried ==
    /\ damage = NoDamage => datagram = Encode(frame)
    /\ damage.kind \in {"none", "extended"} => Holds(datagram, 1, Encode(frame))
    /\ damage.kind = "cut" =>
          /\ Holds(Encode(frame), 1, datagram)
          /\ Len(datagram) < Len(Encode(frame))
    /\ damage.kind = "overwritten" =>
          \E d \in Octets :
             /\ damage.at \in 1 .. Len(Encode(frame))
             /\ datagram = [Encode(frame) EXCEPT ![damage.at] = d]

\* What holds of the frame, the datagram and what became of it.
IInv ==
    /\ Built(frame)
    /\ datagram \in Seq(Octets)
    /\ stage \in {"building", "sent", "received"}
    /\ stage = "building" => damage = NoDamage
    /\ stage # "building" => Carried
    /\ stage = "received" => decoded = Decode(datagram)

\* A datagram begins with itself.
LEMMA HoldsItself ==
    ASSUME NEW s \in Seq(Octets)
    PROVE  Holds(s, 1, s)
BY LenProperties DEF Holds

\* The inductive invariant holds initially,
LEMMA InitIInv == Init => IInv
<1> SUFFICES ASSUME Init PROVE IInv
    OBVIOUS
<1>1. Built(frame)
    BY NewFramesBuilt DEF Init
<1>2. datagram \in Seq(Octets)
    BY EmptySeq DEF Init
<1>3. QED
    BY <1>1, <1>2 DEF Init, IInv

\* when the sender adds an extension,
LEMMA AddExtensionStep ==
    ASSUME IInv, NEW e \in Additions, AddExtension(e)
    PROVE  IInv'
<1>1. e \in Extensions
    BY RangeAssumption
<1>2. Built(frame')
    BY <1>1, ExtendedBuilt DEF IInv, AddExtension
<1>3. QED
    BY <1>2 DEF IInv, AddExtension

\* when it sends the frame,
LEMMA SendStep ==
    ASSUME IInv, Send
    PROVE  IInv'
<1>1. /\ Built(frame) /\ frame' = frame /\ damage = NoDamage /\ damage' = damage
      /\ datagram' = Encode(frame) /\ stage' = "sent"
    BY DEF IInv, Send
<1>2. frame \in Frames
    BY <1>1 DEF Built
<1>3. datagram' \in Seq(Octets)
    BY <1>1, <1>2, EncodedSize
<1>4. Holds(datagram', 1, Encode(frame'))
    BY <1>1, <1>3, HoldsItself
<1>5. damage'.kind = "none"
    BY <1>1 DEF NoDamage
<1>6. Carried'
    BY <1>1, <1>4, <1>5 DEF Carried
<1>7. QED
    BY <1>1, <1>3, <1>6 DEF IInv

\* when the datagram is damaged on its way,
LEMMA DamageStep ==
    ASSUME IInv, Damage
    PROVE  IInv'
<1> DEFINE s == datagram
<1>1. /\ Built(frame) /\ frame' = frame /\ stage = "sent" /\ stage' = "sent"
      /\ s \in Seq(Octets) /\ s = Encode(frame) /\ decoded' = decoded
    BY DEF IInv, Damage, Carried
<1>2. Len(s) \in Nat /\ DOMAIN s = 1 .. Len(s)
    BY <1>1, LenProperties
<1>3. damage' # NoDamage
    BY DEF Damage, Damaged, NoDamage
<1>4. ASSUME NEW n \in 0 .. Len(s) - 1, Damaged("cut", n, SubSeq(s, 1, n))
      PROVE  datagram' \in Seq(Octets) /\ Carried'
    <2> DEFINE t == SubSeq(s, 1, n)
    <2>1. n \in Nat /\ n < Len(s) /\ 1 + n <= Len(s) + 1 /\ 1 + n - 1 = n
        BY <1>2
    <2>2. /\ SubSeq(s, 1, 1 + n - 1) \in Seq(Octets) /\ Len(SubSeq(s, 1, 1 + n - 1)) = n
          /\ Holds(s, 1, SubSeq(s, 1, 1 + n - 1))
        BY <1>1, <2>1, PartFacts, PartHolds
    <2>3. t \in Seq(Octets) /\ Len(t) = n /\ Holds(s, 1, t)
        BY <2>1, <2>2
    <2>4. datagram' = t /\ damage'.kind = "cut"
        BY <1>4 DEF Damaged
    <2> HIDE DEF t
    <2>5. Carried'
        BY <1>1, <1>3, <2>1, <2>3, <2>4 DEF Carried
    <2>6. QED
        BY <2>3, <2>4, <2>5
<1>5. ASSUME NEW i \in DOMAIN s, NEW d \in Damages,
             Damaged("overwritten", i, [s EXCEPT ![i] = d])
      PROVE  datagram' \in Seq(Octets) /\ Carried'
    <2>1. d \in Octets
        BY RangeAssumption
    <2>2. i \in 1 .. Len(s)
        BY <1>2
    <2>3. [s EXCEPT ![i] = d] \in Seq(Octets)
        BY <1>1, <2>1, <2>2, ExceptSeq
    <2>4. /\ datagram' = [s EXCEPT ![i] = d]
          /\ damage'.kind = "overwritten" /\ damage'.at = i
        BY <1>5 DEF Damaged
    <2>5. Carried'
        BY <1>1, <1>3, <2>1, <2>2, <2>4 DEF Carried
    <2>6. QED
        BY <2>3, <2>4, <2>5
<1>6. ASSUME NEW d \in Damages, Damaged("extended", Len(s) + 1, Append(s, d))
      PROVE  datagram' \in Seq(Octets) /\ Carried'
    <2>1. d \in Octets
        BY RangeAssumption
    <2> DEFINE t == <<d>>
    <2>2. t \in Seq(Octets) /\ Append(s, d) = s \o t
        BY <1>1, <2>1, AppendIsConcat
    <2> HIDE DEF t
    <2>3. s \o t \in Seq(Octets)
        BY <1>1, <2>2, JoinedSeqs
    <2>4. Holds(s \o t, 1, s)
        <3>1. Holds(s, 1, s) /\ 1 \in Nat /\ 1 > 0
            BY <1>1, HoldsItself
        <3>2. QED
            BY <1>1, <2>2, <3>1, HoldsLonger
    <2>5. datagram' = s \o t /\ damage'.kind = "extended"
        BY <1>6, <2>2 DEF Damaged
    <2>6. Carried'
        BY <1>1, <1>3, <2>4, <2>5 DEF Carried
    <2>7. QED
        BY <2>3, <2>5, <2>6
<1>7. datagram' \in Seq(Octets) /\ Carried'
    BY <1>4, <1>5, <1>6 DEF Damage
<1>8. QED
    BY <1>1, <1>7 DEF IInv

\* and when it is decoded.
LEMMA ReceiveStep ==
    ASSUME IInv, Receive
    PROVE  IInv'
BY DEF IInv, Receive, Carried

\* Every step preserves it.
LEMMA NextIInv ==
    ASSUME IInv, [Next]_vars
    PROVE  IInv'
<1>1. CASE \E e \in Additions : AddExtension(e)
    BY <1>1, AddExtensionStep
<1>2. CASE Send
    BY <1>2, SendStep
<1>3. CASE Damage
    BY <1>3, DamageStep
<1>4. CASE Receive
    BY <1>4, ReceiveStep
<1>5. CASE UNCHANGED vars
    BY <1>5 DEF IInv, Carried, vars
<1>6. QED
    BY <1>1, <1>2, <1>3, <1>4, <1>5 DEF Next

\* It holds in every state that can be reached.
LEMMA SpecIInv == Spec => []IInv
BY InitIInv, NextIInv, PTL DEF Spec

-----------------------------------------------------------------------------
(* The theorems. *)

\* A datagram that arrives whole, or with octets added, gives the frame:
\* FrameRoundTrip.
LEMMA FrameArrives == IInv => RoundTrip
<1> SUFFICES ASSUME IInv, Arrived({"none", "extended"}) PROVE decoded = frame
    BY DEF RoundTrip
<1>1. /\ Built(frame) /\ Expressible(frame) /\ datagram \in Seq(Octets)
      /\ Holds(datagram, 1, Encode(frame)) /\ decoded = Decode(datagram)
    BY DEF Arrived, IInv, Carried
<1>2. WellFormed(frame)
    BY <1>1, BuiltWellFormed
<1>3. QED
    BY <1>1, <1>2, FrameRoundTrip

\* decode() undoes encode(): the frame a receiver decodes is the frame that was
\* sent, whatever its type and its extensions and whatever follows it.
THEOREM RoundTripHolds == Spec => []RoundTrip
BY SpecIInv, FrameArrives, PTL

\* If a datagram that was cut decoded, the whole one would decode to the same
\* frame (SameFrame), which takes more octets than were left (FrameDecoded).
LEMMA CutFails == IInv => CutIsRefused
<1> SUFFICES ASSUME IInv, Arrived({"cut"}) PROVE decoded = Error
    BY DEF CutIsRefused
<1> DEFINE s == Encode(frame)
<1>1. /\ Built(frame) /\ Expressible(frame) /\ datagram \in Seq(Octets)
      /\ Holds(s, 1, datagram) /\ Len(datagram) < Len(s) /\ decoded = Decode(datagram)
    BY DEF Arrived, IInv, Carried
<1>2. WellFormed(frame)
    BY <1>1, BuiltWellFormed
<1>3. s \in Seq(Octets) /\ Len(s) = WireSize(frame)
    BY <1>2, EncodedSize DEF WellFormed
<1>4. Decode(s) = frame
    BY <1>2, <1>3, HoldsItself, FrameRoundTrip
<1> HIDE DEF s
<1>5. SUFFICES ASSUME Decode(datagram) # Error PROVE FALSE
    BY <1>1
<1>6. Decode(s) = Decode(datagram)
    BY <1>1, <1>3, <1>5, SameFrame
<1>7. WireSize(frame) <= Len(datagram)
    BY <1>1, <1>4, <1>5, <1>6, FrameDecoded
<1>8. Len(datagram) \in Nat /\ Len(s) \in Nat
    BY <1>1, <1>3, LenProperties
<1>9. QED
    BY <1>1, <1>3, <1>7, <1>8

\* A datagram that was cut short is refused, wherever it was cut.
THEOREM CutIsRefusedHolds == Spec => []CutIsRefused
BY SpecIInv, CutFails, PTL

\* What decodes is well formed (FrameDecoded), so it encodes and decodes again
\* (FrameRoundTrip).
LEMMA AcceptedAgain == IInv => AcceptedIsStable
<1> SUFFICES ASSUME IInv, stage = "received", decoded # Error
             PROVE  /\ Decode(Encode(decoded)) = decoded
                    /\ Len(Encode(decoded)) = WireSize(decoded)
                    /\ WireSize(decoded) <= Len(datagram)
    BY DEF AcceptedIsStable
<1>1. datagram \in Seq(Octets) /\ decoded = Decode(datagram)
    BY DEF IInv
<1>2. WellFormed(decoded) /\ WireSize(decoded) <= Len(datagram)
    BY <1>1, FrameDecoded
<1>3. Encode(decoded) \in Seq(Octets) /\ Len(Encode(decoded)) = WireSize(decoded)
    BY <1>2, EncodedSize DEF WellFormed
<1>4. Decode(Encode(decoded)) = decoded
    BY <1>2, <1>3, HoldsItself, FrameRoundTrip
<1>5. QED
    BY <1>2, <1>3, <1>4

\* What a receiver accepts, damaged or not, encodes and decodes to itself, in
\* wire_size() octets, no more than were received.
THEOREM AcceptedIsStableHolds == Spec => []AcceptedIsStable
BY SpecIInv, AcceptedAgain, PTL

\* g is f with another payload of the same length.
OtherPayload(f, g) ==
    \E p \in Seq(Octets) : Len(p) = Len(f.payload) /\ g = [f EXCEPT !.payload = p]

\* An octet overwritten in the payload gives the encoding of the same frame
\* with another payload.
LEMMA OverwrittenPayload ==
    ASSUME NEW f, WellFormed(f), NEW i, i \in 1 .. Len(Encode(f)),
           i > Len(Encode(f)) - Len(f.payload), NEW d \in Octets,
           NEW b, b = [Encode(f) EXCEPT ![i] = d]
    PROVE  OtherPayload(f, Decode(b))
<1> DEFINE s == Encode(f)
           head == HeaderPart(f) \o ChainPart(f)
           n == Len(f.payload)
           m == Len(head)
           p == SubSeq(b, m + 1, m + 1 + n - 1)
           g == [f EXCEPT !.payload = p]
<1>1. f \in Frames
    BY DEF WellFormed
<1>2. head \in Seq(Octets) /\ m \in Nat
    <2>1. HeaderPart(f) \in Seq(Octets) /\ ChainPart(f) \in Seq(Octets)
        BY <1>1, HeaderPartFacts, ChainPartFacts
    <2>2. head \in Seq(Octets)
        BY <2>1, JoinedSeqs
    <2>3. QED
        BY <2>2, LenProperties
<1>3. f.payload \in Seq(Octets) /\ n \in Nat
    BY <1>1, FrameFields, LenProperties
<1>4. s = head \o f.payload
    BY DEF Encode, HeaderPart, ChainPart
<1>5. s \in Seq(Octets) /\ Len(s) = m + n
    <2> HIDE DEF head
    <2>1. QED
        BY <1>2, <1>3, <1>4, JoinedSeqs
<1>6. b \in Seq(Octets) /\ Len(b) = m + n /\ \A k \in 1 .. m + n : k # i => b[k] = s[k]
    <2> HIDE DEF s, m, n
    <2>1. QED
        BY <1>5, ExceptSeq DEF s
<1>7. i > m
    BY <1>2, <1>3, <1>5
<1>8. Holds(s, 1, head)
    <2>1. Holds(s, 1, s)
        BY <1>5, HoldsItself
    <2> HIDE DEF s, head
    <2>2. QED
        BY <1>2, <1>3, <1>4, <1>5, <2>1, BeginsWith
<1>9. Holds(b, 1, head)
    <2>1. 1 + m <= Len(s) + 1 /\ \A k \in 1 .. m : s[1 + k - 1] = head[k]
        BY <1>8 DEF Holds
    <2> HIDE DEF s, head, n
    <2>2. ASSUME NEW k \in 1 .. m PROVE b[1 + k - 1] = head[k]
        <3>1. 1 + k - 1 \in 1 .. m + n /\ 1 + k - 1 # i
            BY <1>2, <1>3, <1>7
        <3>2. QED
            BY <1>6, <2>1, <3>1
    <2>3. 1 + m <= Len(b) + 1
        BY <1>2, <1>3, <1>6
    <2>4. QED
        BY <2>2, <2>3 DEF Holds
<1> HIDE DEF head, s, m, n
<1>10. p \in Seq(Octets) /\ Len(p) = n /\ Holds(b, m + 1, p)
    <2> DEFINE j == m + 1
    <2>1. j \in Nat /\ j > 0 /\ j + n <= Len(b) + 1
        BY <1>2, <1>3, <1>6
    <2>2. p = SubSeq(b, j, j + n - 1)
        BY DEF p
    <2>3. b \in Seq(Octets) /\ n \in Nat
        BY <1>3, <1>6
    <2> HIDE DEF j, p
    <2>4. /\ SubSeq(b, j, j + n - 1) \in Seq(Octets)
          /\ Len(SubSeq(b, j, j + n - 1)) = n
        BY <2>1, <2>3, PartFacts
    <2>5. Holds(b, j, SubSeq(b, j, j + n - 1))
        BY <2>1, <2>3, PartHolds
    <2>6. QED
        BY <2>2, <2>4, <2>5 DEF j
<1> HIDE DEF p
<1>11. /\ g \in Frames /\ g.payload = p /\ g.long_header = f.long_header
       /\ g.header = f.header /\ g.extensions = f.extensions
    BY <1>1, <1>10 DEF Frames
<1> HIDE DEF g
<1>12. WellFormed(g)
    BY <1>10, <1>11 DEF WellFormed, n
<1>13. Encode(g) = head \o p
    BY <1>11 DEF Encode, HeaderPart, ChainPart, head
<1>14. Holds(b, 1, head \o p)
    <2>1. 1 \in Nat /\ 1 > 0 /\ 1 + Len(head) = m + 1
        BY <1>2 DEF m
    <2>2. Holds(b, 1, head) /\ Holds(b, 1 + Len(head), p)
        BY <1>9, <1>10, <2>1
    <2>3. QED
        BY <1>2, <1>6, <1>10, <2>1, <2>2, HoldsJoined
<1>15. Decode(b) = g
    BY <1>6, <1>12, <1>13, <1>14, FrameRoundTrip
<1>16. QED
    BY <1>10, <1>15 DEF g, n, OtherPayload

\* The overwritten octet lies in the payload: OverwrittenPayload.
LEMMA DamageStays == IInv => PayloadDamageIsLocal
<1> SUFFICES ASSUME IInv, Arrived({"overwritten"}),
                    damage.at > Len(datagram) - Len(frame.payload)
             PROVE  /\ decoded # Error
                    /\ [decoded EXCEPT !.payload = frame.payload] = frame
                    /\ Len(decoded.payload) = Len(frame.payload)
    BY DEF PayloadDamageIsLocal
<1> DEFINE s == Encode(frame)
<1>1. PICK d \in Octets :
          /\ damage.at \in 1 .. Len(s)
          /\ datagram = [s EXCEPT ![damage.at] = d]
    BY DEF Arrived, IInv, Carried
<1>2. Built(frame) /\ Expressible(frame) /\ decoded = Decode(datagram)
    BY DEF Arrived, IInv
<1>3. WellFormed(frame) /\ frame \in Frames
    BY <1>2, BuiltWellFormed DEF WellFormed
<1>4. s \in Seq(Octets)
    BY <1>3, EncodedSize
<1>5. Len(datagram) = Len(s)
    <2> HIDE DEF s
    <2>1. QED
        BY <1>1, <1>4, ExceptSeq
<1>6. PICK p \in Seq(Octets) :
          Len(p) = Len(frame.payload) /\ decoded = [frame EXCEPT !.payload = p]
    <2> DEFINE i == damage.at
    <2>1. i \in 1 .. Len(Encode(frame))
        BY <1>1
    <2>2. i > Len(Encode(frame)) - Len(frame.payload)
        <3> HIDE DEF s
        <3>1. i > Len(s) - Len(frame.payload)
            BY <1>5
        <3>2. QED
            BY <3>1 DEF s
    <2>3. datagram = [Encode(frame) EXCEPT ![i] = d]
        BY <1>1
    <2> HIDE DEF i, s
    <2>4. OtherPayload(frame, Decode(datagram))
        <3>1. WellFormed(frame)
            BY <1>3
        <3>2. QED
            BY <2>1, <2>2, <2>3, <3>1, OverwrittenPayload
    <2>5. QED
        BY <1>2, <2>4 DEF OtherPayload
<1>7. /\ decoded \in Frames /\ decoded.payload = p
      /\ [decoded EXCEPT !.payload = frame.payload] = frame
    BY <1>3, <1>6 DEF Frames
<1>8. decoded # Error
    BY <1>7, FrameFields
<1>9. QED
    BY <1>6, <1>7, <1>8

\* An octet overwritten in the payload changes the payload and nothing else.
THEOREM PayloadDamageIsLocalHolds == Spec => []PayloadDamageIsLocal
BY SpecIInv, DamageStays, PTL
====
