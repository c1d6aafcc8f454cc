----------------------------- MODULE WireProofs -----------------------------
(****************************************************************************)
(* For every list of units a mediation function writes and every way their  *)
(* octets are cut into reads: the reader hands on exactly the PDUs that     *)
(* were written, up to the first that is not acceptable, and holds less     *)
(* than twice what it agreed to, whatever lengths are declared.  Unmarshal  *)
(* inverts Marshal for every PDU that fits its fields; and what EncodeXIRI  *)
(* makes of an event reaches the mediation function as its schema says.     *)
(****************************************************************************)
EXTENDS Wire, SequenceTheorems, WellFoundedInduction, TLAPS

Octet == 0 .. Radix - 1

-----------------------------------------------------------------------------
(* The octets of a sequence of units.  FlattenSeq is recursive: what it     *)
(* computes is shown by the least length of which it would not hold.        *)
-----------------------------------------------------------------------------
(* A set of naturals that is not empty has a least member. *)
LEMMA LeastNatural ==
  ASSUME NEW T \in SUBSET Nat, T # {}
  PROVE  \E x \in T : \A y \in T : x <= y
<1>1. PICK x \in T : \A y \in T : ~(<<y, x>> \in OpToRel(<, Nat))
  BY NatLessThanWellFounded, WFMin
<1>2. \A y \in T : ~(y < x)
  BY <1>1 DEF OpToRel
<1>3. QED
  BY <1>2

LEMMA Associates == \A x, y, z \in Seq(Octet) : (x \o y) \o z = x \o (y \o z)
BY ConcatAssociative

LEMMA Joined ==
  ASSUME NEW x \in Seq(Octet), NEW y \in Seq(Octet), NEW z \in Seq(Octet)
  PROVE  (x \o y) \o z = x \o (y \o z) /\ y \o z \in Seq(Octet)
BY ConcatAssociative, ConcatProperties

(* F is the function FlattenSeq computes by recursion, on the first n. *)
Flat(s, n, F) == F = [i \in 1..n |-> IF i = 1 THEN s[i] ELSE F[i - 1] \o s[i]]

(* There is one: the least n without would be one more than an n with. *)
LEMMA FlatExists ==
  ASSUME NEW s, NEW m \in Nat
  PROVE  \E F : Flat(s, m, F)
<1> DEFINE T == {n \in Nat : ~\E F : Flat(s, n, F)}
<1>1. SUFFICES ASSUME T # {} PROVE FALSE
  BY Zenon
<1>2. PICK n \in T : \A y \in T : n <= y
  <2>1. T \in SUBSET Nat
    OBVIOUS
  <2> HIDE DEF T
  <2>2. QED
    BY <1>1, <2>1, LeastNatural
<1>3. n # 0
  <2>1. PICK F : F = [i \in {} |-> 0]
    OBVIOUS
  <2>2. Flat(s, 0, F)
    BY <2>1 DEF Flat
  <2>3. QED
    BY <2>2
<1>4. n \in Nat /\ n - 1 \in Nat /\ n - 1 \notin T /\ ~\E F : Flat(s, n, F)
  BY <1>2, <1>3
<1>5. PICK F : Flat(s, n - 1, F)
  BY <1>4
<1> HIDE DEF T
<1>6. PICK G : G = [i \in 1..n |-> IF i < n THEN F[i] ELSE IF i = 1 THEN s[i] ELSE F[i - 1] \o s[i]]
  OBVIOUS
<1>7. \A i \in 1..n : G[i] = IF i = 1 THEN s[i] ELSE G[i - 1] \o s[i]
  <2>1. TAKE i \in 1..n
  <2>2. i # 1 => G[i - 1] = F[i - 1]
    BY <1>4, <1>6
  <2>3. CASE i < n
    <3>1. i \in 1..n - 1 /\ G[i] = F[i]
      BY <1>4, <1>6, <2>3
    <3>2. F[i] = IF i = 1 THEN s[i] ELSE F[i - 1] \o s[i]
      BY <1>5, <3>1 DEF Flat
    <3>3. QED
      BY <2>2, <3>1, <3>2
  <2>4. CASE i = n
    BY <1>4, <1>6, <2>2, <2>4
  <2>5. QED
    BY <1>4, <2>3, <2>4
<1>8. Flat(s, n, G)
  BY <1>6, <1>7 DEF Flat
<1>9. QED
  BY <1>4, <1>8

LEMMA FlattenIsFlat ==
  ASSUME NEW s, Len(s) \in Nat \ {0}
  PROVE  \E F : Flat(s, Len(s), F) /\ FlattenSeq(s) = F[Len(s)]
<1> DEFINE G == CHOOSE F : F = [i \in 1..Len(s) |-> IF i = 1 THEN s[i] ELSE F[i - 1] \o s[i]]
<1>1. \E F : Flat(s, Len(s), F)
  BY FlatExists
<1>2. G = [i \in 1..Len(s) |-> IF i = 1 THEN s[i] ELSE G[i - 1] \o s[i]]
  BY <1>1, Zenon DEF Flat
<1>3. FlattenSeq(s) = G[Len(s)]
  BY DEF FlattenSeq
<1>4. QED
  BY <1>2, <1>3 DEF Flat

(* G[i] is what follows the first i of the n sequences s. *)
Behind(S, s, n, G) ==
  /\ G \in [0..n -> Seq(S)] /\ G[n] = <<>>
  /\ \A i \in 1..n : G[i - 1] = s[i] \o G[i]

LEMMA BehindMore ==
  ASSUME NEW S, NEW n \in Nat \ {0}, NEW s, \A i \in 1..n : s[i] \in Seq(S),
         NEW G, Behind(S, s, n - 1, G)
  PROVE  \E H : Behind(S, s, n, H) /\ H[0] = G[0] \o s[n]
<1>0. n \in Nat /\ n > 0 /\ s[n] \in Seq(S)
  OBVIOUS
<1>1. \A i \in 0..n - 1 : G[i] \in Seq(S) /\ G[i] \o s[n] \in Seq(S)
  BY <1>0, ConcatProperties DEF Behind
<1>2. PICK H : H = [i \in 0..n |-> IF i < n THEN G[i] \o s[n] ELSE <<>>]
  OBVIOUS
<1>3. \A i \in 0..n - 1 : H[i] = G[i] \o s[n]
  <2>1. \A i \in 0..n - 1 : i \in 0..n /\ i < n
    BY <1>0
  <2>2. QED
    BY <1>2, <2>1, Zenon
<1>4. H[n] = <<>> /\ H[0] = G[0] \o s[n]
  <2>1. n \in 0..n /\ ~(n < n) /\ 0 \in 0..n - 1
    BY <1>0
  <2>2. QED
    BY <1>2, <1>3, <2>1, Zenon
<1>5. H \in [0..n -> Seq(S)]
  <2>1. \A i \in 0..n : i = n \/ i \in 0..n - 1
    BY <1>0
  <2>2. <<>> \in Seq(S)
    BY EmptySeq
  <2>3. \A i \in 0..n : H[i] \in Seq(S)
    BY <1>1, <1>3, <1>4, <2>1, <2>2, Zenon
  <2>4. QED
    BY <1>2, <2>3, Zenon
<1>6. ASSUME NEW i \in 1..n PROVE H[i - 1] = s[i] \o H[i]
  <2>0. i = n \/ i \in 1..n - 1
    BY <1>0
  <2>1. s[i] \in Seq(S)
    OBVIOUS
  <2>2. i - 1 \in 0..n - 1
    BY <1>0
  <2>3. H[i - 1] = G[i - 1] \o s[n]
    BY <1>3, <2>2
  <2>4. CASE i \in 1..n - 1
    <3>1. i \in 0..n - 1
      BY <1>0, <2>4
    <3>2. G[i - 1] = s[i] \o G[i]
      BY <2>4 DEF Behind
    <3>3. H[i] = G[i] \o s[n] /\ G[i] \in Seq(S)
      BY <1>1, <1>3, <3>1
    <3>4. (s[i] \o G[i]) \o s[n] = s[i] \o (G[i] \o s[n])
      <4>1. \A x, y, z \in Seq(S) : (x \o y) \o z = x \o (y \o z)
        BY ConcatAssociative
      <4>2. QED
        BY <1>0, <2>1, <3>3, <4>1, Zenon
    <3>5. QED
      BY <2>3, <3>2, <3>3, <3>4
  <2>5. CASE i = n
    <3>1. G[i - 1] = <<>>
      BY <2>5 DEF Behind
    <3>2. <<>> \o s[n] = s[n] /\ s[n] \o <<>> = s[n]
      BY <1>0, ConcatEmptySeq
    <3>3. H[i - 1] = s[n]
      BY <2>3, <3>1, <3>2
    <3>4. s[i] = s[n] /\ H[i] = <<>>
      BY <1>4, <2>5, Zenon
    <3>5. QED
      BY <3>2, <3>3, <3>4
  <2>6. QED
    BY <2>0, <2>4, <2>5
<1>7. QED
  BY <1>4, <1>5, <1>6 DEF Behind

LEMMA BehindExists ==
  ASSUME NEW S, NEW m \in Nat, NEW s, \A i \in 1..m : s[i] \in Seq(S), NEW F, Flat(s, m, F)
  PROVE  \E G : Behind(S, s, m, G) /\ (m = 0 => G[0] = <<>>) /\ (m # 0 => G[0] = F[m])
<1> DEFINE First(n) == IF n = 0 THEN <<>> ELSE F[n]
           T == {n \in 0..m : ~\E G : Behind(S, s, n, G) /\ G[0] = First(n)}
<1>1. SUFFICES ASSUME T # {} PROVE FALSE
  <2>1. m \in 0..m
    OBVIOUS
  <2>2. QED
    BY <2>1, Zenon
<1>2. PICK n \in T : \A y \in T : n <= y
  <2>1. T \in SUBSET Nat
    OBVIOUS
  <2> HIDE DEF T
  <2>2. QED
    BY <1>1, <2>1, LeastNatural
<1>3. n # 0
  <2>1. PICK G : G = [i \in 0..0 |-> <<>>]
    OBVIOUS
  <2>2. Behind(S, s, 0, G) /\ G[0] = First(0)
    BY <2>1 DEF Behind
  <2>3. QED
    BY <2>2
<1>4. n \in Nat \ {0} /\ n <= m /\ n - 1 \in 0..m /\ n - 1 \notin T
      /\ ~\E G : Behind(S, s, n, G) /\ G[0] = First(n)
  BY <1>2, <1>3
<1>5. PICK G : Behind(S, s, n - 1, G) /\ G[0] = First(n - 1)
  BY <1>4
<1> HIDE DEF T
<1>6. PICK H : Behind(S, s, n, H) /\ H[0] = G[0] \o s[n]
  <2>1. \A i \in 1..n : s[i] \in Seq(S)
    BY <1>4
  <2>2. n \in Nat \ {0} /\ Behind(S, s, n - 1, G)
    BY <1>4, <1>5
  <2>3. QED
    BY <2>1, <2>2, BehindMore, ZenonT(60)
<1>7. H[0] = First(n)
  <2>1. CASE n = 1
    <3>1. F[1] = s[1] /\ s[1] \in Seq(S) /\ G[0] = <<>>
      BY <1>4, <1>5, <2>1 DEF Flat
    <3>2. QED
      BY <1>6, <2>1, <3>1, ConcatEmptySeq
  <2>2. CASE n # 1
    <3>1. n \in 1..m /\ n - 1 # 0
      BY <1>4, <2>2
    <3>2. F[n] = F[n - 1] \o s[n] /\ G[0] = F[n - 1]
      BY <1>5, <2>2, <3>1 DEF Flat
    <3>3. QED
      BY <1>4, <1>6, <3>2
  <2>3. QED
    BY <2>1, <2>2
<1>8. QED
  BY <1>4, <1>6, <1>7

(* FlattenSeq puts them together. *)
LEMMA FlattenBehind ==
  ASSUME NEW S, NEW s \in Seq(Seq(S))
  PROVE  \E G : Behind(S, s, Len(s), G) /\ G[0] = FlattenSeq(s)
<1>1. PICK m : m = Len(s)
  OBVIOUS
<1>2. m \in Nat /\ (m = 0 => s = <<>>)
  BY <1>1, LenProperties, EmptySeq
<1>3. \A i \in 1..m : s[i] \in Seq(S)
  BY <1>1, ElementOfSeq
<1>4. \A F : Flat(s, m, F) =>
        \E G : Behind(S, s, m, G) /\ (m = 0 => G[0] = <<>>) /\ (m # 0 => G[0] = F[m])
  BY <1>2, <1>3, BehindExists
<1>5. CASE m = 0
  <2>1. PICK F : Flat(s, m, F)
    BY <1>2, FlatExists
  <2>2. PICK G : Behind(S, s, m, G) /\ (m = 0 => G[0] = <<>>)
    BY <1>4, <2>1
  <2>3. FlattenSeq(s) = <<>>
    BY <1>1, <1>2, <1>5 DEF FlattenSeq
  <2>4. QED
    BY <1>1, <1>5, <2>2, <2>3
<1>6. CASE m # 0
  <2>1. Len(s) \in Nat \ {0}
    BY <1>1, <1>2, <1>6
  <2>2. PICK F : Flat(s, Len(s), F) /\ FlattenSeq(s) = F[Len(s)]
    BY <2>1, FlattenIsFlat, Zenon
  <2>3. Flat(s, m, F) /\ FlattenSeq(s) = F[m]
    BY <1>1, <2>2
  <2>4. PICK G : Behind(S, s, m, G) /\ (m # 0 => G[0] = F[m])
    BY <1>4, <2>3
  <2>5. QED
    BY <1>1, <1>6, <2>3, <2>4
<1>7. QED
  BY <1>5, <1>6

(* G[i] is what follows the first i of the units. *)
Cuts(us, G) ==
  /\ G \in [0..Len(us) -> Seq(Octet)] /\ G[Len(us)] = <<>>
  /\ \A i \in 1..Len(us) : G[i - 1] = us[i].octets \o G[i]

LEMMA UnitsCut ==
  ASSUME NEW us \in BoundedSeq(PeerUnit, MaxUnits)
  PROVE  /\ us \in Seq(PeerUnit) /\ Len(us) \in Nat /\ DOMAIN us = 1..Len(us)
         /\ \E G : Cuts(us, G) /\ G[0] = Octets(us)
<1> DEFINE s == [i \in DOMAIN us |-> us[i].octets]
<1>1. PICK m \in 0..MaxUnits : us \in [1..m -> PeerUnit]
  BY DEF BoundedSeq, SeqOf
<1>2. m \in Nat
  BY WireAssumption
<1>3. us \in Seq(PeerUnit) /\ Len(us) = m /\ DOMAIN us = 1..m
  BY <1>1, <1>2
<1>4. \A i \in 1..m : s[i] = us[i].octets /\ s[i] \in Seq(Octet)
  BY <1>1, <1>3, WireAssumption DEF Fated, Octet
<1>5. s \in Seq(Seq(Octet)) /\ Len(s) = m
  BY <1>2, <1>3, <1>4
<1>6. Octets(us) = FlattenSeq(s)
  BY DEF Octets
<1> HIDE DEF s
<1>7. PICK G : Behind(Octet, s, m, G) /\ G[0] = Octets(us)
  <2>1. PICK G : Behind(Octet, s, Len(s), G) /\ G[0] = FlattenSeq(s)
    BY <1>5, FlattenBehind
  <2>2. QED
    BY <1>5, <1>6, <2>1
<1>8. Cuts(us, G)
  BY <1>3, <1>4, <1>7 DEF Cuts, Behind
<1>9. QED
  BY <1>2, <1>3, <1>7, <1>8

-----------------------------------------------------------------------------
(* Unmarshal, of what stands at the front of a buffer.                      *)
-----------------------------------------------------------------------------
(* What the lengths in a header say depends on its first twelve octets. *)
LEMMA TotalOfPrefix ==
  ASSUME NEW b \in Seq(Octet), NEW d \in Seq(Octet), Len(b) >= Sizing
  PROVE  /\ headerLen(b) \in Nat /\ payloadLen(b) \in Nat
         /\ headerLen(b \o d) = headerLen(b) /\ payloadLen(b \o d) = payloadLen(b)
<1>1. \A i \in 1..12 : b[i] \in Nat /\ (b \o d)[i] = b[i]
  <2>1. \A i \in 1..12 : i \in 1..Len(b)
    BY LenProperties DEF Sizing
  <2>2. \A i \in 1..Len(b) : b[i] \in Octet /\ (b \o d)[i] = b[i]
    BY ConcatProperties, ElementOfSeq
  <2>3. \A v \in Octet : v \in Nat
    BY PDUAssumption DEF Octet
  <2>4. QED
    BY <2>1, <2>2, <2>3
<1>2. ASSUME NEW o \in {4, 6, 8, 10}
      PROVE  Uint16(b, o) \in Nat /\ Uint16(b \o d, o) = Uint16(b, o)
  <2>1. o + 1 \in 1..12 /\ o + 2 \in 1..12
    BY <1>2
  <2>2. /\ b[o + 1] \in Nat /\ (b \o d)[o + 1] = b[o + 1]
        /\ b[o + 2] \in Nat /\ (b \o d)[o + 2] = b[o + 2]
    BY <1>1, <2>1
  <2>3. Uint16(b \o d, o) = Uint16(b, o)
    BY <2>2 DEF Uint16
  <2>4. \A x, y \in Nat : x * Radix + y \in Nat
    BY PDUAssumption
  <2>5. QED
    BY <2>2, <2>3, <2>4 DEF Uint16
<1>3. ASSUME NEW o \in {4, 8}
      PROVE  Uint32(b, o) \in Nat /\ Uint32(b \o d, o) = Uint32(b, o)
  <2>1. o \in {4, 6, 8, 10} /\ o + 2 \in {4, 6, 8, 10}
    OBVIOUS
  <2>2. /\ Uint16(b, o) \in Nat /\ Uint16(b \o d, o) = Uint16(b, o)
        /\ Uint16(b, o + 2) \in Nat /\ Uint16(b \o d, o + 2) = Uint16(b, o + 2)
    BY <1>2, <2>1
  <2>3. QED
    BY <2>2, PDUAssumption DEF Uint32
<1>4. QED
  BY <1>3 DEF headerLen, payloadLen

(* Unmarshal asks for more octets only of a buffer that holds a part of a   *)
(* PDU, and takes exactly the octets the lengths declare.                   *)
LEMMA UnmarshalOutcomes ==
  ASSUME NEW b \in Seq(Octet)
  PROVE  LET u == Unmarshal(b)
         IN  /\ u.err \in {"incomplete", "undecodable", "none"}
             /\ u.err = "incomplete" =>
                  Len(b) < Sizing \/ (headerLen(b) >= MandatoryHeaderLength /\ total(b) > Len(b))
             /\ u.err = "none" =>
                  /\ Len(b) >= Sizing /\ headerLen(b) >= MandatoryHeaderLength
                  /\ u.used = total(b) /\ total(b) <= Len(b)
<1>1. ErrIncomplete.err = "incomplete" /\ Undecodable.err = "undecodable"
      /\ \A p, n : Decoded(p, n).err = "none" /\ Decoded(p, n).used = n
  BY DEF ErrIncomplete, Undecodable, Decoded
<1>2. CASE Len(b) < Sizing
  BY <1>1, <1>2 DEF Unmarshal
<1>3. CASE Len(b) >= Sizing
  <2>1. Len(b) \in Nat /\ headerLen(b) \in Nat /\ payloadLen(b) \in Nat
    BY <1>3, TotalOfPrefix, LenProperties
  <2>2. total(b) \in Nat /\ MandatoryHeaderLength \in Nat
    BY <2>1, PDUAssumption DEF total, MandatoryHeaderLength, Fixed
  <2>3. ~(Len(b) < Sizing)
    BY <1>3, <2>1 DEF Sizing
  <2>4. CASE headerLen(b) < MandatoryHeaderLength
    BY <1>1, <2>3, <2>4 DEF Unmarshal
  <2>5. CASE ~(headerLen(b) < MandatoryHeaderLength) /\ total(b) > Len(b)
    BY <1>1, <2>1, <2>2, <2>3, <2>5 DEF Unmarshal
  <2>6. CASE ~(headerLen(b) < MandatoryHeaderLength) /\ ~(total(b) > Len(b))
    <3>1. Unmarshal(b) = Undecodable \/ Unmarshal(b) = Decoded(fields(b), total(b))
      BY <2>3, <2>6 DEF Unmarshal
    <3>2. QED
      BY <1>1, <1>3, <2>1, <2>2, <2>6, <3>1
  <2>7. QED
    BY <2>4, <2>5, <2>6
<1>4. QED
  BY <1>2, <1>3, LenProperties DEF Sizing

-----------------------------------------------------------------------------
(* The inductive invariant: a reader that waits holds a part of one PDU;    *)
(* one that decodes holds less than it agreed to, or a PDU that it agreed   *)
(* to and less than that behind it.  BufferBounded alone does not say that  *)
(* the claim which was checked is the one the buffer begins with.           *)
-----------------------------------------------------------------------------
Part(b) == Len(b) < Sizing \/ (headerLen(b) >= MandatoryHeaderLength /\ total(b) > Len(b))

Agreed(b) ==
  \/ Len(b) < maxInboundPDU
  \/ /\ Len(b) >= Sizing /\ total(b) <= maxInboundPDU
     /\ headerLen(b) >= MandatoryHeaderLength => Len(b) < total(b) + maxInboundPDU

WireInv ==
  /\ transit \in Seq(Octet) /\ buf \in Seq(Octet)
  /\ reader \in {"read", "decode", "stopped", "ended"}
  /\ reader = "read" => Part(buf)
  /\ reader = "decode" => Agreed(buf)
  /\ BufferBounded

(* A read that is not refused. *)
LEMMA ReadPreserves ==
  ASSUME WireInv, read
  PROVE  WireInv'
<1>1. PICK n \in Pieces : LET b == buf \o SubSeq(transit, 1, n) IN
        /\ reader = "read" /\ n <= Len(transit)
        /\ buf' = b
        /\ transit' = SubSeq(transit, n + 1, Len(transit))
        /\ reader' = IF Len(b) >= Sizing /\ declared(b) > maxInboundPDU THEN "stopped" ELSE "decode"
  BY DEF read
<1> DEFINE d == SubSeq(transit, 1, n)
           b == buf \o d
<1>2. n \in 1..maxInboundPDU /\ maxInboundPDU \in Nat /\ Len(transit) \in Nat
      /\ transit \in Seq(Octet) /\ buf \in Seq(Octet)
  BY WireAssumption, LenProperties DEF WireInv
<1>3. d \in Seq(Octet) /\ Len(d) = n
  BY <1>1, <1>2, SubSeqProperties
<1>4. b \in Seq(Octet) /\ Len(b) = Len(buf) + n /\ Len(buf) \in Nat
  BY <1>2, <1>3, ConcatProperties, LenProperties
<1>5. transit' \in Seq(Octet)
  BY <1>1, <1>2, SubSeqProperties
<1>6. Part(buf) /\ Len(buf) < maxInboundPDU
  BY <1>1 DEF WireInv, BufferBounded
<1>7. buf' = b /\ (reader' = "stopped"
                   \/ (reader' = "decode" /\ ~(Len(b) >= Sizing /\ declared(b) > maxInboundPDU)))
  BY <1>1
<1>8. Len(buf) >= Sizing => total(b) = total(buf) /\ total(buf) \in Nat
  <2> HIDE DEF d
  <2>1. Len(buf) >= Sizing => /\ headerLen(buf) \in Nat /\ payloadLen(buf) \in Nat
                              /\ headerLen(b) = headerLen(buf)
                              /\ payloadLen(b) = payloadLen(buf)
    BY <1>2, <1>3, TotalOfPrefix
  <2>2. QED
    BY <2>1 DEF total
<1> HIDE DEF b, d
<1>9. reader' = "decode" => Agreed(b)
  <2>1. SUFFICES ASSUME reader' = "decode", Len(b) >= maxInboundPDU
                 PROVE  Agreed(b)
    BY <1>2, <1>4 DEF Agreed
  <2>2. Sizing <= maxInboundPDU /\ Len(b) >= Sizing
    BY <1>2, <1>4, <2>1, WireAssumption DEF Sizing
  <2>3. headerLen(b) \in Nat /\ payloadLen(b) \in Nat
    BY <1>4, <2>2, TotalOfPrefix
  <2>4. total(b) \in Nat /\ total(b) <= maxInboundPDU /\ total(b) >= headerLen(b)
    BY <1>2, <1>7, <2>1, <2>2, <2>3 DEF total, declared
  <2>5. MandatoryHeaderLength \in Nat /\ MandatoryHeaderLength >= Sizing
    BY PDUAssumption DEF MandatoryHeaderLength, Fixed, Sizing
  <2>6. headerLen(b) >= MandatoryHeaderLength => Len(b) < total(b) + maxInboundPDU
    <3>1. CASE Len(buf) < Sizing
      BY <1>2, <1>4, <2>3, <2>4, <2>5, <3>1 DEF Sizing
    <3>2. CASE ~(Len(buf) < Sizing)
      BY <1>2, <1>4, <1>6, <1>8, <3>2 DEF Part, Sizing
    <3>3. QED
      BY <3>1, <3>2
  <2>7. QED
    BY <2>2, <2>4, <2>6 DEF Agreed
<1>10. Len(b) < 2 * maxInboundPDU
  BY <1>2, <1>4, <1>6
<1>11. QED
  BY <1>4, <1>5, <1>7, <1>9, <1>10 DEF WireInv, BufferBounded

(* Decoding: what is left behind a PDU is less than was agreed to, and what *)
(* waits for more octets is a part of a PDU that was agreed to.             *)
LEMMA DecodePreserves ==
  ASSUME WireInv, decode
  PROVE  WireInv'
<1> DEFINE u == Unmarshal(buf)
<1>1. /\ reader = "decode" /\ UNCHANGED <<units, transit, outbound>>
      /\ CASE u.err = "incomplete" -> reader' = "read" /\ UNCHANGED <<buf, handled>>
           [] u.err = "undecodable" -> reader' = "stopped" /\ UNCHANGED <<buf, handled>>
           [] u.err = "none" -> /\ buf' = SubSeq(buf, u.used + 1, Len(buf))
                                /\ handled' = Append(handled, u.pdu)
                                /\ reader' \in handleInbound(u.pdu)
  BY DEF decode
<1>2. /\ u.err \in {"incomplete", "undecodable", "none"}
      /\ u.err = "incomplete" => Part(buf)
      /\ u.err = "none" => /\ Len(buf) >= Sizing /\ headerLen(buf) >= MandatoryHeaderLength
                           /\ u.used = total(buf) /\ total(buf) <= Len(buf)
  BY UnmarshalOutcomes DEF WireInv, Part
<1> HIDE DEF u
<1>3. /\ buf \in Seq(Octet) /\ transit \in Seq(Octet) /\ Len(buf) \in Nat
      /\ Agreed(buf) /\ Len(buf) < 2 * maxInboundPDU
      /\ maxInboundPDU \in Nat /\ Sizing <= maxInboundPDU
  BY <1>1, WireAssumption, LenProperties DEF WireInv, BufferBounded
<1>4. Len(buf) >= Sizing => headerLen(buf) \in Nat /\ total(buf) \in Nat
                            /\ total(buf) >= headerLen(buf)
  BY <1>3, TotalOfPrefix DEF total
<1>5. CASE u.err = "incomplete"
  <2>1. reader' = "read" /\ buf' = buf /\ transit' = transit
    BY <1>1, <1>5
  <2>2. Len(buf) < maxInboundPDU
    BY <1>2, <1>3, <1>4, <1>5 DEF Part, Agreed, Sizing
  <2>3. QED
    BY <1>2, <1>3, <1>5, <2>1, <2>2 DEF WireInv, BufferBounded
<1>6. CASE u.err = "undecodable"
  <2>1. reader' = "stopped" /\ buf' = buf /\ transit' = transit
    BY <1>1, <1>6
  <2>2. QED
    BY <1>3, <2>1 DEF WireInv, BufferBounded
<1>7. CASE u.err = "none"
  <2>1. /\ buf' = SubSeq(buf, total(buf) + 1, Len(buf)) /\ transit' = transit
        /\ reader' \in {"decode", "stopped", "ended"}
    BY <1>1, <1>2, <1>7 DEF handleInbound
  <2>2. total(buf) \in Nat /\ total(buf) <= Len(buf) /\ total(buf) + 1 \in 1..Len(buf) + 1
    BY <1>2, <1>3, <1>4, <1>7
  <2>3. SubSeq(buf, total(buf) + 1, Len(buf)) \in Seq(Octet)
        /\ Len(SubSeq(buf, total(buf) + 1, Len(buf))) = Len(buf) - total(buf)
    BY <1>3, <2>2, SubSeqProperties
  <2>4. Len(buf) - total(buf) < maxInboundPDU
    BY <1>2, <1>3, <1>7, <2>2 DEF Agreed
  <2>5. buf' \in Seq(Octet) /\ Len(buf') \in Nat /\ Len(buf') < maxInboundPDU
    BY <2>1, <2>2, <2>3, <2>4, <1>3
  <2>6. Len(buf') < 2 * maxInboundPDU
    BY <1>3, <2>5
  <2>7. QED
    BY <1>3, <2>1, <2>5, <2>6 DEF WireInv, BufferBounded, Agreed
<1>8. QED
  BY <1>2, <1>5, <1>6, <1>7

(* The invariant holds of every run, whatever a mediation function sends. *)
THEOREM WireInvariant == Spec => []WireInv
<1>1. Init => WireInv
  <2>1. SUFFICES ASSUME Init
                 PROVE  WireInv
    OBVIOUS
  <2>2. transit \in Seq(Octet)
    <3>1. units \in BoundedSeq(PeerUnit, MaxUnits) /\ transit = Octets(units)
      BY <2>1 DEF Init
    <3>2. PICK G : Cuts(units, G) /\ G[0] = Octets(units)
      BY <3>1, UnitsCut
    <3>3. Len(units) \in Nat
      BY <3>1, UnitsCut
    <3>4. QED
      BY <3>1, <3>2, <3>3 DEF Cuts
  <2>3. buf = <<>> /\ <<>> \in Seq(Octet) /\ Len(<<>>) = 0 /\ reader = "read"
    BY <2>1 DEF Init
  <2>4. 0 < maxInboundPDU /\ 0 < 2 * maxInboundPDU
    BY WireAssumption DEF Sizing
  <2>5. QED
    BY <2>2, <2>3, <2>4 DEF WireInv, BufferBounded, Part, Sizing
<1>2. WireInv /\ [Next]_vars => WireInv'
  <2>1. SUFFICES ASSUME WireInv, [Next]_vars
                 PROVE  WireInv'
    OBVIOUS
  <2>2. CASE readError
    BY <2>1, <2>2 DEF readError, WireInv, BufferBounded
  <2>3. CASE UNCHANGED inbound
    BY <2>1, <2>3 DEF inbound, WireInv, BufferBounded
  <2>4. QED
    BY <2>1, <2>2, <2>3, ReadPreserves, DecodePreserves DEF Next, Encode, Receive, vars
<1>3. QED
  BY <1>1, <1>2, PTL DEF Spec

(* readLoop never holds twice maxInboundPDU octets, and less than           *)
(* maxInboundPDU when it waits, whatever lengths are declared and however   *)
(* the octets arrive.                                                       *)
THEOREM ReaderIsBounded == Spec => []BufferBounded
<1>1. WireInv => BufferBounded
  BY DEF WireInv
<1>2. QED
  BY <1>1, WireInvariant, PTL

-----------------------------------------------------------------------------
(* Framing: the pieces do not matter.                                       *)
-----------------------------------------------------------------------------
(* What a buffer holds of the octets behind another that it begins with. *)
LEMMA LongerBegins ==
  ASSUME NEW b \in Seq(Octet), NEW t \in Seq(Octet), NEW o \in Seq(Octet), NEW r \in Seq(Octet),
         b \o t = o \o r, Len(b) >= Len(o)
  PROVE  /\ SubSeq(b, Len(o) + 1, Len(b)) \in Seq(Octet)
         /\ b = o \o SubSeq(b, Len(o) + 1, Len(b))
<1>1. PICK d : d = SubSeq(b, Len(o) + 1, Len(b))
  OBVIOUS
<1>2. Len(b) \in Nat /\ Len(o) \in Nat /\ Len(t) \in Nat /\ Len(r) \in Nat
  BY LenProperties
<1>3. d \in Seq(Octet) /\ Len(d) = Len(b) - Len(o)
      /\ \A i \in 1..Len(d) : d[i] = b[Len(o) + i]
  <2>1. \A i \in Len(o) + 1..Len(b) : b[i] \in Octet
    BY <1>2, ElementOfSeq
  <2>2. Len(o) + 1 \in Int /\ Len(b) \in Int
    BY <1>2
  <2>3. /\ d \in Seq(Octet) /\ Len(d) = IF Len(o) + 1 <= Len(b) THEN Len(b) - (Len(o) + 1) + 1 ELSE 0
        /\ \A i \in 1..Len(b) - (Len(o) + 1) + 1 : d[i] = b[Len(o) + 1 + i - 1]
    BY <1>1, <2>1, <2>2, SubSeqProperties
  <2>4. QED
    BY <1>2, <2>3
<1>4. /\ Len(b \o t) = Len(b) + Len(t) /\ Len(o \o r) = Len(o) + Len(r)
      /\ \A i \in 1..Len(b) + Len(t) : (b \o t)[i] = IF i <= Len(b) THEN b[i] ELSE t[i - Len(b)]
      /\ \A i \in 1..Len(o) + Len(r) : (o \o r)[i] = IF i <= Len(o) THEN o[i] ELSE r[i - Len(o)]
  BY ConcatProperties
<1>5. Len(b) + Len(t) = Len(o) + Len(r)
  BY <1>4
<1>6. b = o \o d
  <2>1. /\ o \o d \in Seq(Octet) /\ Len(o \o d) = Len(o) + Len(d)
        /\ \A i \in 1..Len(o) + Len(d) : (o \o d)[i] = IF i <= Len(o) THEN o[i] ELSE d[i - Len(o)]
    BY <1>3, ConcatProperties
  <2>2. Len(b) = Len(o \o d)
    BY <1>2, <1>3, <2>1
  <2>3. ASSUME NEW i \in 1..Len(b) PROVE b[i] = (o \o d)[i]
    <3>1. CASE i <= Len(o)
      <4>1. (b \o t)[i] = b[i]
        BY <1>2, <1>4
      <4>2. (o \o r)[i] = o[i]
        BY <1>2, <1>4, <3>1
      <4>3. (o \o d)[i] = o[i]
        BY <1>2, <2>1, <2>2, <3>1
      <4>4. QED
        BY <4>1, <4>2, <4>3
    <3>2. CASE ~(i <= Len(o))
      <4>1. (o \o d)[i] = d[i - Len(o)] /\ i - Len(o) \in 1..Len(d)
        BY <1>2, <1>3, <2>1, <2>2, <3>2
      <4>2. Len(o) + (i - Len(o)) = i
        BY <1>2
      <4>3. QED
        BY <1>3, <4>1, <4>2
    <3>3. QED
      BY <3>1, <3>2
  <2>4. QED
    BY <2>1, <2>2, <2>3, SeqEqual
<1>7. QED
  BY <1>1, <1>3, <1>6

(* A part of a longer buffer that lies in its front. *)
LEMMA SubSeqOfFront ==
  ASSUME NEW b \in Seq(Octet), NEW d \in Seq(Octet), NEW i \in Nat \ {0}, NEW j \in 0..Len(b)
  PROVE  SubSeq(b \o d, i, j) = SubSeq(b, i, j)
<1>1. Len(b) \in Nat /\ i \in Int /\ j \in Int /\ Len(d) \in Nat
  BY LenProperties
<1>2. \A k \in 1..Len(b) : (b \o d)[k] = b[k] /\ b[k] \in Octet
  <2>1. \A k \in 1..Len(b) + Len(d) : (b \o d)[k] = IF k <= Len(b) THEN b[k] ELSE d[k - Len(b)]
    BY ConcatProperties
  <2>2. QED
    BY <1>1, <2>1, ElementOfSeq
<1>3. \A k \in i..j : k \in 1..Len(b)
  BY <1>1
<1>4. \A k \in i..j : b[k] \in Octet /\ (b \o d)[k] \in Octet
  BY <1>2, <1>3
<1>5. /\ SubSeq(b, i, j) \in Seq(Octet) /\ Len(SubSeq(b, i, j)) = IF i <= j THEN j - i + 1 ELSE 0
      /\ \A k \in 1..j - i + 1 : SubSeq(b, i, j)[k] = b[i + k - 1]
  BY <1>1, <1>4, SubSeqProperties
<1>6. /\ SubSeq(b \o d, i, j) \in Seq(Octet)
      /\ Len(SubSeq(b \o d, i, j)) = IF i <= j THEN j - i + 1 ELSE 0
      /\ \A k \in 1..j - i + 1 : SubSeq(b \o d, i, j)[k] = (b \o d)[i + k - 1]
  BY <1>1, <1>4, SubSeqProperties
<1>7. \A k \in 1..Len(SubSeq(b, i, j)) : k \in 1..j - i + 1 /\ i + k - 1 \in 1..Len(b)
  BY <1>1, <1>5
<1>8. QED
  BY <1>2, <1>5, <1>6, <1>7, SeqEqual

(* Unmarshal looks at the octets of the PDU and at no others: behind a PDU *)
(* that is complete, or known not to be one, anything may follow.          *)
LEMMA UnmarshalOfFront ==
  ASSUME NEW b \in Seq(Octet), NEW d \in Seq(Octet), Len(b) >= Sizing,
         headerLen(b) < MandatoryHeaderLength \/ total(b) <= Len(b)
  PROVE  Unmarshal(b \o d) = Unmarshal(b)
<1> DEFINE z == b \o d
<1>1. /\ headerLen(b) \in Nat /\ payloadLen(b) \in Nat
      /\ headerLen(z) = headerLen(b) /\ payloadLen(z) = payloadLen(b)
  BY TotalOfPrefix
<1>2. total(z) = total(b) /\ total(b) \in Nat /\ headerLen(b) <= total(b)
  BY <1>1 DEF total
<1>3. Len(b) \in Nat /\ Len(d) \in Nat /\ Len(z) = Len(b) + Len(d)
  BY LenProperties, ConcatProperties
<1>4. ~(Len(b) < Sizing) /\ ~(Len(z) < Sizing)
  BY <1>3 DEF Sizing
<1>5. MandatoryHeaderLength \in Nat /\ Fixed + xidLength \in Nat /\ Fixed = 16
      /\ MandatoryHeaderLength >= Fixed + xidLength /\ Fixed + xidLength >= 16
      /\ xidLength \in Nat
  BY PDUAssumption DEF MandatoryHeaderLength, Fixed
<1>6. CASE headerLen(b) < MandatoryHeaderLength
  BY <1>1, <1>4, <1>6 DEF Unmarshal
<1>7. CASE ~(headerLen(b) < MandatoryHeaderLength) /\ total(b) <= Len(b)
  <2>1. ~(headerLen(z) < MandatoryHeaderLength) /\ ~(total(b) > Len(b)) /\ ~(total(z) > Len(z))
    BY <1>1, <1>2, <1>3, <1>7
  <2>2. headerLen(b) \in 0..Len(b) /\ total(b) \in 0..Len(b) /\ MandatoryHeaderLength \in 0..Len(b)
        /\ Fixed + xidLength \in 0..Len(b) /\ Len(b) >= 16
    BY <1>1, <1>2, <1>3, <1>5, <1>7
  <2>3. \A i \in 1..16 : z[i] = b[i]
    BY <1>3, <2>2, ConcatProperties, SMTT(30)
  <2>4. Uint16(z, 2) = Uint16(b, 2) /\ Uint16(z, 12) = Uint16(b, 12) /\ Uint16(z, 14) = Uint16(b, 14)
    <3> HIDE DEF z
    <3>1. z[2 + 1] = b[2 + 1] /\ z[2 + 2] = b[2 + 2] /\ z[12 + 1] = b[12 + 1]
          /\ z[12 + 2] = b[12 + 2] /\ z[14 + 1] = b[14 + 1] /\ z[14 + 2] = b[14 + 2]
      BY <2>3
    <3>2. QED
      BY <3>1, Zenon DEF Uint16
  <2>5. /\ Fixed + 1 \in Nat \ {0} /\ Fixed + xidLength + 1 \in Nat \ {0}
        /\ MandatoryHeaderLength + 1 \in Nat \ {0} /\ headerLen(b) + 1 \in Nat \ {0}
    BY <1>1, <1>5
  <2> HIDE DEF z
  <2>6. SubSeq(z, Fixed + 1, Fixed + xidLength) = SubSeq(b, Fixed + 1, Fixed + xidLength)
    BY <2>2, <2>5, SubSeqOfFront DEF z
  <2>7. SubSeq(z, Fixed + xidLength + 1, MandatoryHeaderLength)
          = SubSeq(b, Fixed + xidLength + 1, MandatoryHeaderLength)
    BY <2>2, <2>5, SubSeqOfFront DEF z
  <2>8. SubSeq(z, MandatoryHeaderLength + 1, headerLen(z))
          = SubSeq(b, MandatoryHeaderLength + 1, headerLen(b))
    <3>1. SubSeq(z, MandatoryHeaderLength + 1, headerLen(b))
            = SubSeq(b, MandatoryHeaderLength + 1, headerLen(b))
      BY <2>2, <2>5, SubSeqOfFront DEF z
    <3>2. QED
      BY <1>1, <3>1
  <2>9. SubSeq(z, headerLen(z) + 1, total(z)) = SubSeq(b, headerLen(b) + 1, total(b))
    <3>1. SubSeq(z, headerLen(b) + 1, total(b)) = SubSeq(b, headerLen(b) + 1, total(b))
      BY <2>2, <2>5, SubSeqOfFront DEF z
    <3>2. QED
      BY <1>1, <1>2, <3>1
  <2>10. fields(z) = fields(b)
    BY <2>4, <2>6, <2>7, <2>8, <2>9 DEF fields
  <2>11. z[1] = b[1]
    BY <2>3
  <2>12. Unmarshal(z) = Unmarshal(b)
    BY <1>2, <1>4, <1>7, <2>1, <2>8, <2>10, <2>11 DEF Unmarshal
  <2>13. QED
    BY <2>12 DEF z
<1>8. QED
  BY <1>6, <1>7

(* What the fate of a unit says of the lengths its header declares. *)
LEMMA UnitLengths ==
  ASSUME NEW u \in PeerUnit
  PROVE  /\ Fated(u) /\ u.octets \in Seq(Octet) /\ Len(u.octets) >= Sizing
         /\ headerLen(u.octets) \in Nat /\ total(u.octets) \in Nat
         /\ u.fate # "refused" =>
              /\ headerLen(u.octets) >= MandatoryHeaderLength
              /\ total(u.octets) = Len(u.octets) /\ Len(u.octets) <= maxInboundPDU
              /\ Unmarshal(u.octets) = Decoded(u.pdu, Len(u.octets))
         /\ u.fate = "refused" =>
              \/ /\ headerLen(u.octets) < MandatoryHeaderLength \/ total(u.octets) <= Len(u.octets)
                 /\ Unmarshal(u.octets) = Undecodable
              \/ total(u.octets) > maxInboundPDU /\ Len(u.octets) >= maxInboundPDU
<1> DEFINE o == u.octets
<1>1. Fated(u) /\ o \in Seq(Octet) /\ Len(o) >= Sizing
  BY WireAssumption DEF Fated, Octet
<1>2. headerLen(o) \in Nat /\ payloadLen(o) \in Nat /\ Len(o) \in Nat
  BY <1>1, TotalOfPrefix, LenProperties
<1>3. total(o) \in Nat /\ MandatoryHeaderLength \in Nat
  BY <1>2, PDUAssumption DEF total, MandatoryHeaderLength, Fixed
<1>4. u.fate # "refused" => Unmarshal(o) = Decoded(u.pdu, Len(o)) /\ Len(o) <= maxInboundPDU
  BY <1>1 DEF Fated
<1>5. u.fate = "refused" => Unmarshal(o) = Undecodable \/ (total(o) > maxInboundPDU /\ Len(o) >= maxInboundPDU)
  BY <1>1 DEF Fated
<1> HIDE DEF o
<1>6. u.fate # "refused" => headerLen(o) >= MandatoryHeaderLength /\ total(o) = Len(o)
  <2>1. SUFFICES ASSUME u.fate # "refused"
                 PROVE  headerLen(o) >= MandatoryHeaderLength /\ total(o) = Len(o)
    OBVIOUS
  <2>2. Unmarshal(o).err = "none" /\ Unmarshal(o).used = Len(o)
    BY <1>4, <2>1 DEF Decoded
  <2>3. QED
    BY <1>1, <2>2, UnmarshalOutcomes
<1>7. Unmarshal(o) = Undecodable => headerLen(o) < MandatoryHeaderLength \/ total(o) <= Len(o)
  <2>1. SUFFICES ASSUME Unmarshal(o) = Undecodable, ~(headerLen(o) < MandatoryHeaderLength),
                        total(o) > Len(o)
                 PROVE  FALSE
    BY <1>2, <1>3
  <2>2. Unmarshal(o) = ErrIncomplete
    BY <1>1, <1>2, <2>1 DEF Unmarshal, Sizing
  <2>3. Undecodable.err = "undecodable" /\ ErrIncomplete.err = "incomplete"
    BY DEF Undecodable, ErrIncomplete
  <2>4. QED
    BY <2>1, <2>2, <2>3
<1>8. QED
  BY <1>1, <1>2, <1>3, <1>4, <1>5, <1>6, <1>7 DEF o

(* The inductive invariant: n units have been handed on, and what follows   *)
(* them is in the buffer and in transit; a reader that stopped did so at    *)
(* the unit it handed on last or at the one behind it.  FramingIsExact      *)
(* alone does not say what the buffer begins with.                          *)
Handled(n) == \A i \in 1..n : units[i].fate = "handled"

StoppedAt(n) ==
  \/ n > 0 /\ units[n].fate = "stops" /\ Handled(n - 1)
  \/ n < Len(units) /\ units[n + 1].fate = "refused" /\ Handled(n)

HandedOn(n) ==
  /\ handled = [i \in 1..n |-> units[i].pdu]
  /\ reader = "stopped" => StoppedAt(n)
  /\ reader # "stopped" => Handled(n)
  /\ reader \in {"read", "decode"} => \E G : Cuts(units, G) /\ buf \o transit = G[n]

FramingInv ==
  /\ units \in BoundedSeq(PeerUnit, MaxUnits)
  /\ \E n \in 0..Len(units) : HandedOn(n)

(* Of two strings that begin the same, one begins with the other. *)
BeginsWith(b, t, o, r) ==
  \/ \E d \in Seq(Octet) :
       /\ b = o \o d /\ r = d \o t /\ d = SubSeq(b, Len(o) + 1, Len(b)) /\ Len(b) >= Len(o)
  \/ \E e \in Seq(Octet) : o = b \o e /\ Len(b) < Len(o)

LEMMA OneBegins ==
  ASSUME NEW b \in Seq(Octet), NEW t \in Seq(Octet), NEW o \in Seq(Octet), NEW r \in Seq(Octet),
         b \o t = o \o r
  PROVE  BeginsWith(b, t, o, r)
<1>1. Len(b) \in Nat /\ Len(o) \in Nat
  BY LenProperties
<1>2. CASE Len(b) >= Len(o)
  <2>1. PICK d : d = SubSeq(b, Len(o) + 1, Len(b))
    OBVIOUS
  <2>2. d \in Seq(Octet) /\ b = o \o d
    BY <1>2, <2>1, LongerBegins
  <2>3. (o \o d) \o t = o \o (d \o t) /\ d \o t \in Seq(Octet)
    <3>1. d \in Seq(Octet)
      BY <2>2
    <3>2. QED
      BY <3>1, Joined, Zenon
  <2>4. r = d \o t
    <3>1. o \o r = o \o (d \o t)
      BY <2>2, <2>3
    <3>2. QED
      BY <2>3, <3>1, ConcatSimplifications
  <2>5. QED
    BY <1>2, <2>1, <2>2, <2>4 DEF BeginsWith
<1>3. CASE Len(b) < Len(o)
  <2>1. PICK e : e = SubSeq(o, Len(b) + 1, Len(o))
    OBVIOUS
  <2>2. Len(o) >= Len(b) /\ o \o r = b \o t
    BY <1>1, <1>3
  <2>3. e \in Seq(Octet) /\ o = b \o e
    BY <2>1, <2>2, LongerBegins
  <2>4. QED
    BY <1>3, <2>3 DEF BeginsWith
<1>4. Len(b) >= Len(o) \/ Len(b) < Len(o)
  BY <1>1
<1>5. QED
  BY <1>2, <1>3, <1>4, Zenon

(* The lengths a buffer begins with are those of the unit it begins with,   *)
(* however much of the unit, or of what follows it, the buffer holds.       *)
LEMMA FrontUnit ==
  ASSUME NEW us \in BoundedSeq(PeerUnit, MaxUnits), NEW G, Cuts(us, G), NEW n \in 0..Len(us),
         NEW b \in Seq(Octet), NEW t \in Seq(Octet), b \o t = G[n], b # <<>>
  PROVE  /\ n < Len(us) /\ n + 1 \in 1..Len(us) /\ us[n + 1] \in PeerUnit
         /\ BeginsWith(b, t, us[n + 1].octets, G[n + 1])
         /\ Len(b) >= Sizing => /\ headerLen(b) = headerLen(us[n + 1].octets)
                               /\ total(b) = total(us[n + 1].octets)
<1>1. us \in Seq(PeerUnit) /\ Len(us) \in Nat
  BY UnitsCut
<1>2. n < Len(us)
  <2>1. SUFFICES ASSUME n = Len(us) PROVE FALSE
    BY <1>1
  <2>2. b \o t = <<>>
    BY <2>1 DEF Cuts
  <2>3. QED
    BY <2>2, ConcatSimplifications
<1>3. n + 1 \in 1..Len(us) /\ (n + 1) - 1 = n
  BY <1>1, <1>2
<1>4. us[n + 1] \in PeerUnit
  BY <1>1, <1>3, ElementOfSeq
<1>5. PICK o : o = us[n + 1].octets
  OBVIOUS
<1>6. o \in Seq(Octet) /\ Len(o) >= Sizing /\ Len(o) \in Nat /\ Len(b) \in Nat
  BY <1>4, <1>5, UnitLengths, LenProperties
<1>7. PICK r : r = G[n + 1]
  OBVIOUS
<1>8. b \o t = o \o r /\ r \in Seq(Octet)
  <2>1. G[n] = us[n + 1].octets \o G[n + 1]
    BY <1>3 DEF Cuts
  <2>2. G[n + 1] \in Seq(Octet)
    <3>1. n + 1 \in 0..Len(us)
      BY <1>1, <1>3
    <3>2. QED
      BY <3>1 DEF Cuts
  <2>3. QED
    BY <1>5, <1>7, <2>1, <2>2
<1>9. BeginsWith(b, t, o, r)
  BY <1>6, <1>8, OneBegins
<1>10. Len(b) >= Sizing => headerLen(b) = headerLen(o) /\ total(b) = total(o)
  <2>1. Len(b) >= Sizing => headerLen(b) = headerLen(o) /\ payloadLen(b) = payloadLen(o)
    BY <1>6, <1>9, TotalOfPrefix DEF BeginsWith
  <2>2. QED
    BY <2>1 DEF total
<1>11. QED
  BY <1>2, <1>3, <1>4, <1>5, <1>7, <1>9, <1>10, Zenon

(* A read: what is in the buffer and in transit stays what it is, and the   *)
(* claim that is refused is one of a unit that is.                          *)
LEMMA ReadFrames ==
  ASSUME WireInv, FramingInv, read
  PROVE  FramingInv'
<1>1. PICK k \in Pieces : LET b == buf \o SubSeq(transit, 1, k) IN
        /\ reader = "read" /\ k <= Len(transit)
        /\ buf' = b
        /\ transit' = SubSeq(transit, k + 1, Len(transit))
        /\ reader' = IF Len(b) >= Sizing /\ declared(b) > maxInboundPDU THEN "stopped" ELSE "decode"
        /\ units' = units /\ handled' = handled
  BY DEF read
<1>2. /\ k \in Nat /\ k > 0 /\ Len(transit) \in Nat /\ transit \in Seq(Octet) /\ buf \in Seq(Octet)
  BY WireAssumption, LenProperties DEF WireInv
<1>3. PICK d, t, b : d = SubSeq(transit, 1, k) /\ t = SubSeq(transit, k + 1, Len(transit)) /\ b = buf \o d
  OBVIOUS
<1>4. d \in Seq(Octet) /\ t \in Seq(Octet) /\ b \in Seq(Octet)
  BY <1>1, <1>2, <1>3, SubSeqProperties, ConcatProperties
<1>5. d \o t = transit
  <2>1. 1 \in 1..Len(transit) + 1 /\ k \in 1 - 1..Len(transit) /\ Len(transit) \in k..Len(transit)
    BY <1>1, <1>2
  <2>2. SubSeq(transit, 1, k) \o SubSeq(transit, k + 1, Len(transit)) = SubSeq(transit, 1, Len(transit))
    BY <1>2, <2>1, ConcatAdjacentSubSeq
  <2>3. SubSeq(transit, 1, Len(transit)) = transit
    BY <1>2, SubSeqFull
  <2>4. QED
    BY <1>3, <2>2, <2>3
<1>6. b \o t = buf \o transit
  <2>1. (buf \o d) \o t = buf \o (d \o t)
    BY <1>2, <1>4, Associates
  <2>2. QED
    BY <1>3, <1>5, <2>1
<1>7. PICK n \in 0..Len(units) : HandedOn(n)
  BY DEF FramingInv
<1>8. PICK G : Cuts(units, G) /\ b \o t = G[n]
  BY <1>1, <1>6, <1>7 DEF HandedOn
<1>9. units \in BoundedSeq(PeerUnit, MaxUnits) /\ Handled(n) /\ handled = [i \in 1..n |-> units[i].pdu]
  BY <1>1, <1>7 DEF HandedOn, FramingInv
<1>10. buf' = b /\ transit' = t /\ units' = units /\ handled' = handled
       /\ reader' = IF Len(b) >= Sizing /\ declared(b) > maxInboundPDU THEN "stopped" ELSE "decode"
  BY <1>1, <1>3
<1>11. Handled(n)'
  BY <1>9, <1>10 DEF Handled
<1>12. reader' = "stopped" => StoppedAt(n)'
  <2>1. SUFFICES ASSUME Len(b) >= Sizing, declared(b) > maxInboundPDU
                 PROVE  StoppedAt(n)'
    BY <1>10
  <2>2. b # <<>>
    BY <2>1 DEF Sizing
  <2>3. /\ n < Len(units) /\ units[n + 1] \in PeerUnit
        /\ total(b) = total(units[n + 1].octets)
    BY <1>4, <1>8, <1>9, <2>1, <2>2, FrontUnit, Zenon
  <2>4. total(units[n + 1].octets) > maxInboundPDU
    BY <2>1, <2>3 DEF total, declared
  <2>5. units[n + 1].fate = "refused"
    BY <2>3, <2>4, UnitLengths, WireAssumption, LenProperties
  <2>6. QED
    BY <1>10, <1>11, <2>3, <2>5 DEF StoppedAt
<1>13. HandedOn(n)'
  BY <1>8, <1>9, <1>10, <1>11, <1>12 DEF HandedOn
<1>14. QED
  BY <1>9, <1>10, <1>13 DEF FramingInv

(* What the reader finds at the front of the buffer: a part of the next     *)
(* unit, that unit, or that it is not acceptable.                           *)
LEMMA FrontDecodes ==
  ASSUME NEW u \in PeerUnit, NEW b \in Seq(Octet), NEW t \in Seq(Octet), NEW r \in Seq(Octet),
         Agreed(b), BeginsWith(b, t, u.octets, r),
         Len(b) >= Sizing => headerLen(b) = headerLen(u.octets) /\ total(b) = total(u.octets)
  PROVE  \/ Unmarshal(b).err = "incomplete"
         \/ Unmarshal(b).err = "undecodable" /\ u.fate = "refused"
         \/ /\ Unmarshal(b).err = "none" /\ u.fate # "refused"
            /\ Unmarshal(b).pdu = u.pdu
            /\ SubSeq(b, Unmarshal(b).used + 1, Len(b)) \in Seq(Octet)
            /\ r = SubSeq(b, Unmarshal(b).used + 1, Len(b)) \o t
<1>1. PICK o : o = u.octets
  OBVIOUS
<1>2. /\ o \in Seq(Octet) /\ Len(o) >= Sizing /\ headerLen(o) \in Nat /\ total(o) \in Nat
      /\ u.fate # "refused" =>
           /\ headerLen(o) >= MandatoryHeaderLength
           /\ total(o) = Len(o) /\ Len(o) <= maxInboundPDU
           /\ Unmarshal(o) = Decoded(u.pdu, Len(o))
      /\ u.fate = "refused" =>
           \/ /\ headerLen(o) < MandatoryHeaderLength \/ total(o) <= Len(o)
              /\ Unmarshal(o) = Undecodable
           \/ total(o) > maxInboundPDU /\ Len(o) >= maxInboundPDU
  BY <1>1, UnitLengths
<1>3. /\ Len(o) \in Nat /\ Len(b) \in Nat /\ maxInboundPDU \in Nat
      /\ MandatoryHeaderLength \in Nat
  BY <1>2, LenProperties, WireAssumption, PDUAssumption DEF MandatoryHeaderLength, Fixed
<1>4. ErrIncomplete.err = "incomplete" /\ Undecodable.err = "undecodable"
      /\ \A p, n : Decoded(p, n).err = "none" /\ Decoded(p, n).used = n /\ Decoded(p, n).pdu = p
  BY DEF ErrIncomplete, Undecodable, Decoded
<1>5. ~(total(o) > maxInboundPDU /\ Len(b) >= maxInboundPDU)
  BY <1>1, <1>2, <1>3 DEF Agreed
<1>6. Len(b) >= Sizing => headerLen(b) = headerLen(o) /\ total(b) = total(o)
  BY <1>1
<1>7. BeginsWith(b, t, o, r)
  BY <1>1
<1>8. CASE \E d \in Seq(Octet) :
             b = o \o d /\ r = d \o t /\ d = SubSeq(b, Len(o) + 1, Len(b)) /\ Len(b) >= Len(o)
  <2>1. PICK d \in Seq(Octet) :
          b = o \o d /\ r = d \o t /\ d = SubSeq(b, Len(o) + 1, Len(b)) /\ Len(b) >= Len(o)
    BY <1>8
  <2>2. ~(total(o) > maxInboundPDU /\ Len(o) >= maxInboundPDU)
    BY <1>3, <1>5, <2>1
  <2>3. headerLen(o) < MandatoryHeaderLength \/ total(o) <= Len(o)
    BY <1>2, <1>3, <2>2
  <2>4. Unmarshal(b) = Unmarshal(o)
    BY <1>2, <2>1, <2>3, UnmarshalOfFront
  <2>5. CASE u.fate = "refused"
    BY <1>2, <1>4, <2>2, <2>4, <2>5, Zenon
  <2>6. CASE u.fate # "refused"
    <3>1. Unmarshal(b) = Decoded(u.pdu, Len(o))
      BY <1>2, <2>4, <2>6
    <3>2. Unmarshal(b).err = "none" /\ Unmarshal(b).pdu = u.pdu
      BY <1>4, <3>1
    <3>3. Unmarshal(b).used = Len(o)
      BY <1>4, <3>1
    <3>4. d = SubSeq(b, Unmarshal(b).used + 1, Len(b))
      BY <2>1, <3>3, Zenon
    <3>5. SubSeq(b, Unmarshal(b).used + 1, Len(b)) \in Seq(Octet)
          /\ r = SubSeq(b, Unmarshal(b).used + 1, Len(b)) \o t
      BY <2>1, <3>4, Zenon
    <3>6. QED
      BY <2>6, <3>2, <3>5, Zenon
  <2>7. QED
    BY <2>5, <2>6
<1>9. CASE \E e \in Seq(Octet) : o = b \o e /\ Len(b) < Len(o)
  <2>1. PICK e \in Seq(Octet) : o = b \o e /\ Len(b) < Len(o)
    BY <1>9
  <2>2. CASE u.fate # "refused"
    <3>1. CASE Len(b) < Sizing
      BY <1>4, <3>1 DEF Unmarshal
    <3>2. CASE ~(Len(b) < Sizing)
      <4>1. ~(headerLen(b) < MandatoryHeaderLength) /\ total(b) > Len(b)
        BY <1>2, <1>3, <1>6, <2>1, <2>2, <3>2 DEF Sizing
      <4>2. Unmarshal(b) = ErrIncomplete
        BY <3>2, <4>1 DEF Unmarshal
      <4>3. QED
        BY <1>4, <4>2
    <3>3. QED
      BY <3>1, <3>2
  <2>3. CASE u.fate = "refused"
    <3>1. Unmarshal(b).err \in {"incomplete", "undecodable", "none"}
      BY UnmarshalOutcomes
    <3>2. ASSUME Unmarshal(b).err = "none" PROVE FALSE
      <4>1. Len(b) >= Sizing /\ total(b) <= Len(b)
        BY <3>2, UnmarshalOutcomes
      <4>2. Unmarshal(o) = Unmarshal(b)
        BY <2>1, <4>1, UnmarshalOfFront
      <4>3. Unmarshal(o) # Undecodable
        BY <1>4, <3>2, <4>2
      <4>4. total(o) > maxInboundPDU
        BY <1>2, <2>3, <4>3
      <4>5. QED
        BY <1>2, <1>3, <1>5, <1>6, <4>1, <4>4
    <3>3. QED
      BY <2>3, <3>1, <3>2
  <2>4. QED
    BY <2>2, <2>3
<1>10. QED
  BY <1>7, <1>8, <1>9, Zenon DEF BeginsWith

LEMMA OneMore ==
  ASSUME NEW us, NEW n \in Nat
  PROVE  Append([i \in 1..n |-> us[i].pdu], us[n + 1].pdu) = [i \in 1..n + 1 |-> us[i].pdu]
<1>1. PICK s, z, S : /\ s = [i \in 1..n |-> us[i].pdu] /\ z = [i \in 1..n + 1 |-> us[i].pdu]
                     /\ S = {us[i].pdu : i \in 1..n + 1}
  OBVIOUS
<1>2. s \in Seq(S) /\ Len(s) = n /\ z \in Seq(S) /\ Len(z) = n + 1 /\ us[n + 1].pdu \in S
  BY <1>1
<1>3. /\ Append(s, us[n + 1].pdu) \in Seq(S) /\ Len(Append(s, us[n + 1].pdu)) = n + 1
      /\ \A i \in 1..n + 1 :
           Append(s, us[n + 1].pdu)[i] = IF i <= n THEN s[i] ELSE us[n + 1].pdu
  BY <1>2, AppendProperties
<1>4. ASSUME NEW i \in 1..n + 1
      PROVE  Append(s, us[n + 1].pdu)[i] = z[i]
  <2>1. i = n + 1 \/ i \in 1..n
    OBVIOUS
  <2>2. QED
    BY <1>1, <1>3, <2>1
<1>5. Append(s, us[n + 1].pdu) = z
  BY <1>2, <1>3, <1>4, SeqEqual
<1>6. QED
  BY <1>1, <1>5

(* Decoding: the unit at the front is handed on, or awaited, or refused. *)
LEMMA DecodeFrames ==
  ASSUME WireInv, FramingInv, decode
  PROVE  FramingInv'
<1>1. PICK n \in 0..Len(units) : HandedOn(n)
  BY DEF FramingInv
<1>2. PICK v : v = Unmarshal(buf)
  OBVIOUS
<1>3. /\ reader = "decode" /\ units' = units /\ transit' = transit
      /\ CASE v.err = "incomplete" -> reader' = "read" /\ UNCHANGED <<buf, handled>>
           [] v.err = "undecodable" -> reader' = "stopped" /\ UNCHANGED <<buf, handled>>
           [] v.err = "none" -> /\ buf' = SubSeq(buf, v.used + 1, Len(buf))
                                /\ handled' = Append(handled, v.pdu)
                                /\ reader' \in handleInbound(v.pdu)
  BY <1>2 DEF decode
<1>4. /\ buf \in Seq(Octet) /\ transit \in Seq(Octet) /\ Agreed(buf)
      /\ units \in BoundedSeq(PeerUnit, MaxUnits)
  BY <1>3 DEF WireInv, FramingInv
<1>5. PICK G : Cuts(units, G) /\ buf \o transit = G[n]
  BY <1>1, <1>3 DEF HandedOn
<1>6. Handled(n) /\ handled = [i \in 1..n |-> units[i].pdu] /\ Len(units) \in Nat /\ n \in Nat
  BY <1>1, <1>3, <1>4, UnitsCut DEF HandedOn
<1>7. Handled(n)'
  BY <1>3, <1>6 DEF Handled
<1>8. CASE v.err = "incomplete"
  <2>1. reader' = "read" /\ buf' = buf /\ handled' = handled
    BY <1>3, <1>8
  <2>2. HandedOn(n)'
    BY <1>3, <1>5, <1>6, <1>7, <2>1 DEF HandedOn
  <2>3. QED
    BY <1>3, <1>4, <2>2 DEF FramingInv
<1>9. CASE v.err # "incomplete"
  <2>1. buf # <<>>
    <3>1. ErrIncomplete.err = "incomplete" /\ Len(<<>>) < Sizing
      BY DEF ErrIncomplete, Sizing
    <3>2. QED
      BY <1>2, <1>9, <3>1 DEF Unmarshal
  <2>2. PICK u : u = units[n + 1]
    OBVIOUS
  <2>3. /\ n < Len(units) /\ n + 1 \in 1..Len(units) /\ u \in PeerUnit
        /\ BeginsWith(buf, transit, u.octets, G[n + 1])
        /\ Len(buf) >= Sizing => headerLen(buf) = headerLen(u.octets) /\ total(buf) = total(u.octets)
    BY <1>4, <1>5, <2>1, <2>2, FrontUnit, Zenon
  <2>4. G[n + 1] \in Seq(Octet)
    <3>1. n + 1 \in 0..Len(units)
      BY <1>6, <2>3
    <3>2. QED
      BY <1>5, <3>1 DEF Cuts
  <2>5. \/ v.err = "undecodable" /\ u.fate = "refused"
        \/ /\ v.err = "none" /\ u.fate # "refused" /\ v.pdu = u.pdu
           /\ G[n + 1] = SubSeq(buf, v.used + 1, Len(buf)) \o transit
    BY <1>2, <1>4, <1>9, <2>3, <2>4, FrontDecodes, Zenon
  <2>6. CASE v.err = "undecodable" /\ u.fate = "refused"
    <3>1. reader' = "stopped" /\ handled' = handled
      BY <1>3, <2>6
    <3>2. StoppedAt(n)'
      BY <1>3, <1>7, <2>2, <2>3, <2>6 DEF StoppedAt
    <3>3. HandedOn(n)'
      BY <1>3, <1>6, <3>1, <3>2 DEF HandedOn
    <3>4. QED
      BY <1>3, <1>4, <3>3 DEF FramingInv
  <2>7. CASE /\ v.err = "none" /\ u.fate # "refused" /\ v.pdu = u.pdu
             /\ G[n + 1] = SubSeq(buf, v.used + 1, Len(buf)) \o transit
    <3>1. /\ buf' = SubSeq(buf, v.used + 1, Len(buf)) /\ reader' \in handleInbound(u.pdu)
          /\ handled' = Append(handled, u.pdu)
      BY <1>3, <2>7
    <3>2. Cuts(units, G)' /\ (buf \o transit)' = G[n + 1]
      BY <1>3, <1>5, <2>7, <3>1, Zenon DEF Cuts
    <3>3. handled' = [i \in 1..n + 1 |-> units'[i].pdu]
      <4>1. Append([i \in 1..n |-> units[i].pdu], units[n + 1].pdu) = [i \in 1..n + 1 |-> units[i].pdu]
        BY <1>6, OneMore
      <4>2. handled' = [i \in 1..n + 1 |-> units[i].pdu]
        BY <1>6, <2>2, <3>1, <4>1
      <4>3. QED
        BY <1>3, <4>2
    <3>4. /\ u.fate = "handled" \/ u.fate = "stops"
          /\ u.fate = "stops" <=> handleInbound(u.pdu) = {"stopped"}
      BY <2>3, <2>7, UnitLengths DEF Fated
    <3>5. /\ n + 1 \in 0..Len(units') /\ n + 1 \in Nat /\ n + 1 > 0 /\ (n + 1) - 1 = n
          /\ units'[n + 1] = u
      BY <1>3, <1>6, <2>2, <2>3
    <3>6. CASE u.fate = "stops"
      <4>1. reader' = "stopped"
        BY <3>1, <3>4, <3>6
      <4>2. StoppedAt(n + 1)'
        BY <1>7, <3>5, <3>6 DEF StoppedAt
      <4>3. HandedOn(n + 1)'
        BY <3>3, <4>1, <4>2 DEF HandedOn
      <4>4. QED
        BY <1>3, <1>4, <3>5, <4>3 DEF FramingInv
    <3>7. CASE u.fate = "handled"
      <4>1. reader' \in {"decode", "ended"}
        <5>1. handleInbound(u.pdu) # {"stopped"}
          BY <3>4, <3>7
        <5>2. QED
          BY <3>1, <5>1 DEF handleInbound
      <4>2. Handled(n + 1)'
        <5>1. \A i \in 1..n + 1 : i = n + 1 \/ i \in 1..n
          BY <1>6
        <5>2. QED
          BY <1>7, <3>5, <3>7, <5>1 DEF Handled
      <4>3. HandedOn(n + 1)'
        BY <3>2, <3>3, <4>1, <4>2 DEF HandedOn
      <4>4. QED
        BY <1>3, <1>4, <3>5, <4>3 DEF FramingInv
    <3>8. QED
      BY <3>4, <3>6, <3>7
  <2>8. QED
    BY <2>5, <2>6, <2>7, Zenon
<1>10. QED
  BY <1>8, <1>9

(* The invariant holds of every run of readLoop, whatever the mediation     *)
(* function writes and in whatever pieces it arrives.                       *)
THEOREM FramingInvariant == Spec => [](WireInv /\ FramingInv)
<1>1. Init => FramingInv
  <2>1. SUFFICES ASSUME Init
                 PROVE  FramingInv
    OBVIOUS
  <2>2. /\ units \in BoundedSeq(PeerUnit, MaxUnits) /\ transit = Octets(units)
        /\ buf = <<>> /\ reader = "read" /\ handled = <<>>
    BY <2>1 DEF Init
  <2>3. PICK G : Cuts(units, G) /\ G[0] = Octets(units)
    BY <2>2, UnitsCut
  <2>4. Len(units) \in Nat
    BY <2>2, UnitsCut
  <2>5. 0 \in 0..Len(units) /\ 1..0 = {}
    BY <2>4
  <2>6. buf \o transit = G[0]
    <3>1. G[0] \in Seq(Octet)
      BY <2>3, <2>5 DEF Cuts
    <3>2. <<>> \o G[0] = G[0]
      BY <3>1, ConcatEmptySeq
    <3>3. QED
      BY <2>2, <2>3, <3>2
  <2>7. handled = [i \in 1..0 |-> units[i].pdu]
    BY <2>2, <2>5
  <2>8. HandedOn(0)
    BY <2>2, <2>3, <2>5, <2>6, <2>7 DEF HandedOn, Handled
  <2>9. QED
    BY <2>2, <2>5, <2>8 DEF FramingInv
<1>2. WireInv /\ FramingInv /\ [Next]_vars => FramingInv'
  <2>1. SUFFICES ASSUME WireInv, FramingInv, [Next]_vars
                 PROVE  FramingInv'
    OBVIOUS
  <2>2. CASE readError
    <3>1. reader = "read" /\ reader' = "ended" /\ units' = units /\ handled' = handled
      BY <2>2 DEF readError
    <3>2. PICK n \in 0..Len(units) : HandedOn(n)
      BY <2>1 DEF FramingInv
    <3>3. HandedOn(n)'
      BY <3>1, <3>2 DEF HandedOn, Handled
    <3>4. QED
      BY <2>1, <3>1, <3>3 DEF FramingInv
  <2>3. CASE UNCHANGED inbound
    <3>1. PICK n \in 0..Len(units) : HandedOn(n)
      BY <2>1 DEF FramingInv
    <3>2. HandedOn(n)'
      BY <2>3, <3>1 DEF HandedOn, Handled, StoppedAt, Cuts, inbound
    <3>3. QED
      BY <2>1, <2>3, <3>2 DEF FramingInv, inbound
  <2>4. QED
    BY <2>1, <2>2, <2>3, ReadFrames, DecodeFrames DEF Next, Encode, Receive, vars
<1>3. QED
  BY <1>1, <1>2, WireInvariant, PTL DEF Spec

(* The units that are due are the first ones. *)
LEMMA DueAreFirst ==
  ASSUME Len(units) \in Nat, DOMAIN units = 1..Len(units)
  PROVE  \E m \in 0..Len(units) : Due = 1..m
<1> DEFINE T == {i \in 1..Len(units) + 1 : i \notin Due}
<1>1. Due \subseteq 1..Len(units)
  BY DEF Due
<1>2. T \in SUBSET Nat /\ Len(units) + 1 \in T
  BY <1>1
<1>3. PICK k \in T : \A y \in T : k <= y
  <2> HIDE DEF T
  <2>1. QED
    BY <1>2, LeastNatural
<1>4. k \in 1..Len(units) + 1 /\ k \notin Due /\ k - 1 \in 0..Len(units)
  BY <1>3
<1>5. 1..k - 1 \subseteq Due
  BY <1>3, <1>4
<1>6. ASSUME NEW i \in Due PROVE i \in 1..k - 1
  <2>1. SUFFICES ASSUME k <= i PROVE FALSE
    BY <1>1, <1>4
  <2>2. i \in 1..Len(units) /\ k \in 1..Len(units) /\ k # i
    BY <1>1, <1>4, <2>1
  <2>3. units[k].fate = "handled" /\ \A j \in 1..k - 1 : units[j].fate = "handled"
    BY <2>1, <2>2 DEF Due
  <2>4. QED
    BY <1>4, <2>2, <2>3 DEF Due
<1>7. QED
  BY <1>4, <1>5, <1>6

(* A reader that waits with nothing in transit has handed on every unit:    *)
(* the first that it has not would be in the buffer, whole.                 *)
LEMMA NothingLeft ==
  ASSUME WireInv, FramingInv, NEW n \in 0..Len(units), HandedOn(n),
         reader = "read", transit = <<>>
  PROVE  n = Len(units)
<1>1. PICK G : Cuts(units, G) /\ buf \o transit = G[n]
  BY DEF HandedOn
<1>2. units \in BoundedSeq(PeerUnit, MaxUnits) /\ buf \in Seq(Octet) /\ transit \in Seq(Octet)
      /\ Part(buf) /\ Len(buf) < maxInboundPDU /\ maxInboundPDU \in Nat
  BY WireAssumption DEF WireInv, FramingInv, BufferBounded
<1>3. Len(units) \in Nat /\ units \in Seq(PeerUnit)
  BY <1>2, UnitsCut
<1>4. SUFFICES ASSUME n < Len(units) PROVE FALSE
  BY <1>3
<1>5. n + 1 \in 1..Len(units) /\ n + 1 \in 0..Len(units) /\ (n + 1) - 1 = n
  BY <1>3, <1>4
<1>6. PICK u, r : u = units[n + 1] /\ r = G[n + 1]
  OBVIOUS
<1>7. u \in PeerUnit /\ r \in Seq(Octet) /\ G[n] = u.octets \o r
  <2>1. u \in PeerUnit
    BY <1>3, <1>5, <1>6, ElementOfSeq
  <2>2. r \in Seq(Octet) /\ G[n] = u.octets \o r
    BY <1>1, <1>5, <1>6 DEF Cuts
  <2>3. QED
    BY <2>1, <2>2
<1>8. /\ u.octets \in Seq(Octet) /\ Len(u.octets) >= Sizing
      /\ headerLen(u.octets) \in Nat /\ total(u.octets) \in Nat
      /\ u.fate # "refused" => total(u.octets) = Len(u.octets)
      /\ u.fate = "refused" => \/ headerLen(u.octets) < MandatoryHeaderLength
                               \/ total(u.octets) <= Len(u.octets)
                               \/ Len(u.octets) >= maxInboundPDU
  BY <1>7, UnitLengths
<1>9. buf = u.octets \o r
  <2>1. buf \o <<>> = buf
    BY <1>2, ConcatEmptySeq
  <2>2. QED
    BY <1>1, <1>7, <2>1
<1>10. Len(buf) = Len(u.octets) + Len(r) /\ Len(r) \in Nat /\ Len(u.octets) \in Nat
  <2>1. Len(u.octets \o r) = Len(u.octets) + Len(r)
    BY <1>7, <1>8, ConcatProperties
  <2>2. QED
    BY <1>7, <1>8, <1>9, <2>1, LenProperties
<1>11. headerLen(buf) = headerLen(u.octets) /\ total(buf) = total(u.octets)
  <2>1. headerLen(buf) = headerLen(u.octets) /\ payloadLen(buf) = payloadLen(u.octets)
    BY <1>7, <1>8, <1>9, TotalOfPrefix
  <2>2. QED
    BY <2>1 DEF total
<1>12. MandatoryHeaderLength \in Nat
  BY PDUAssumption DEF MandatoryHeaderLength, Fixed
<1>13. headerLen(u.octets) >= MandatoryHeaderLength /\ total(u.octets) > Len(u.octets) + Len(r)
  BY <1>2, <1>8, <1>10, <1>11 DEF Part, Sizing
<1>14. QED
  BY <1>2, <1>8, <1>10, <1>12, <1>13

LEMMA FramesExactly ==
  ASSUME WireInv, FramingInv
  PROVE  FramingIsExact
<1>1. PICK n \in 0..Len(units) : HandedOn(n)
  BY DEF FramingInv
<1>2. Len(units) \in Nat /\ DOMAIN units = 1..Len(units)
  BY UnitsCut DEF FramingInv
<1>3. PICK m \in 0..Len(units) : Due = 1..m
  BY <1>2, DueAreFirst
<1>4. Expected = [i \in 1..m |-> units[i].pdu]
  BY <1>3 DEF Expected
<1>5. n \in Nat /\ m \in Nat
  BY <1>2
<1>6. Handled(n) \/ (n > 0 /\ units[n].fate = "stops" /\ Handled(n - 1))
  BY <1>1 DEF HandedOn, StoppedAt
<1>7. n <= m
  <2>1. CASE n = 0
    BY <1>5, <2>1
  <2>2. CASE n # 0
    <3>1. n \in 1..Len(units) /\ units[n].fate # "refused"
      BY <1>2, <1>5, <1>6, <2>2 DEF Handled
    <3>2. \A j \in 1..n - 1 : units[j].fate = "handled"
      BY <1>5, <1>6 DEF Handled
    <3>3. n \in Due
      BY <1>2, <3>1, <3>2 DEF Due
    <3>4. QED
      BY <1>3, <3>3
  <2>3. QED
    BY <2>1, <2>2
<1>8. handled = [i \in 1..n |-> units[i].pdu]
  BY <1>1 DEF HandedOn
<1>9. IsPrefix(handled, Expected)
  <2>1. PICK S : S = {units[i].pdu : i \in 1..m}
    OBVIOUS
  <2>2. handled \in Seq(S) /\ Len(handled) = n /\ Expected \in Seq(S) /\ Len(Expected) = m
    BY <1>4, <1>5, <1>7, <1>8, <2>1
  <2>3. \A i \in 1..n : handled[i] = Expected[i] /\ handled[i] \in S /\ Expected[i] \in S
    BY <1>4, <1>5, <1>7, <1>8, <2>1
  <2>4. /\ SubSeq(handled, 1, n) \in Seq(S) /\ Len(SubSeq(handled, 1, n)) = n
        /\ \A i \in 1..n : SubSeq(handled, 1, n)[i] = handled[i]
    BY <1>5, <2>2, <2>3, SubSeqProperties
  <2>5. /\ SubSeq(Expected, 1, n) \in Seq(S) /\ Len(SubSeq(Expected, 1, n)) = n
        /\ \A i \in 1..n : SubSeq(Expected, 1, n)[i] = Expected[i]
    BY <1>5, <1>7, <2>2, <2>3, SubSeqProperties
  <2>6. SubSeq(handled, 1, n) = SubSeq(Expected, 1, n)
    BY <2>3, <2>4, <2>5, SeqEqual
  <2>7. QED
    BY <1>5, <1>7, <2>2, <2>6 DEF IsPrefix
<1>10. ASSUME reader = "stopped"
       PROVE  m = n /\ \E i \in DOMAIN units : units[i].fate # "handled"
  <2>1. StoppedAt(n)
    BY <1>1, <1>10 DEF HandedOn
  <2>2. n + 1 \notin Due
    BY <1>2, <1>5, <2>1 DEF Due, StoppedAt
  <2>3. m = n
    BY <1>3, <1>5, <1>7, <2>2
  <2>4. QED
    BY <1>2, <1>5, <2>1, <2>3 DEF StoppedAt
<1>11. ASSUME reader = "read", transit = <<>>
       PROVE  m = n /\ \A i \in DOMAIN units : units[i].fate = "handled"
  <2>1. n = Len(units)
    BY <1>1, <1>11, NothingLeft
  <2>2. Handled(n)
    BY <1>1, <1>11 DEF HandedOn
  <2>3. QED
    BY <1>2, <1>5, <1>7, <2>1, <2>2 DEF Handled
<1>12. m = n => handled = Expected
  BY <1>4, <1>8
<1>13. QED
  BY <1>9, <1>10, <1>11, <1>12, Zenon DEF FramingIsExact

(* readLoop hands on exactly the PDUs that were written, in their order, up *)
(* to the first that is not acceptable, for every sequence of units and     *)
(* every way their octets are cut into reads.                               *)
THEOREM PiecesDoNotMatter == Spec => []FramingIsExact
<1>1. WireInv /\ FramingInv => FramingIsExact
  BY FramesExactly
<1>2. QED
  BY <1>1, FramingInvariant, PTL

-----------------------------------------------------------------------------
(* Numbers in octets: what PutUint16 and PutUint32 write, Uint16 and Uint32 *)
(* read back.                                                               *)
-----------------------------------------------------------------------------
(* A quotient and a remainder below the divisor are the only ones. *)
LEMMA Division ==
  ASSUME NEW m \in Nat \ {0}, NEW q \in Nat, NEW r \in 0..m - 1,
         NEW p \in Nat, NEW s \in 0..m - 1, q * m + r = p * m + s
  PROVE  p = q /\ r = s
<1>1. ASSUME NEW a \in Nat, NEW b \in Nat, a < b PROVE a * m + m <= b * m
  <2>1. PICK i \in Nat : b = a + 1 + i
    <3>1. b - a - 1 \in Nat /\ b = a + 1 + (b - a - 1)
      BY <1>1
    <3>2. QED
      BY <3>1
  <2>2. b * m = a * m + m + i * m
    BY <2>1
  <2>3. i * m \in Nat /\ a * m \in Nat /\ b * m \in Nat
    OBVIOUS
  <2>4. QED
    BY <2>2, <2>3
<1>2. p * m \in Nat /\ q * m \in Nat
  OBVIOUS
<1>3. ~(p < q)
  <2>1. p < q => p * m + m <= q * m
    BY <1>1
  <2>2. QED
    BY <1>2, <2>1
<1>4. ~(q < p)
  <2>1. q < p => q * m + m <= p * m
    BY <1>1
  <2>2. QED
    BY <1>2, <2>1
<1>5. p = q
  BY <1>3, <1>4
<1>6. QED
  BY <1>2, <1>5

LEMMA DivMod ==
  ASSUME NEW m \in Nat \ {0}, NEW v \in Nat
  PROVE  v \div m \in Nat /\ v % m \in 0..m - 1 /\ v = (v \div m) * m + (v % m)
<1>1. v \div m \in Nat /\ v % m \in 0..m - 1
  OBVIOUS
<1>2. v = m * (v \div m) + (v % m)
  OBVIOUS
<1>3. \A x \in Nat : m * x = x * m
  OBVIOUS
<1>4. QED
  BY <1>1, <1>2, <1>3

(* What is below a product has a quotient below the other factor. *)
LEMMA Quotient ==
  ASSUME NEW m \in Nat \ {0}, NEW k \in Nat, NEW v \in Nat, v < k * m
  PROVE  v \div m \in 0..k - 1
<1>1. PICK q : q = v \div m
  OBVIOUS
<1>2. PICK r : r = v % m
  OBVIOUS
<1>3. q \in Nat /\ r \in Nat /\ v = q * m + r
  BY <1>1, <1>2, DivMod
<1>4. ASSUME q >= k PROVE FALSE
  <2>1. PICK i \in Nat : q = k + i
    <3>1. q - k \in Nat /\ q = k + (q - k)
      BY <1>3, <1>4
    <3>2. QED
      BY <3>1
  <2>2. q * m = k * m + i * m
    BY <2>1
  <2>3. i * m \in Nat /\ k * m \in Nat
    OBVIOUS
  <2>4. QED
    BY <1>3, <2>2, <2>3
<1>5. QED
  BY <1>1, <1>3, <1>4

(* The two octets PutUint16 writes, of a number of any size. *)
LEMMA PutUint16Value ==
  ASSUME NEW v \in Nat
  PROVE  /\ PutUint16(v) \in Seq(Octet) /\ Len(PutUint16(v)) = 2
         /\ Uint16(PutUint16(v), 0) = v % (Radix * Radix)
<1>1. Radix \in Nat \ {0} /\ Radix * Radix \in Nat \ {0}
  BY PDUAssumption
<1>2. PICK q, r : q = v \div Radix /\ r = v % Radix
  OBVIOUS
<1>3. q \in Nat /\ r \in Octet /\ v = q * Radix + r
  BY <1>1, <1>2, DivMod DEF Octet
<1>4. PICK q1, q0 : q1 = q \div Radix /\ q0 = q % Radix
  OBVIOUS
<1>5. q1 \in Nat /\ q0 \in Octet /\ q = q1 * Radix + q0
  BY <1>1, <1>3, <1>4, DivMod DEF Octet
<1>6. PutUint16(v) = <<q0, r>>
  BY <1>2, <1>4 DEF PutUint16
<1>7. Uint16(PutUint16(v), 0) = q0 * Radix + r
  BY <1>6 DEF Uint16
<1>8. q0 * Radix + r \in 0..Radix * Radix - 1
  <2>1. PICK i \in Nat : Radix = q0 + 1 + i
    <3>1. Radix - q0 - 1 \in Nat /\ Radix = q0 + 1 + (Radix - q0 - 1)
      BY <1>1, <1>5 DEF Octet
    <3>2. QED
      BY <3>1
  <2>2. Radix * Radix = q0 * Radix + Radix + i * Radix
    BY <1>1, <1>5, <2>1 DEF Octet
  <2>3. i * Radix \in Nat /\ q0 * Radix \in Nat /\ r \in Nat /\ r < Radix
    BY <1>1, <1>3, <1>5 DEF Octet
  <2>4. QED
    BY <1>1, <2>2, <2>3
<1>9. v = q1 * (Radix * Radix) + (q0 * Radix + r)
  BY <1>1, <1>3, <1>5 DEF Octet
<1>10. q0 * Radix + r = v % (Radix * Radix)
  <2>1. PICK M, x : M = Radix * Radix /\ x = q0 * Radix + r
    OBVIOUS
  <2>2. M \in Nat \ {0} /\ x \in 0..M - 1 /\ v = q1 * M + x
    BY <1>1, <1>8, <1>9, <2>1
  <2>3. v \div M \in Nat /\ v % M \in 0..M - 1 /\ v = (v \div M) * M + (v % M)
    BY <2>2, DivMod
  <2>4. x = v % M
    BY <1>5, <2>2, <2>3, Division
  <2>5. QED
    BY <2>1, <2>4
<1>11. PutUint16(v) \in Seq(Octet) /\ Len(PutUint16(v)) = 2
  <2>1. <<q0, r>> \in Seq(Octet) /\ Len(<<q0, r>>) = 2
    BY <1>3, <1>5
  <2>2. QED
    BY <1>6, <2>1
<1>12. QED
  BY <1>7, <1>10, <1>11

(* A number that fits a field is read back from it. *)
LEMMA Uint16RoundTrip ==
  ASSUME NEW v \in 0..Radix * Radix - 1
  PROVE  /\ PutUint16(v) \in Seq(Octet) /\ Len(PutUint16(v)) = 2
         /\ Uint16(PutUint16(v), 0) = v
<1>1. PICK M : M = Radix * Radix
  OBVIOUS
<1>2. M \in Nat \ {0} /\ v \in 0..M - 1
  BY <1>1, PDUAssumption
<1>3. v % M = v
  BY <1>2
<1>4. QED
  BY <1>1, <1>2, <1>3, PutUint16Value

LEMMA Uint16At ==
  ASSUME NEW b, NEW y, NEW o \in Nat, b[o + 1] = y[1], b[o + 2] = y[2]
  PROVE  Uint16(b, o) = Uint16(y, 0)
<1>1. 0 + 1 = 1 /\ 0 + 2 = 2
  OBVIOUS
<1>2. QED
  BY <1>1 DEF Uint16

LEMMA Uint32RoundTrip ==
  ASSUME NEW v \in Nat, v < (Radix * Radix) * (Radix * Radix)
  PROVE  /\ PutUint32(v) \in Seq(Octet) /\ Len(PutUint32(v)) = 4
         /\ Uint32(PutUint32(v), 0) = v
<1>1. PICK M : M = Radix * Radix
  OBVIOUS
<1>2. M \in Nat \ {0} /\ v < M * M
  BY <1>1, PDUAssumption
<1>3. PICK w : w = v \div M
  OBVIOUS
<1>4. w \in 0..M - 1 /\ v = w * M + (v % M)
  BY <1>2, <1>3, Quotient, DivMod
<1>5. PICK x, y : x = PutUint16(w) /\ y = PutUint16(v)
  OBVIOUS
<1>6. x \in Seq(Octet) /\ Len(x) = 2 /\ Uint16(x, 0) = w
  BY <1>1, <1>4, <1>5, Uint16RoundTrip
<1>7. y \in Seq(Octet) /\ Len(y) = 2 /\ Uint16(y, 0) = v % M
  BY <1>1, <1>5, PutUint16Value
<1>8. PutUint32(v) = x \o y
  BY <1>1, <1>3, <1>5 DEF PutUint32
<1>9. /\ x \o y \in Seq(Octet) /\ Len(x \o y) = 4
      /\ \A i \in 1..4 : (x \o y)[i] = IF i <= 2 THEN x[i] ELSE y[i - 2]
  <2>1. /\ x \o y \in Seq(Octet) /\ Len(x \o y) = Len(x) + Len(y)
        /\ \A i \in 1..Len(x) + Len(y) : (x \o y)[i] = IF i <= Len(x) THEN x[i] ELSE y[i - Len(x)]
    BY <1>6, <1>7, ConcatProperties
  <2>2. QED
    BY <1>6, <1>7, <2>1
<1>10. (x \o y)[1] = x[1] /\ (x \o y)[2] = x[2] /\ (x \o y)[3] = y[1] /\ (x \o y)[4] = y[2]
  BY <1>9
<1>11. Uint16(x \o y, 0) = w /\ Uint16(x \o y, 0 + 2) = v % M
  <2>1. PICK z : z = x \o y
    OBVIOUS
  <2>2. /\ z[0 + 1] = x[1] /\ z[0 + 2] = x[2]
        /\ z[(0 + 2) + 1] = y[1] /\ z[(0 + 2) + 2] = y[2]
    <3>1. z[1] = x[1] /\ z[2] = x[2] /\ z[3] = y[1] /\ z[4] = y[2]
      BY <1>10, <2>1, Zenon
    <3>2. 0 + 1 = 1 /\ 0 + 2 = 2 /\ (0 + 2) + 1 = 3 /\ (0 + 2) + 2 = 4
      OBVIOUS
    <3>3. QED
      BY <3>1, <3>2, Zenon
  <2>3. Uint16(z, 0) = Uint16(x, 0) /\ Uint16(z, 0 + 2) = Uint16(y, 0)
    BY <2>2, Uint16At
  <2>4. QED
    BY <1>6, <1>7, <2>1, <2>3
<1>12. Uint32(x \o y, 0) = w * M + (v % M)
  BY <1>1, <1>11 DEF Uint32
<1>13. QED
  BY <1>4, <1>8, <1>9, <1>12

-----------------------------------------------------------------------------
(* Where the parts of a PDU stand in its octets. Each is behind what was    *)
(* put before it.                                                           *)
-----------------------------------------------------------------------------
(* b begins with x. *)
Begins(x, b) == Len(x) <= Len(b) /\ \A i \in 1..Len(x) : b[i] = x[i]

LEMMA BeginsOfConcat ==
  ASSUME NEW S, NEW x \in Seq(S), NEW y \in Seq(S)
  PROVE  x \o y \in Seq(S) /\ Len(x \o y) = Len(x) + Len(y) /\ Begins(x, x \o y)
<1>1. PICK z : z = x \o y
  OBVIOUS
<1>2. /\ z \in Seq(S) /\ Len(z) = Len(x) + Len(y)
      /\ \A i \in 1..Len(x) + Len(y) : z[i] = IF i <= Len(x) THEN x[i] ELSE y[i - Len(x)]
  BY <1>1, ConcatProperties
<1>3. Len(x) \in Nat /\ Len(y) \in Nat
  BY LenProperties
<1>4. Begins(x, z)
  BY <1>2, <1>3 DEF Begins
<1>5. QED
  BY <1>1, <1>2, <1>4

LEMMA BeginsTransitive ==
  ASSUME NEW x, NEW y, NEW z, Len(x) \in Nat, Len(y) \in Nat, Len(z) \in Nat,
         Begins(x, y), Begins(y, z)
  PROVE  Begins(x, z)
BY DEF Begins

(* The octets y are those behind the first o of b. *)
At(b, o, y) ==
  /\ \A j \in 1..Len(y) : b[o + j] = y[j]
  /\ SubSeq(b, o + 1, o + Len(y)) = y

LEMMA Stands ==
  ASSUME NEW S, NEW x \in Seq(S), NEW y \in Seq(S), NEW b \in Seq(S), Begins(x \o y, b)
  PROVE  At(b, Len(x), y)
<1>1. PICK z : z = x \o y
  OBVIOUS
<1>2. /\ z \in Seq(S) /\ Len(z) = Len(x) + Len(y)
      /\ \A i \in 1..Len(x) + Len(y) : z[i] = IF i <= Len(x) THEN x[i] ELSE y[i - Len(x)]
  BY <1>1, ConcatProperties
<1>3. Len(x) \in Nat /\ Len(y) \in Nat /\ Len(b) \in Nat
  BY LenProperties
<1>4. Len(x) + Len(y) <= Len(b) /\ \A i \in 1..Len(x) + Len(y) : b[i] = z[i]
  BY <1>1, <1>2 DEF Begins
<1>5. ASSUME NEW j \in 1..Len(y) PROVE b[Len(x) + j] = y[j]
  <2>1. Len(x) + j \in 1..Len(x) + Len(y) /\ ~(Len(x) + j <= Len(x)) /\ (Len(x) + j) - Len(x) = j
    BY <1>3
  <2>2. z[Len(x) + j] = y[(Len(x) + j) - Len(x)]
    BY <1>2, <2>1
  <2>3. b[Len(x) + j] = z[Len(x) + j]
    BY <1>4, <2>1
  <2>4. QED
    BY <2>1, <2>2, <2>3
<1>6. PICK m, n, w : m = Len(x) + 1 /\ n = Len(x) + Len(y) /\ w = SubSeq(b, m, n)
  OBVIOUS
<1>7. \A i \in m..n : b[i] \in S
  <2>1. \A i \in m..n : i \in 1..Len(b)
    BY <1>3, <1>4, <1>6
  <2>2. QED
    BY <2>1, ElementOfSeq
<1>8. /\ w \in Seq(S) /\ Len(w) = IF m <= n THEN n - m + 1 ELSE 0
      /\ \A i \in 1..n - m + 1 : w[i] = b[m + i - 1]
  <2>1. m \in Int /\ n \in Int
    BY <1>3, <1>6
  <2>2. QED
    BY <1>6, <1>7, <2>1, SubSeqProperties
<1>9. Len(w) = Len(y) /\ n - m + 1 = Len(y)
  BY <1>3, <1>6, <1>8
<1>10. ASSUME NEW i \in 1..Len(w) PROVE w[i] = y[i]
  <2>1. i \in 1..Len(y) /\ i \in 1..n - m + 1 /\ m + i - 1 = Len(x) + i
    BY <1>3, <1>6, <1>9
  <2>2. w[i] = b[m + i - 1]
    BY <1>8, <2>1
  <2>3. b[Len(x) + i] = y[i]
    BY <1>5, <2>1
  <2>4. QED
    BY <2>1, <2>2, <2>3
<1>11. w = y
  BY <1>8, <1>9, <1>10, SeqEqual
<1>12. QED
  BY <1>5, <1>6, <1>11 DEF At

LEMMA Uint16Stands ==
  ASSUME NEW S, Octet \subseteq S, NEW x \in Seq(S), NEW b \in Seq(S),
         NEW v \in 0..Radix * Radix - 1, Begins(x \o PutUint16(v), b)
  PROVE  Uint16(b, Len(x)) = v
<1>1. PICK y : y = PutUint16(v)
  OBVIOUS
<1>2. y \in Seq(Octet) /\ Len(y) = 2 /\ Uint16(y, 0) = v
  BY <1>1, Uint16RoundTrip
<1>3. y \in Seq(S) /\ Begins(x \o y, b)
  BY <1>1, <1>2, SeqMonotonic
<1>4. \A j \in 1..Len(y) : b[Len(x) + j] = y[j]
  BY <1>3, Stands DEF At
<1>5. b[Len(x) + 1] = y[1] /\ b[Len(x) + 2] = y[2] /\ Len(x) \in Nat
  BY <1>2, <1>4, LenProperties
<1>6. QED
  BY <1>2, <1>5, Uint16At

LEMMA Uint32Stands ==
  ASSUME NEW S, Octet \subseteq S, NEW x \in Seq(S), NEW b \in Seq(S),
         NEW v \in Nat, v < (Radix * Radix) * (Radix * Radix), Begins(x \o PutUint32(v), b)
  PROVE  Uint32(b, Len(x)) = v
<1>1. PICK y : y = PutUint32(v)
  OBVIOUS
<1>2. y \in Seq(Octet) /\ Len(y) = 4 /\ Uint32(y, 0) = v
  BY <1>1, Uint32RoundTrip
<1>3. y \in Seq(S) /\ Begins(x \o y, b)
  BY <1>1, <1>2, SeqMonotonic
<1>4. \A j \in 1..Len(y) : b[Len(x) + j] = y[j]
  BY <1>3, Stands DEF At
<1>5. PICK o : o = Len(x)
  OBVIOUS
<1>6. /\ b[o + 1] = y[0 + 1] /\ b[o + 2] = y[0 + 2]
      /\ b[(o + 2) + 1] = y[(0 + 2) + 1] /\ b[(o + 2) + 2] = y[(0 + 2) + 2] /\ o \in Nat
  <2>1. o \in Nat /\ b[o + 1] = y[1] /\ b[o + 2] = y[2] /\ b[o + 3] = y[3] /\ b[o + 4] = y[4]
    BY <1>2, <1>4, <1>5, LenProperties
  <2>2. /\ 0 + 1 = 1 /\ 0 + 2 = 2 /\ (0 + 2) + 1 = 3 /\ (0 + 2) + 2 = 4
        /\ (o + 2) + 1 = o + 3 /\ (o + 2) + 2 = o + 4
    BY <2>1
  <2>3. QED
    BY <2>1, <2>2, Zenon
<1>7. Uint16(b, o) = Uint16(y, 0) /\ Uint16(b, o + 2) = Uint16(y, 0 + 2)
  BY <1>6 DEF Uint16
<1>8. Uint32(b, o) = Uint32(y, 0)
  BY <1>7 DEF Uint32
<1>9. QED
  BY <1>2, <1>5, <1>8

-----------------------------------------------------------------------------
(* parseTLVs finds the attributes that were put together. Its recursion     *)
(* goes forwards: it is on every sequence of octets, by the least number of *)
(* octets on which it would not be.                                         *)
-----------------------------------------------------------------------------
Parses(b, m, f) == f = [o \in m..Len(b) |-> nextTLV(b, f, o)]

LEMMA LooksAhead ==
  ASSUME NEW b \in Seq(Octet), NEW o \in 0..Len(b), NEW f, NEW g,
         \A x \in o + 1..Len(b) : f[x] = g[x]
  PROVE  nextTLV(b, f, o) = nextTLV(b, g, o)
<1>1. Len(b) \in Nat
  BY LenProperties
<1>2. CASE Len(b) - o = 0
  <2>1. Len(b) - o \notin 1..3 /\ ~(Len(b) - o > 3)
    BY <1>2
  <2>2. QED
    BY <1>2, <2>1 DEF nextTLV
<1>3. CASE Len(b) - o \in 1..3
  <2>1. Len(b) - o # 0 /\ ~(Len(b) - o > 3)
    BY <1>3
  <2>2. QED
    BY <1>3, <2>1 DEF nextTLV
<1>4. CASE Len(b) - o > 3
  <2>1. PICK n : n = o + 4 + Uint16(b, o + 2)
    OBVIOUS
  <2>2. n \in Nat /\ n > o
    <3>1. (o + 2) + 1 \in 1..Len(b) /\ (o + 2) + 2 \in 1..Len(b)
      BY <1>1, <1>4
    <3>2. b[(o + 2) + 1] \in Octet /\ b[(o + 2) + 2] \in Octet
      BY <3>1, ElementOfSeq
    <3>3. \A v, w \in Octet : v * Radix + w \in Nat
      BY PDUAssumption DEF Octet
    <3>4. Uint16(b, o + 2) \in Nat
      BY <3>2, <3>3 DEF Uint16
    <3>5. QED
      BY <2>1, <3>4
  <2>3. n > Len(b) \/ f[n] = g[n]
    BY <1>1, <2>2
  <2>4. /\ nextTLV(b, f, o) = IF n > Len(b) \/ f[n].err # "none" THEN Undecodable
          ELSE [err |-> "none", attributes |-> <<TLV(Uint16(b, o), SubSeq(b, o + 5, n))>> \o f[n].attributes]
        /\ nextTLV(b, g, o) = IF n > Len(b) \/ g[n].err # "none" THEN Undecodable
          ELSE [err |-> "none", attributes |-> <<TLV(Uint16(b, o), SubSeq(b, o + 5, n))>> \o g[n].attributes]
    <3>1. Len(b) - o # 0 /\ Len(b) - o \notin 1..3
      BY <1>1, <1>4
    <3>2. QED
      BY <1>4, <2>1, <3>1 DEF nextTLV
  <2>5. CASE n > Len(b)
    BY <2>4, <2>5
  <2>6. CASE f[n] = g[n]
    BY <2>4, <2>6
  <2>7. QED
    BY <2>3, <2>5, <2>6
<1>5. QED
  BY <1>1, <1>2, <1>3, <1>4

LEMMA ParsesExists ==
  ASSUME NEW b \in Seq(Octet)
  PROVE  \E f : Parses(b, 0, f)
<1> DEFINE L == Len(b)
           T == {k \in 0..L + 1 : ~\E f : Parses(b, (L + 1) - k, f)}
<1>0. L \in Nat
  BY LenProperties
<1>1. SUFFICES ASSUME T # {} PROVE FALSE
  <2>1. L + 1 \in 0..L + 1 /\ (L + 1) - (L + 1) = 0
    BY <1>0
  <2>2. QED
    BY <2>1, Zenon
<1>2. PICK k \in T : \A y \in T : k <= y
  <2>1. T \in SUBSET Nat
    BY <1>0
  <2> HIDE DEF T
  <2>2. QED
    BY <1>1, <2>1, LeastNatural
<1>3. k # 0
  <2>1. PICK f : f = [i \in {} |-> 0]
    OBVIOUS
  <2>2. (L + 1) - 0..L = {}
    BY <1>0
  <2>3. Parses(b, (L + 1) - 0, f)
    BY <2>1, <2>2 DEF Parses
  <2>4. QED
    BY <2>3
<1>4. /\ k \in Nat /\ k - 1 \in 0..L + 1 /\ k - 1 \notin T /\ k <= L + 1
      /\ ~\E f : Parses(b, (L + 1) - k, f)
  <2>1. k \in 0..L + 1 /\ ~\E f : Parses(b, (L + 1) - k, f)
    BY <1>2, Zenon
  <2>2. k \in Nat /\ k - 1 \in 0..L + 1 /\ k <= L + 1 /\ ~(k <= k - 1)
    BY <1>0, <1>3, <2>1
  <2>3. k - 1 \notin T
    BY <1>2, <2>2, Zenon
  <2>4. QED
    BY <2>1, <2>2, <2>3, Zenon
<1>5. PICK f : Parses(b, (L + 1) - (k - 1), f)
  BY <1>4, Zenon
<1> HIDE DEF T
<1>6. PICK m : m = (L + 1) - k
  OBVIOUS
<1>7. m \in 0..L /\ (L + 1) - (k - 1) = m + 1
  BY <1>0, <1>3, <1>4, <1>6
<1>8. \A o \in m + 1..L : f[o] = nextTLV(b, f, o)
  BY <1>5, <1>7 DEF Parses
<1>9. PICK g : g = [o \in m..L |-> nextTLV(b, f, o)]
  OBVIOUS
<1>10. \A o \in m + 1..L : g[o] = f[o]
  <2>1. \A o \in m + 1..L : o \in m..L
    BY <1>0, <1>7
  <2>2. QED
    BY <1>8, <1>9, <2>1
<1>11. ASSUME NEW o \in m..L PROVE g[o] = nextTLV(b, g, o)
  <2>1. o \in 0..Len(b) /\ \A x \in o + 1..Len(b) : x \in m + 1..L
    BY <1>0, <1>7
  <2>2. \A x \in o + 1..Len(b) : f[x] = g[x]
    BY <1>10, <2>1
  <2>3. nextTLV(b, f, o) = nextTLV(b, g, o)
    BY <2>1, <2>2, LooksAhead
  <2>4. QED
    BY <1>9, <2>3
<1>12. Parses(b, m, g)
  BY <1>9, <1>11 DEF Parses
<1>13. QED
  BY <1>4, <1>6, <1>12

LEMMA ParseTLVsParses ==
  ASSUME NEW b \in Seq(Octet)
  PROVE  \E f : Parses(b, 0, f) /\ parseTLVs(b) = f[0]
<1> DEFINE G == CHOOSE f : f = [o \in 0..Len(b) |-> nextTLV(b, f, o)]
<1>1. \E f : Parses(b, 0, f)
  BY ParsesExists
<1>2. G = [o \in 0..Len(b) |-> nextTLV(b, G, o)]
  BY <1>1, Zenon DEF Parses
<1>3. parseTLVs(b) = G[0]
  BY DEF parseTLVs
<1>4. QED
  BY <1>2, <1>3 DEF Parses

(* Induction downwards, with a set for what holds. *)
LEMMA Downwards ==
  ASSUME NEW n \in Nat, NEW A, n \in A, \A i \in 1..n : i \in A => i - 1 \in A
  PROVE  0 \in A
<1> DEFINE T == {k \in 0..n : k \in A}
<1>1. PICK k \in T : \A y \in T : k <= y
  <2>1. T \in SUBSET Nat /\ n \in T
    OBVIOUS
  <2> HIDE DEF T
  <2>2. QED
    BY <2>1, LeastNatural
<1>2. k = 0
  <2>1. SUFFICES ASSUME k # 0 PROVE FALSE
    OBVIOUS
  <2>2. k \in 1..n /\ k \in A /\ k - 1 \in 0..n
    BY <1>1, <2>1
  <2>3. k - 1 \in T
    BY <2>2
  <2>4. QED
    BY <1>1, <2>2, <2>3
<1>3. QED
  BY <1>1, <1>2

(* An attribute whose type and length fit their fields. *)
Attribute == {t \in [type : 0..Radix * Radix - 1, value : Seq(Octet)] :
                Len(t.value) \in 0..Radix * Radix - 1}

(* What is read of b where the octets of t stand between x and z. *)
TLVBetween(b, x, t, z) ==
  /\ Uint16(b, Len(x)) = t.type /\ Uint16(b, Len(x) + 2) = Len(t.value)
  /\ SubSeq(b, Len(x) + 5, Len(x) + 4 + Len(t.value)) = t.value
  /\ b = (x \o putTLV(t)) \o z /\ x \o putTLV(t) \in Seq(Octet)
  /\ Len(x \o putTLV(t)) = Len(x) + 4 + Len(t.value)
  /\ b \in Seq(Octet) /\ Len(b) = Len(x) + 4 + Len(t.value) + Len(z)

LEMMA OneTLV ==
  ASSUME NEW x \in Seq(Octet), NEW z \in Seq(Octet), NEW t \in Attribute,
         NEW b, b = x \o (putTLV(t) \o z)
  PROVE  putTLV(t) \in Seq(Octet) /\ TLVBetween(b, x, t, z)
<1>1. PICK p, l, v : p = PutUint16(t.type) /\ l = PutUint16(Len(t.value)) /\ v = t.value
  OBVIOUS
<1>2. t.type \in 0..Radix * Radix - 1 /\ Len(v) \in 0..Radix * Radix - 1 /\ v \in Seq(Octet)
  BY <1>1 DEF Attribute
<1>3. p \in Seq(Octet) /\ Len(p) = 2 /\ l \in Seq(Octet) /\ Len(l) = 2
  BY <1>1, <1>2, Uint16RoundTrip
<1>4. PICK s : s = (p \o l) \o v
  OBVIOUS
<1>5. putTLV(t) = s
  BY <1>1, <1>4 DEF putTLV
<1>6. PICK w1, w2, w3 : w1 = x \o p /\ w2 = w1 \o l /\ w3 = w2 \o v
  OBVIOUS
<1>7. w1 \in Seq(Octet) /\ Len(w1) = Len(x) + 2
  BY <1>3, <1>6, BeginsOfConcat
<1>8. w2 \in Seq(Octet) /\ Len(w2) = Len(w1) + 2 /\ Begins(w1, w2)
  <2>1. w2 \in Seq(Octet) /\ Len(w2) = Len(w1) + Len(l) /\ Begins(w1, w2)
    BY <1>3, <1>6, <1>7, BeginsOfConcat, Zenon
  <2>2. QED
    BY <1>3, <2>1
<1>9. w3 \in Seq(Octet) /\ Len(w3) = Len(w2) + Len(v) /\ Begins(w2, w3)
  BY <1>2, <1>6, <1>8, BeginsOfConcat
<1>10. s \in Seq(Octet) /\ w3 = x \o s
  <2>1. p \o l \in Seq(Octet) /\ w2 = x \o (p \o l)
    BY <1>3, <1>6, Joined
  <2>2. s \in Seq(Octet)
    BY <1>2, <1>4, <2>1, BeginsOfConcat
  <2>3. (x \o (p \o l)) \o v = x \o ((p \o l) \o v)
    <3>1. PICK q : q = p \o l
      OBVIOUS
    <3>2. x \in Seq(Octet) /\ q \in Seq(Octet) /\ v \in Seq(Octet)
      BY <1>2, <2>1, <3>1
    <3>3. (x \o q) \o v = x \o (q \o v)
      BY <3>2, Joined, Zenon
    <3>4. QED
      BY <3>1, <3>3, Zenon
  <2>4. QED
    BY <1>4, <1>6, <2>1, <2>2, <2>3
<1>11. b = x \o (s \o z)
  BY <1>5
<1>12. b = w3 \o z
  BY <1>10, <1>11, Joined
<1>13. b \in Seq(Octet) /\ Len(b) = Len(w3) + Len(z) /\ Begins(w3, b)
  BY <1>9, <1>12, BeginsOfConcat
<1>14. Len(x) \in Nat /\ Len(z) \in Nat /\ Len(v) \in Nat /\ Len(b) \in Nat
       /\ Len(w1) \in Nat /\ Len(w2) \in Nat /\ Len(w3) \in Nat
  BY <1>2, <1>7, <1>8, <1>9, <1>13, LenProperties
<1>15. Begins(w2, b)
  BY <1>9, <1>13, <1>14, BeginsTransitive, Zenon
<1>16. Begins(w1, b)
  BY <1>8, <1>14, <1>15, BeginsTransitive, Zenon
<1>17. Uint16(b, Len(x)) = t.type
  BY <1>1, <1>2, <1>6, <1>13, <1>16, Uint16Stands
<1>18. Uint16(b, Len(w1)) = Len(v)
  BY <1>1, <1>2, <1>6, <1>7, <1>13, <1>15, Uint16Stands
<1>19. SubSeq(b, Len(w2) + 1, Len(w2) + Len(v)) = v
  <2>1. Begins(w2 \o v, b)
    BY <1>6, <1>13
  <2>2. At(b, Len(w2), v)
    BY <1>2, <1>8, <1>13, <2>1, Stands, Zenon
  <2>3. QED
    BY <2>2 DEF At
<1>20. Len(w1) = Len(x) + 2 /\ Len(w2) + 1 = Len(x) + 5 /\ Len(w2) + Len(v) = Len(x) + 4 + Len(v)
       /\ Len(w3) = Len(x) + 4 + Len(v) /\ Len(b) = Len(x) + 4 + Len(v) + Len(z)
  BY <1>7, <1>8, <1>9, <1>13, <1>14
<1>21. /\ Uint16(b, Len(x)) = t.type /\ Uint16(b, Len(x) + 2) = Len(v)
       /\ SubSeq(b, Len(x) + 5, Len(x) + 4 + Len(v)) = v
       /\ b = (x \o s) \o z /\ x \o s \in Seq(Octet)
       /\ Len(x \o s) = Len(x) + 4 + Len(v)
       /\ b \in Seq(Octet) /\ Len(b) = Len(x) + 4 + Len(v) + Len(z)
  BY <1>9, <1>10, <1>12, <1>13, <1>17, <1>18, <1>19, <1>20, Zenon
<1>22. QED
  BY <1>1, <1>5, <1>10, <1>21, Zenon DEF TLVBetween

(* parseTLVs finds the attributes that were put together. *)
LEMMA TLVsRoundTrip ==
  ASSUME NEW attrs \in Seq(Attribute), NEW s, NEW G, Behind(Octet, s, Len(attrs), G),
         \A i \in 1..Len(attrs) : s[i] = putTLV(attrs[i])
  PROVE  parseTLVs(G[0]) = [err |-> "none", attributes |-> attrs]
<1> DEFINE n == Len(attrs)
           b == G[0]
<1>0. n \in Nat /\ b \in Seq(Octet) /\ Len(b) \in Nat
  <2>1. n \in Nat
    BY LenProperties
  <2>2. 0 \in 0..n
    BY <2>1
  <2>3. b \in Seq(Octet)
    BY <2>2 DEF Behind
  <2>4. QED
    BY <2>1, <2>3, LenProperties
<1>1. PICK f : Parses(b, 0, f) /\ parseTLVs(b) = f[0]
  BY <1>0, ParseTLVsParses
<1>2. \A o \in 0..Len(b) : f[o] = nextTLV(b, f, o)
  BY <1>1 DEF Parses
<1> DEFINE P(i) == \A x \in Seq(Octet) : b = x \o G[i] =>
                     f[Len(x)] = [err |-> "none", attributes |-> SubSeq(attrs, i + 1, n)]
<1>3. P(n)
  <2>1. SUFFICES ASSUME NEW x \in Seq(Octet), b = x \o G[n]
                 PROVE  f[Len(x)] = [err |-> "none", attributes |-> SubSeq(attrs, n + 1, n)]
    OBVIOUS
  <2>2. b = x
    <3>1. x \o <<>> = x /\ G[n] = <<>>
      BY ConcatEmptySeq DEF Behind
    <3>2. QED
      BY <2>1, <3>1
  <2>3. Len(x) \in 0..Len(b) /\ Len(b) - Len(x) = 0
    BY <1>0, <2>2
  <2>4. Len(b) - Len(x) \notin 1..3 /\ ~(Len(b) - Len(x) > 3)
    BY <2>3
  <2>5. nextTLV(b, f, Len(x)) = [err |-> "none", attributes |-> <<>>]
    BY <2>3, <2>4 DEF nextTLV
  <2>6. SubSeq(attrs, n + 1, n) = <<>>
    BY <1>0, SubSeqEmpty
  <2>7. QED
    BY <1>2, <2>3, <2>5, <2>6
<1>4. ASSUME NEW i \in 1..n, P(i) PROVE P(i - 1)
  <2>1. SUFFICES ASSUME NEW x \in Seq(Octet), b = x \o G[i - 1]
                 PROVE  f[Len(x)] = [err |-> "none", attributes |-> SubSeq(attrs, (i - 1) + 1, n)]
    OBVIOUS
  <2>2. PICK t : t = attrs[i]
    OBVIOUS
  <2>3. t \in Attribute
    BY <2>2, ElementOfSeq
  <2>4. PICK z : z = G[i]
    OBVIOUS
  <2>5. z \in Seq(Octet) /\ G[i - 1] = putTLV(t) \o z
    <3>1. i \in 0..n
      BY <1>0
    <3>2. QED
      BY <2>2, <2>4, <3>1 DEF Behind
  <2>6. b = x \o (putTLV(t) \o z)
    BY <2>1, <2>5
  <2> HIDE DEF b
  <2>7. /\ Uint16(b, Len(x)) = t.type /\ Uint16(b, Len(x) + 2) = Len(t.value)
        /\ SubSeq(b, Len(x) + 5, Len(x) + 4 + Len(t.value)) = t.value
        /\ b = (x \o putTLV(t)) \o z /\ x \o putTLV(t) \in Seq(Octet)
        /\ Len(x \o putTLV(t)) = Len(x) + 4 + Len(t.value)
        /\ b \in Seq(Octet) /\ Len(b) = Len(x) + 4 + Len(t.value) + Len(z)
    <3>1. TLVBetween(b, x, t, z)
      BY <2>3, <2>5, <2>6, OneTLV, Zenon
    <3>2. QED
      BY <3>1 DEF TLVBetween
  <2>8. PICK m : m = Len(x) + 4 + Len(t.value)
    OBVIOUS
  <2>9. f[m] = [err |-> "none", attributes |-> SubSeq(attrs, i + 1, n)]
    BY <1>4, <2>4, <2>7, <2>8, Zenon
  <2>10. Len(x) \in Nat /\ Len(z) \in Nat /\ Len(t.value) \in Nat
    BY <2>3, <2>5, LenProperties DEF Attribute
  <2>11. Len(x) \in 0..Len(b) /\ Len(b) - Len(x) > 3 /\ ~(m > Len(b))
    <3>1. Len(b) = m + Len(z)
      BY <2>7, <2>8, Zenon
    <3>2. QED
      <4>1. PICK a, c, d, e : a = Len(x) /\ c = Len(t.value) /\ d = Len(z) /\ e = Len(b)
        OBVIOUS
      <4>2. a \in Nat /\ c \in Nat /\ d \in Nat /\ m = a + 4 + c /\ e = m + d
        BY <2>8, <2>10, <3>1, <4>1
      <4>3. a \in 0..e /\ e - a > 3 /\ ~(m > e)
        BY <4>2
      <4>4. QED
        BY <4>1, <4>3
  <2>12. Len(b) - Len(x) # 0 /\ Len(b) - Len(x) \notin 1..3
    BY <1>0, <2>10, <2>11
  <2>13. PICK u : u = SubSeq(attrs, i + 1, n)
    OBVIOUS
  <2>14. f[m].err = "none" /\ f[m].attributes = u
    BY <2>9, <2>13
  <2>15. nextTLV(b, f, Len(x)) = IF m > Len(b) \/ f[m].err # "none" THEN Undecodable
           ELSE [err |-> "none", attributes |-> <<TLV(t.type, t.value)>> \o f[m].attributes]
    <3>1. Len(x) + 4 + Uint16(b, Len(x) + 2) = m /\ SubSeq(b, Len(x) + 5, m) = t.value
      BY <2>7, <2>8
    <3>2. nextTLV(b, f, Len(x)) = IF m > Len(b) \/ f[m].err # "none" THEN Undecodable
           ELSE [err |-> "none", attributes |->
                   <<TLV(Uint16(b, Len(x)), SubSeq(b, Len(x) + 5, m))>> \o f[m].attributes]
      BY <2>11, <2>12, <3>1 DEF nextTLV
    <3>3. QED
      BY <2>7, <3>1, <3>2
  <2>16. TLV(t.type, t.value) = t
    BY <2>3 DEF TLV, Attribute
  <2>17. nextTLV(b, f, Len(x)) = [err |-> "none", attributes |-> <<t>> \o u]
    BY <2>11, <2>14, <2>15, <2>16
  <2>18. SubSeq(attrs, i, n) = <<t>> \o u /\ (i - 1) + 1 = i
    <3>1. i \in 1..Len(attrs) /\ n \in i..Len(attrs)
      BY <1>0
    <3>2. QED
      BY <2>2, <2>13, <3>1, SubSeqRecursiveFirst
  <2>19. QED
    BY <1>2, <2>11, <2>17, <2>18
<1>5. P(0)
  <2> DEFINE A == {i \in 0..n : P(i)}
  <2> HIDE DEF P
  <2>1. n \in A
    BY <1>0, <1>3
  <2>2. \A i \in 1..n : i \in A => i - 1 \in A
    BY <1>0, <1>4
  <2> HIDE DEF A
  <2>3. 0 \in A
    BY <1>0, <2>1, <2>2, Downwards
  <2>4. QED
    BY <2>3 DEF A
<1>6. f[0] = [err |-> "none", attributes |-> SubSeq(attrs, 0 + 1, n)]
  <2>1. <<>> \in Seq(Octet) /\ Len(<<>>) = 0 /\ <<>> \o b = b
    BY <1>0, EmptySeq, ConcatEmptySeq
  <2>2. QED
    BY <1>5, <2>1
<1>7. SubSeq(attrs, 0 + 1, n) = attrs
  BY SubSeqFull
<1>8. QED
  BY <1>1, <1>6, <1>7

-----------------------------------------------------------------------------
(* The codec: Unmarshal of what Marshal gives.                              *)
-----------------------------------------------------------------------------
AttributeOctets(p) == FlattenSeq([i \in DOMAIN p.attributes |-> putTLV(p.attributes[i])])

Word == Radix * Radix

(* The PDUs whose parts fit their fields, with a payload over S. *)
Transmittable(S) ==
  {p \in [type : 0..Word - 1, format : 0..Word - 1, direction : 0..Word - 1,
          xid : Seq(Octet), corr : Seq(Octet), attributes : Seq(Attribute), payload : Seq(S)] :
     /\ Len(p.xid) = xidLength /\ Len(p.corr) = CorrelationIDLength
     /\ MandatoryHeaderLength + Len(AttributeOctets(p)) < Word * Word
     /\ Len(p.payload) < Word * Word
     /\ Marshalable(p)}

LEMMA AttributesRoundTrip ==
  ASSUME NEW p, p.attributes \in Seq(Attribute)
  PROVE  /\ AttributeOctets(p) \in Seq(Octet)
         /\ parseTLVs(AttributeOctets(p)) = [err |-> "none", attributes |-> p.attributes]
<1> DEFINE as == p.attributes
           s == [i \in DOMAIN as |-> putTLV(as[i])]
<1>1. PICK m : m = Len(as)
  OBVIOUS
<1>2. m \in Nat /\ DOMAIN as = 1..m
  BY <1>1, LenProperties
<1>3. ASSUME NEW i \in 1..m PROVE s[i] = putTLV(as[i]) /\ s[i] \in Seq(Octet)
  <2>1. as[i] \in Attribute
    BY <1>1, ElementOfSeq
  <2>2. <<>> \in Seq(Octet)
    BY EmptySeq
  <2>3. putTLV(as[i]) \in Seq(Octet)
    BY <2>1, <2>2, OneTLV
  <2>4. QED
    BY <1>2, <2>3
<1>4. s \in Seq(Seq(Octet)) /\ Len(s) = m
  BY <1>2, <1>3
<1>5. AttributeOctets(p) = FlattenSeq(s)
  BY DEF AttributeOctets
<1> HIDE DEF s
<1>6. PICK G : Behind(Octet, s, m, G) /\ G[0] = AttributeOctets(p)
  <2>1. PICK G : Behind(Octet, s, Len(s), G) /\ G[0] = FlattenSeq(s)
    BY <1>4, FlattenBehind
  <2>2. Behind(Octet, s, m, G)
    BY <1>4, <2>1
  <2>3. QED
    BY <1>5, <2>1, <2>2
<1>7. G[0] \in Seq(Octet)
  BY <1>2, <1>6 DEF Behind
<1>8. parseTLVs(G[0]) = [err |-> "none", attributes |-> as]
  BY <1>1, <1>3, <1>6, TLVsRoundTrip
<1>9. QED
  BY <1>6, <1>7, <1>8

(* What stands where in the octets of a PDU. *)
Layout(b, p) ==
  /\ Len(b) = MandatoryHeaderLength + Len(AttributeOctets(p)) + Len(p.payload)
  /\ b[1] = MajorVersion /\ Uint16(b, 2) = p.type
  /\ headerLen(b) = MandatoryHeaderLength + Len(AttributeOctets(p))
  /\ payloadLen(b) = Len(p.payload)
  /\ Uint16(b, 12) = p.format /\ Uint16(b, 14) = p.direction
  /\ SubSeq(b, Fixed + 1, Fixed + xidLength) = p.xid
  /\ SubSeq(b, Fixed + xidLength + 1, MandatoryHeaderLength) = p.corr
  /\ SubSeq(b, MandatoryHeaderLength + 1, headerLen(b)) = AttributeOctets(p)
  /\ SubSeq(b, headerLen(b) + 1, total(b)) = p.payload

LEMMA BeginsOn ==
  ASSUME NEW S, NEW x \in Seq(S), NEW y \in Seq(S), NEW z \in Seq(S), Begins(x \o y, z)
  PROVE  Begins(x, z)
<1>1. PICK w : w = x \o y
  OBVIOUS
<1>2. w \in Seq(S) /\ Begins(x, w) /\ Begins(w, z)
  BY <1>1, BeginsOfConcat
<1>3. Len(x) \in Nat /\ Len(w) \in Nat /\ Len(z) \in Nat
  BY <1>2, LenProperties
<1>4. QED
  BY <1>2, <1>3, BeginsTransitive, Zenon

LEMMA MarshalLayout ==
  ASSUME NEW S, NEW p \in Transmittable(S)
  PROVE  Layout(Marshal(p), p)
<1> DEFINE T == (S \cup Octet) \cup {MajorVersion, MinorVersion}
<1>1. PICK a, h, l : /\ a = AttributeOctets(p) /\ h = MandatoryHeaderLength + Len(a)
                     /\ l = Len(p.payload)
  OBVIOUS
<1>2. /\ p.type \in 0..Radix * Radix - 1 /\ p.format \in 0..Radix * Radix - 1
      /\ p.direction \in 0..Radix * Radix - 1
      /\ p.xid \in Seq(Octet) /\ p.corr \in Seq(Octet) /\ p.payload \in Seq(S)
      /\ Len(p.xid) = xidLength /\ Len(p.corr) = CorrelationIDLength
      /\ h < (Radix * Radix) * (Radix * Radix) /\ l < (Radix * Radix) * (Radix * Radix)
  BY <1>1 DEF Transmittable, Word
<1>3. a \in Seq(Octet)
  <2>1. p.attributes \in Seq(Attribute)
    BY DEF Transmittable
  <2>2. QED
    BY <1>1, <2>1, AttributesRoundTrip
<1>4. h \in Nat /\ l \in Nat /\ Len(a) \in Nat /\ xidLength \in Nat /\ CorrelationIDLength \in Nat
  BY <1>1, <1>2, <1>3, LenProperties, PDUAssumption DEF MandatoryHeaderLength, Fixed
<1>5. Octet \subseteq T /\ S \subseteq T /\ MajorVersion \in T /\ MinorVersion \in T
  OBVIOUS
<1> HIDE DEF T
<1>6. PICK e0, e1, e2, e3, e4, e5 :
        /\ e0 = <<MajorVersion, MinorVersion>> /\ e1 = PutUint16(p.type) /\ e2 = PutUint32(h)
        /\ e3 = PutUint32(l) /\ e4 = PutUint16(p.format) /\ e5 = PutUint16(p.direction)
  OBVIOUS
<1>7. /\ e0 \in Seq(T) /\ Len(e0) = 2 /\ e0[1] = MajorVersion
      /\ e1 \in Seq(T) /\ Len(e1) = 2 /\ e2 \in Seq(T) /\ Len(e2) = 4
      /\ e3 \in Seq(T) /\ Len(e3) = 4 /\ e4 \in Seq(T) /\ Len(e4) = 2
      /\ e5 \in Seq(T) /\ Len(e5) = 2
  <2>1. e0 \in Seq(T) /\ Len(e0) = 2 /\ e0[1] = MajorVersion
    BY <1>5, <1>6
  <2>2. e1 \in Seq(Octet) /\ Len(e1) = 2 /\ e4 \in Seq(Octet) /\ Len(e4) = 2
        /\ e5 \in Seq(Octet) /\ Len(e5) = 2
    BY <1>2, <1>6, Uint16RoundTrip
  <2>3. e2 \in Seq(Octet) /\ Len(e2) = 4 /\ e3 \in Seq(Octet) /\ Len(e3) = 4
    BY <1>2, <1>4, <1>6, Uint32RoundTrip
  <2>4. e1 \in Seq(T) /\ e2 \in Seq(T) /\ e3 \in Seq(T) /\ e4 \in Seq(T) /\ e5 \in Seq(T)
    BY <1>5, <2>2, <2>3, SeqMonotonic, Zenon
  <2>5. QED
    BY <2>1, <2>2, <2>3, <2>4
<1>8. p.xid \in Seq(T) /\ p.corr \in Seq(T) /\ a \in Seq(T) /\ p.payload \in Seq(T)
  BY <1>2, <1>3, <1>5, SeqMonotonic, Zenon
<1>9. PICK w1, w2, w3, w4, w5, w6, w7, w8, b :
        /\ w1 = e0 \o e1 /\ w2 = w1 \o e2 /\ w3 = w2 \o e3 /\ w4 = w3 \o e4 /\ w5 = w4 \o e5
        /\ w6 = w5 \o p.xid /\ w7 = w6 \o p.corr /\ w8 = w7 \o a /\ b = w8 \o p.payload
  OBVIOUS
<1>10. Marshal(p) = b
  BY <1>1, <1>6, <1>9, Zenon DEF Marshal, AttributeOctets
<1>11. w1 \in Seq(T) /\ Len(w1) = Len(e0) + Len(e1)
  BY <1>7, <1>9, BeginsOfConcat, Zenon
<1>12. w2 \in Seq(T) /\ Len(w2) = Len(w1) + Len(e2)
  BY <1>7, <1>9, <1>11, BeginsOfConcat, Zenon
<1>13. w3 \in Seq(T) /\ Len(w3) = Len(w2) + Len(e3)
  BY <1>7, <1>9, <1>12, BeginsOfConcat, Zenon
<1>14. w4 \in Seq(T) /\ Len(w4) = Len(w3) + Len(e4)
  BY <1>7, <1>9, <1>13, BeginsOfConcat, Zenon
<1>15. w5 \in Seq(T) /\ Len(w5) = Len(w4) + Len(e5)
  BY <1>7, <1>9, <1>14, BeginsOfConcat, Zenon
<1>16. w6 \in Seq(T) /\ Len(w6) = Len(w5) + Len(p.xid)
  <2>1. w6 = w5 \o p.xid /\ w5 \in Seq(T) /\ p.xid \in Seq(T)
    BY <1>8, <1>9, <1>15
  <2>2. QED
    BY <2>1, BeginsOfConcat, Zenon
<1>17. w7 \in Seq(T) /\ Len(w7) = Len(w6) + Len(p.corr)
  <2>1. w7 = w6 \o p.corr /\ w6 \in Seq(T) /\ p.corr \in Seq(T)
    BY <1>8, <1>9, <1>16
  <2>2. QED
    BY <2>1, BeginsOfConcat, Zenon
<1>18. w8 \in Seq(T) /\ Len(w8) = Len(w7) + Len(a)
  <2>1. w8 = w7 \o a /\ w7 \in Seq(T) /\ a \in Seq(T)
    BY <1>8, <1>9, <1>17
  <2>2. QED
    BY <2>1, BeginsOfConcat, Zenon
<1>19. b \in Seq(T) /\ Len(b) = Len(w8) + Len(p.payload)
  <2>1. PICK q : q = p.payload
    OBVIOUS
  <2>2. b = w8 \o q /\ q \in Seq(T)
    BY <1>8, <1>9, <2>1
  <2>3. b \in Seq(T) /\ Len(b) = Len(w8) + Len(q)
    BY <1>18, <2>2, BeginsOfConcat, Zenon
  <2>4. QED
    BY <2>1, <2>3
<1>20. /\ Len(w1) = 4 /\ Len(w2) = 8 /\ Len(w3) = 12 /\ Len(w4) = 14 /\ Len(w5) = Fixed
       /\ Len(w6) = Fixed + xidLength /\ Len(w7) = MandatoryHeaderLength /\ Len(w8) = h
       /\ Len(b) = h + l
  <2>1. /\ Len(w1) = 4 /\ Len(w2) = 8 /\ Len(w3) = 12 /\ Len(w4) = 14 /\ Len(w5) = 16
    BY <1>7, <1>11, <1>12, <1>13, <1>14, <1>15
  <2>2. Len(w6) = 16 + xidLength /\ Len(w7) = (16 + xidLength) + CorrelationIDLength
        /\ Len(w8) = Len(w7) + Len(a) /\ Len(b) = Len(w8) + l
    BY <1>1, <1>2, <1>16, <1>17, <1>18, <1>19, <2>1
  <2>3. QED
    BY <1>1, <1>4, <2>1, <2>2 DEF MandatoryHeaderLength, Fixed
<1>21. Begins(b, b)
  BY <1>4, <1>20 DEF Begins
<1>22. Begins(w8 \o p.payload, b) /\ Begins(w8, b)
  BY <1>8, <1>9, <1>18, <1>19, <1>21, BeginsOn
<1>23. Begins(w7 \o a, b) /\ Begins(w7, b)
  BY <1>8, <1>9, <1>17, <1>19, <1>22, BeginsOn
<1>24. Begins(w6 \o p.corr, b) /\ Begins(w6, b)
  BY <1>8, <1>9, <1>16, <1>19, <1>23, BeginsOn
<1>25. Begins(w5 \o p.xid, b) /\ Begins(w5, b)
  BY <1>8, <1>9, <1>15, <1>19, <1>24, BeginsOn
<1>26. Begins(w4 \o e5, b) /\ Begins(w4, b)
  BY <1>7, <1>9, <1>14, <1>19, <1>25, BeginsOn
<1>27. Begins(w3 \o e4, b) /\ Begins(w3, b)
  BY <1>7, <1>9, <1>13, <1>19, <1>26, BeginsOn
<1>28. Begins(w2 \o e3, b) /\ Begins(w2, b)
  BY <1>7, <1>9, <1>12, <1>19, <1>27, BeginsOn
<1>29. Begins(w1 \o e2, b) /\ Begins(w1, b)
  BY <1>7, <1>9, <1>11, <1>19, <1>28, BeginsOn
<1>30. Begins(e0 \o e1, b) /\ Begins(e0, b)
  BY <1>7, <1>9, <1>19, <1>29, BeginsOn
<1>31. b[1] = MajorVersion
  BY <1>7, <1>30 DEF Begins
<1>32. Uint16(b, Len(e0)) = p.type
  BY <1>2, <1>5, <1>6, <1>7, <1>19, <1>30, Uint16Stands
<1>33. Uint32(b, Len(w1)) = h
  BY <1>2, <1>4, <1>5, <1>6, <1>11, <1>19, <1>29, Uint32Stands
<1>34. Uint32(b, Len(w2)) = l
  BY <1>2, <1>4, <1>5, <1>6, <1>12, <1>19, <1>28, Uint32Stands
<1>35. Uint16(b, Len(w3)) = p.format
  BY <1>2, <1>5, <1>6, <1>13, <1>19, <1>27, Uint16Stands
<1>36. Uint16(b, Len(w4)) = p.direction
  BY <1>2, <1>5, <1>6, <1>14, <1>19, <1>26, Uint16Stands
<1>37. At(b, Len(w5), p.xid)
  BY <1>8, <1>15, <1>19, <1>25, Stands, Zenon
<1>38. At(b, Len(w6), p.corr)
  BY <1>8, <1>16, <1>19, <1>24, Stands, Zenon
<1>39. At(b, Len(w7), a)
  BY <1>8, <1>17, <1>19, <1>23, Stands, Zenon
<1>40. At(b, Len(w8), p.payload)
  BY <1>8, <1>18, <1>19, <1>22, Stands, Zenon
<1>41. headerLen(b) = h /\ payloadLen(b) = l /\ total(b) = h + l
  BY <1>20, <1>33, <1>34 DEF headerLen, payloadLen, total
<1>42. SubSeq(b, Fixed + 1, Fixed + xidLength) = p.xid
  BY <1>2, <1>20, <1>37 DEF At
<1>43. SubSeq(b, Fixed + xidLength + 1, MandatoryHeaderLength) = p.corr
  <2>1. SubSeq(b, Len(w6) + 1, Len(w6) + Len(p.corr)) = p.corr
    BY <1>38 DEF At
  <2>2. Len(w6) + Len(p.corr) = MandatoryHeaderLength
    BY <1>2, <1>20 DEF MandatoryHeaderLength
  <2>3. QED
    BY <1>20, <2>1, <2>2
<1>44. SubSeq(b, MandatoryHeaderLength + 1, h) = a
  <2>1. SubSeq(b, Len(w7) + 1, Len(w7) + Len(a)) = a
    BY <1>39 DEF At
  <2>2. QED
    BY <1>1, <1>20, <2>1
<1>45. SubSeq(b, h + 1, h + l) = p.payload
  BY <1>1, <1>20, <1>40 DEF At
<1>46. Uint16(b, 2) = p.type /\ Uint16(b, 12) = p.format /\ Uint16(b, 14) = p.direction
  BY <1>7, <1>20, <1>32, <1>35, <1>36
<1>47. Layout(b, p)
  BY <1>1, <1>20, <1>31, <1>41, <1>42, <1>43, <1>44, <1>45, <1>46, Zenon DEF Layout
<1>48. QED
  BY <1>10, <1>47

LEMMA ParsedFields ==
  ASSUME NEW a, NEW c, NEW as, c = a, parseTLVs(a) = [err |-> "none", attributes |-> as]
  PROVE  parseTLVs(c).err = "none" /\ parseTLVs(c).attributes = as
<1>1. PICK r : r = parseTLVs(c)
  OBVIOUS
<1>2. r = [err |-> "none", attributes |-> as]
  BY <1>1
<1>3. r.err = "none" /\ r.attributes = as
  BY <1>2
<1>4. QED
  BY <1>1, <1>3

(* x2x3.Unmarshal inverts x2x3.Marshal: of the octets of any PDU that       *)
(* Marshal accepts and whose parts fit their fields it reads back the same  *)
(* type, format, direction, XID, correlation, conditional attributes in     *)
(* their order and payload, and consumes all of them; header and attribute  *)
(* lengths, several octets wide, are where the two could disagree.          *)
THEOREM RoundTrip ==
  ASSUME NEW S, NEW p \in Transmittable(S)
  PROVE  Unmarshal(Marshal(p)) = Decoded(p, Len(Marshal(p)))
<1>1. PICK b, a : b = Marshal(p) /\ a = AttributeOctets(p)
  OBVIOUS
<1>2. Layout(b, p)
  BY <1>1, MarshalLayout
<1>3. /\ p.attributes \in Seq(Attribute) /\ p.payload \in Seq(S) /\ validate(p)
      /\ p \in [type : 0..Word - 1, format : 0..Word - 1, direction : 0..Word - 1,
                xid : Seq(Octet), corr : Seq(Octet), attributes : Seq(Attribute), payload : Seq(S)]
  BY DEF Transmittable, Marshalable
<1>4. a \in Seq(Octet) /\ parseTLVs(a) = [err |-> "none", attributes |-> p.attributes]
  BY <1>1, <1>3, AttributesRoundTrip
<1>5. Len(a) \in Nat /\ Len(p.payload) \in Nat /\ MandatoryHeaderLength \in Nat
      /\ MandatoryHeaderLength >= Sizing
  BY <1>3, <1>4, LenProperties, PDUAssumption DEF MandatoryHeaderLength, Fixed, Sizing
<1>6. PICK h, l, n : h = headerLen(b) /\ l = payloadLen(b) /\ n = Len(b)
  OBVIOUS
<1>7. /\ h = MandatoryHeaderLength + Len(a) /\ l = Len(p.payload) /\ total(b) = h + l
      /\ n = MandatoryHeaderLength + Len(a) + Len(p.payload)
  BY <1>1, <1>2, <1>6 DEF Layout, total
<1>8. /\ ~(n < Sizing) /\ ~(h < MandatoryHeaderLength) /\ ~(total(b) > n) /\ total(b) = n
  <2>1. PICK c, d, t, m : /\ c = Len(a) /\ d = Len(p.payload) /\ t = total(b)
                          /\ m = MandatoryHeaderLength
    OBVIOUS
  <2>2. c \in Nat /\ d \in Nat /\ m \in Nat /\ m >= 12 /\ h = m + c /\ t = h + l /\ l = d
        /\ n = m + c + d
    BY <1>5, <1>7, <2>1 DEF Sizing
  <2>3. ~(n < 12) /\ ~(h < m) /\ ~(t > n) /\ t = n
    BY <2>2
  <2>4. QED
    BY <2>1, <2>3 DEF Sizing
<1>9. SubSeq(b, MandatoryHeaderLength + 1, headerLen(b)) = a
  BY <1>1, <1>2 DEF Layout
<1>10. fields(b) = p
  <2>1. fields(b) = [type |-> p.type, format |-> p.format, direction |-> p.direction,
                     xid |-> p.xid, corr |-> p.corr, attributes |-> p.attributes,
                     payload |-> p.payload]
    <3>1. parseTLVs(SubSeq(b, MandatoryHeaderLength + 1, headerLen(b))).attributes = p.attributes
      BY <1>4, <1>9, ParsedFields
    <3>2. /\ Uint16(b, 2) = p.type /\ Uint16(b, 12) = p.format /\ Uint16(b, 14) = p.direction
          /\ SubSeq(b, Fixed + 1, Fixed + xidLength) = p.xid
          /\ SubSeq(b, Fixed + xidLength + 1, MandatoryHeaderLength) = p.corr
          /\ SubSeq(b, headerLen(b) + 1, total(b)) = p.payload
      BY <1>2 DEF Layout
    <3>3. QED
      BY <3>1, <3>2, Zenon DEF fields
  <2>2. QED
    BY <1>3, <2>1
<1>11. Unmarshal(b) = Decoded(fields(b), total(b))
  <2>1. parseTLVs(SubSeq(b, MandatoryHeaderLength + 1, headerLen(b))).err = "none"
    BY <1>4, <1>9, ParsedFields
  <2>2. b[1] = MajorVersion /\ validate(fields(b))
    BY <1>2, <1>3, <1>10 DEF Layout
  <2>3. QED
    BY <1>6, <1>8, <2>1, <2>2 DEF Unmarshal
<1>12. QED
  BY <1>1, <1>6, <1>8, <1>10, <1>11

-----------------------------------------------------------------------------
(* EncodeXIRI, by the tables. Each of the seventeen records is compared     *)
(* with the tables of mandatory enumerations and with validateEvent, on its *)
(* own; what follows is then about a member of any of them.                 *)
-----------------------------------------------------------------------------
Plain == Enums \cup Ranges \cup {"RATType", "LCSCorrelationID"}
Texts == {"DNN", "Volume", "SUPIUnauthenticated"}
Policies == {"UEPolicy", "ServiceType"}
Alternatives == ChoiceTypes \ {"ServiceMessageIdentity"}
Structures ==
  {"SUCI", "FiveGGUTI", "SMFServingNetwork", "FTEID", "SNSSAI", "AMFID", "GTPTunnelInfo",
   "Location", "UserIdentifiers", "PDUSessionResourceInformation"}

(* The types there are. *)
Types == Plain \cup Texts \cup Policies \cup Alternatives \cup Structures
         \cup {"Message", "ServiceMessageIdentity", "UEEndpoint", "TAIList"}

(* What the definition of a member in the record tagged so has to do with   *)
(* the tables of mandatory enumerations, and with the records validateEvent *)
(* looks at.                                                                *)
Tabled(tag, m) ==
  /\ m.type \in Types
  /\ m.type = "UEEndpoint" => tag \in {6, 7, 9, 10} /\ (m.optional <=> tag # 9)
  /\ m.type \in Enums => (m.optional <=> ~zeroForbidden(tag, m.type))
  /\ m.type \in {"AMFFailureCause", "ServiceMessageIdentity"} => ~m.optional

WellDefined(tag, ms) ==
  /\ DOMAIN ms = 1..Len(ms) /\ Len(ms) \in 1..16
  /\ \A i \in DOMAIN ms : Tabled(tag, ms[i])

(* Every record keeps to that, each on its own. *)
LEMMA RecordsTabled ==
  /\ WellDefined(1, AMFRegistration)
  /\ WellDefined(2, AMFDeregistration)
  /\ WellDefined(3, AMFLocationUpdate)
  /\ WellDefined(4, AMFStartOfInterceptionWithRegisteredUE)
  /\ WellDefined(5, AMFUnsuccessfulProcedure)
  /\ WellDefined(6, SMFPDUSessionEstablishment)
  /\ WellDefined(7, SMFPDUSessionModification)
  /\ WellDefined(8, SMFPDUSessionRelease)
  /\ WellDefined(9, SMFStartOfInterceptionWithEstablishedPDUSession)
  /\ WellDefined(10, SMFUnsuccessfulProcedure)
  /\ WellDefined(62, AMFIdentifierAssociation)
  /\ WellDefined(111, AMFPositioningInfoTransfer)
  /\ WellDefined(113, AMFRANHandoverCommand)
  /\ WellDefined(114, AMFRANHandoverRequest)
  /\ WellDefined(146, AMFUEPolicyTransfer)
  /\ WellDefined(147, AMFUEServiceAccept)
  /\ WellDefined(186, AMFIdentifierDeassociation)
<1> USE DEF WellDefined, Tabled, Types, Plain, Texts, Policies, Alternatives, Structures,
           ChoiceTypes, Ranges, Req, Opt, Enums, zeroForbidden, mandatoryEnums, mandatoryEnumFields
<1>1. WellDefined(1, AMFRegistration)
  BY DEF AMFRegistration
<1>2. WellDefined(2, AMFDeregistration)
  BY DEF AMFDeregistration
<1>3. WellDefined(3, AMFLocationUpdate)
  BY DEF AMFLocationUpdate
<1>4. WellDefined(4, AMFStartOfInterceptionWithRegisteredUE)
  BY DEF AMFStartOfInterceptionWithRegisteredUE
<1>5. WellDefined(5, AMFUnsuccessfulProcedure)
  BY DEF AMFUnsuccessfulProcedure
<1>6. WellDefined(6, SMFPDUSessionEstablishment)
  BY DEF SMFPDUSessionEstablishment
<1>7. WellDefined(7, SMFPDUSessionModification)
  BY DEF SMFPDUSessionModification
<1>8. WellDefined(8, SMFPDUSessionRelease)
  BY DEF SMFPDUSessionRelease
<1>9. WellDefined(9, SMFStartOfInterceptionWithEstablishedPDUSession)
  BY DEF SMFStartOfInterceptionWithEstablishedPDUSession
<1>10. WellDefined(10, SMFUnsuccessfulProcedure)
  BY DEF SMFUnsuccessfulProcedure
<1>11. WellDefined(62, AMFIdentifierAssociation)
  BY DEF AMFIdentifierAssociation
<1>12. WellDefined(111, AMFPositioningInfoTransfer)
  BY DEF AMFPositioningInfoTransfer
<1>13. WellDefined(113, AMFRANHandoverCommand)
  BY DEF AMFRANHandoverCommand
<1>14. WellDefined(114, AMFRANHandoverRequest)
  BY DEF AMFRANHandoverRequest
<1>15. WellDefined(146, AMFUEPolicyTransfer)
  BY DEF AMFUEPolicyTransfer
<1>16. WellDefined(147, AMFUEServiceAccept)
  BY DEF AMFUEServiceAccept
<1>17. WellDefined(186, AMFIdentifierDeassociation)
  BY DEF AMFIdentifierDeassociation
<1> HIDE DEF WellDefined
<1>18. QED
  BY <1>1, <1>2, <1>3, <1>4, <1>5, <1>6, <1>7, <1>8, <1>9, <1>10, <1>11, <1>12, <1>13, <1>14, <1>15, <1>16, <1>17

LEMMA MembersTabled ==
  ASSUME NEW r \in Record
  PROVE  WellDefined(xiriEvent[r].tag, Members(r))
<1>1. Record = 1..17
  BY DEF Record, xiriEvent
<1>2. \/ r = 1 \/ r = 2 \/ r = 3 \/ r = 4 \/ r = 5 \/ r = 6 \/ r = 7 \/ r = 8 \/ r = 9
      \/ r = 10 \/ r = 11 \/ r = 12 \/ r = 13 \/ r = 14 \/ r = 15 \/ r = 16 \/ r = 17
  BY <1>1
<1>3. QED
  BY <1>2, RecordsTabled DEF Members, xiriEvent


(* What a member of a type can have, and what the tables have to do with    *)
(* each other.                                                              *)
LEMMA ValuesOfTypes ==
  ASSUME NEW type \in Types, NEW v \in Values(type)
  PROVE  /\ v \in {"absent", "empty", "hollow", "legal", "illegal", "foreign"}
         /\ type \in Enums => v \in {"absent", "legal", "illegal"}
         /\ type = "HandoverCause" => v # "hollow"
<1> DEFINE V == {"absent", "empty", "hollow", "legal", "illegal", "foreign"}
<1>1. Structures = DOMAIN structures
  BY DEF Structures, structures
<1>2. \A t \in Structures : structures[t] \subseteq V
  BY DEF Structures, structures
<1>3. /\ type \in Plain => type \notin Texts \cup Policies \cup Alternatives \cup Structures
                          \cup {"Message", "ServiceMessageIdentity", "UEEndpoint", "TAIList"}
      /\ type \in Texts => type \notin Plain \cup Policies \cup Alternatives \cup Structures
                          \cup {"Message", "ServiceMessageIdentity", "UEEndpoint", "TAIList"}
      /\ type \in Policies => type \notin Plain \cup Texts \cup Alternatives \cup Structures
                          \cup {"Message", "ServiceMessageIdentity", "UEEndpoint", "TAIList"}
      /\ type \in Alternatives => type \notin Plain \cup Texts \cup Policies \cup Structures
                          \cup {"Message", "ServiceMessageIdentity", "UEEndpoint", "TAIList"}
      /\ type \in Structures => type \notin Plain \cup Texts \cup Policies \cup Alternatives
                          \cup {"Message", "ServiceMessageIdentity", "UEEndpoint", "TAIList"}
      /\ type \in {"Message", "ServiceMessageIdentity", "UEEndpoint", "TAIList"} =>
           type \notin Plain \cup Texts \cup Policies \cup Alternatives \cup Structures
  BY DEF Plain, Texts, Policies, Alternatives, Structures, Enums, Ranges, ChoiceTypes
<1>4. Values(type) =
        {"absent", "legal"} \cup
        (CASE type \in Plain -> {"illegal"}
           [] type \in Texts -> {}
           [] type = "Message" -> {"empty"}
           [] type \in Policies -> {"empty", "illegal"}
           [] type = "ServiceMessageIdentity" -> {"empty", "foreign"}
           [] type \in Alternatives -> {"empty", "illegal", "foreign"}
           [] type = "UEEndpoint" -> {"empty", "hollow", "illegal", "foreign"}
           [] type = "TAIList" -> {"empty", "hollow", "illegal"}
           [] type \in Structures -> structures[type])
  BY <1>1 DEF Values, Plain, Texts, Policies, Alternatives
<1>5. type \in Enums => type \in Plain
  BY DEF Plain
<1>6. type = "HandoverCause" => type \in Alternatives
  BY DEF Alternatives, ChoiceTypes
<1>7. CASE type \in Plain
  <2>1. Values(type) = {"absent", "legal"} \cup {"illegal"}
    BY <1>3, <1>4, <1>7
  <2>2. QED
    BY <1>3, <1>6, <1>7, <2>1
<1>8. CASE type \in Texts
  <2>1. Values(type) = {"absent", "legal"} \cup {}
    BY <1>3, <1>4, <1>8
  <2>2. QED
    BY <1>3, <1>6, <1>8, <2>1
<1>9. CASE type \in Policies
  <2>1. Values(type) = {"absent", "legal"} \cup {"empty", "illegal"}
    BY <1>3, <1>4, <1>9
  <2>2. QED
    BY <1>3, <1>5, <1>6, <1>9, <2>1
<1>10. CASE type \in Alternatives
  <2>1. Values(type) = {"absent", "legal"} \cup {"empty", "illegal", "foreign"}
    BY <1>3, <1>4, <1>10
  <2>2. QED
    BY <1>3, <1>5, <1>10, <2>1
<1>11. CASE type \in Structures
  <2>1. Values(type) = {"absent", "legal"} \cup structures[type]
    BY <1>3, <1>4, <1>11
  <2>2. QED
    BY <1>2, <1>3, <1>5, <1>6, <1>11, <2>1
<1>12. CASE type \in {"Message", "ServiceMessageIdentity", "UEEndpoint", "TAIList"}
  <2>1. Values(type) \subseteq V
    BY <1>3, <1>4, <1>12
  <2>2. QED
    BY <1>3, <1>5, <1>6, <1>12, <2>1
<1>13. QED
  BY <1>7, <1>8, <1>9, <1>10, <1>11, <1>12 DEF Types

(* A member that conforms is not refused, and is written unless it is an    *)
(* optional one that is absent.                                             *)
LEMMA ConformingIsAccepted ==
  ASSUME NEW tag, NEW m, NEW v, Tabled(tag, m), Conforms(m, v)
  PROVE  /\ constraintOf(tag, m.type, v) /\ ~EmitFails(m, v)
         /\ m.type = "UEEndpoint" =>
              /\ tag = 9 => v \notin {"absent", "empty"}
              /\ tag = 6 => v # "empty"
         /\ Emitted(m, v) <=> (m.optional => v # "absent")
<1>1. CASE v = "legal"
  BY <1>1 DEF constraintOf, EmitFails, Emitted, present
<1>2. CASE v = "absent" /\ m.optional
  BY <1>2 DEF constraintOf, EmitFails, Emitted, present, Tabled
<1>3. CASE v = "absent" /\ ~m.optional /\ m.type \in ZeroIsLegal \ ChoiceTypes
  <2>1. m.type \notin Enums /\ m.type # "UEEndpoint" /\ m.type \notin ChoiceTypes
    BY <1>3 DEF ZeroIsLegal, Ranges, Enums
  <2>2. QED
    BY <1>3, <2>1 DEF constraintOf, EmitFails, Emitted, present
<1>4. CASE v = "empty" /\ m.type \in ZeroIsLegal
  <2>1. m.type # "HandoverCause" /\ m.type # "UEEndpoint"
    BY <1>4 DEF ZeroIsLegal, Ranges
  <2>2. m.type \in ChoiceTypes => ~m.optional
    BY <1>4 DEF ZeroIsLegal, Ranges, ChoiceTypes, Tabled
  <2>3. QED
    BY <1>4, <2>1, <2>2 DEF constraintOf, EmitFails, Emitted, present
<1>5. QED
  BY <1>1, <1>2, <1>3, <1>4 DEF Conforms

(* A member that is not refused conforms, or is one of those EncodeXIRI     *)
(* does not look at.                                                        *)
LEMMA AcceptedConforms ==
  ASSUME NEW tag, NEW m, NEW v \in Values(m.type), Tabled(tag, m),
         constraintOf(tag, m.type, v), ~EmitFails(m, v),
         m.type = "UEEndpoint" => /\ tag = 9 => v \notin {"absent", "empty"}
                                  /\ tag = 6 => v # "empty"
  PROVE  Conforms(m, v) \/ Unchecked(tag, m.type, v)
<1>0. /\ v \in {"absent", "empty", "hollow", "legal", "illegal", "foreign"}
      /\ m.type \in Enums => v \in {"absent", "legal", "illegal"}
      /\ m.type = "HandoverCause" => v # "hollow"
  BY ValuesOfTypes DEF Tabled
<1>1. CASE v = "legal"
  BY <1>1 DEF Conforms
<1>2. CASE v = "illegal"
  <2>1. m.type \in Unlisted
    BY <1>2 DEF constraintOf
  <2>2. m.type # "UEEndpoint" /\ m.type \notin Enums \cup {"HandoverCause"}
    BY <2>1 DEF Unlisted, Enums
  <2>3. QED
    BY <1>2, <2>1, <2>2 DEF Unchecked
<1>3. CASE v = "foreign"
  BY <1>3 DEF EmitFails, Emitted, present
<1>4. CASE v = "hollow"
  BY <1>0, <1>4 DEF Unchecked, Enums
<1>5. CASE v = "absent"
  <2>1. CASE m.type \in Enums
    BY <1>5, <2>1 DEF constraintOf, Tabled, Conforms
  <2>2. CASE m.type = "UEEndpoint"
    BY <1>5, <2>2 DEF Tabled, Conforms
  <2>3. CASE m.type \in ChoiceTypes
    BY <1>5, <2>3 DEF EmitFails, Emitted, present, Conforms
  <2>4. CASE m.type \notin Enums \cup ChoiceTypes /\ m.type # "UEEndpoint"
    <3>1. m.type # "HandoverCause"
      BY <2>4 DEF ChoiceTypes
    <3>2. QED
      BY <1>5, <2>4, <3>1 DEF Unchecked
  <2>5. QED
    BY <2>1, <2>2, <2>3, <2>4
<1>6. CASE v = "empty"
  <2>1. m.type \notin Enums
    BY <1>0, <1>6
  <2>2. m.type # "HandoverCause"
    BY <1>6 DEF constraintOf, zeroForbidden, mandatoryEnums
  <2>3. CASE m.type = "UEEndpoint"
    BY <1>6, <2>3 DEF Tabled, Unchecked, Enums
  <2>4. CASE m.type # "UEEndpoint"
    BY <1>6, <2>1, <2>2, <2>4 DEF Unchecked
  <2>5. QED
    BY <2>3, <2>4
<1>7. QED
  BY <1>0, <1>1, <1>2, <1>3, <1>4, <1>5, <1>6

-----------------------------------------------------------------------------
(* The payload is the members that are emitted, behind the tag of the       *)
(* record.                                                                  *)
-----------------------------------------------------------------------------
(* t has the members of x that Q picks of the first n. *)
Picks(t, n, x, Q) ==
  /\ t \in Seq({x[i] : i \in 1..n}) /\ Len(t) <= n
  /\ Range(t) = {x[i] : i \in Q}

LEMMA Picked ==
  ASSUME NEW n \in Nat, NEW Q \in SUBSET (1..n), NEW x, NEW s,
         s = [i \in 1..n |-> IF i \in Q THEN <<x[i]>> ELSE <<>>]
  PROVE  Picks(FlattenSeq(s), n, x, Q)
<1>0. \A k \in Q : k \in 1..n
  OBVIOUS
<1> DEFINE S == {x[i] : i \in 1..n}
<1>1. ASSUME NEW i \in 1..n PROVE s[i] \in Seq(S) /\ s[i] = IF i \in Q THEN <<x[i]>> ELSE <<>>
  <2>1. x[i] \in S
    OBVIOUS
  <2> HIDE DEF S
  <2>2. <<x[i]>> \in Seq(S) /\ <<>> \in Seq(S)
    BY <2>1
  <2>3. QED
    BY <2>2
<1> HIDE DEF S
<1>3. PICK G : Behind(S, s, n, G) /\ G[0] = FlattenSeq(s)
  <2>1. s \in Seq(Seq(S)) /\ Len(s) = n
    BY <1>1
  <2>2. PICK G : Behind(S, s, Len(s), G) /\ G[0] = FlattenSeq(s)
    BY <2>1, FlattenBehind
  <2>3. QED
    BY <2>1, <2>2
<1>4. \A i \in 0..n : G[i] \in Seq(S)
  BY <1>3 DEF Behind
<1> DEFINE Rest(i) == {x[j] : j \in {k \in Q : k > i}}
           A == {i \in 0..n : Len(G[i]) <= n - i /\ Range(G[i]) = Rest(i)}
<1>5. n \in A
  <2>1. G[n] = <<>> /\ Rest(n) = {}
    <3>1. \A k \in Q : ~(k > n)
      BY <1>0
    <3>2. Rest(n) = {}
      BY <3>1
    <3>3. QED
      BY <1>3, <3>2 DEF Behind
  <2>2. Len(<<>>) = 0 /\ Range(<<>>) = {}
    BY DEF Range
  <2>3. QED
    BY <2>1, <2>2
<1>6. ASSUME NEW i \in 1..n, i \in A PROVE i - 1 \in A
  <2>1. PICK g, e : g = G[i] /\ e = s[i]
    OBVIOUS
  <2>2. g \in Seq(S) /\ e \in Seq(S) /\ Len(g) <= n - i /\ Range(g) = Rest(i) /\ Len(g) \in Nat
    <3>1. i \in 0..n
      OBVIOUS
    <3>2. g \in Seq(S) /\ e \in Seq(S) /\ Len(g) <= n - i /\ Range(g) = Rest(i)
      BY <1>1, <1>4, <1>6, <2>1, <3>1
    <3>3. QED
      BY <3>2, LenProperties
  <2>3. G[i - 1] = e \o g
    BY <1>3, <2>1 DEF Behind
  <2>4. Len(e \o g) = Len(e) + Len(g) /\ Range(e \o g) = Range(e) \cup Range(g)
    <3>1. Len(e \o g) = Len(e) + Len(g)
      BY <2>2, ConcatProperties
    <3>2. Range(e \o g) = Range(e) \cup Range(g)
      BY <2>2, RangeConcatenation
    <3>3. QED
      BY <3>1, <3>2
  <2>5. /\ Len(e) \in 0..1 /\ Range(e) = IF i \in Q THEN {x[i]} ELSE {}
    <3>1. CASE i \in Q
      <4>1. e = <<x[i]>>
        BY <2>1, <3>1
      <4>2. Len(<<x[i]>>) = 1 /\ DOMAIN <<x[i]>> = {1} /\ <<x[i]>>[1] = x[i]
        OBVIOUS
      <4>3. QED
        BY <3>1, <4>1, <4>2 DEF Range
    <3>2. CASE i \notin Q
      <4>1. e = <<>>
        BY <2>1, <3>2
      <4>2. QED
        BY <3>2, <4>1 DEF Range
    <3>3. QED
      BY <3>1, <3>2
  <2>6. Rest(i - 1) = (IF i \in Q THEN {x[i]} ELSE {}) \cup Rest(i)
    <3>1. \A k \in Q : k > i - 1 <=> (k = i \/ k > i)
      <4>1. i \in Nat /\ \A k \in Q : k \in Nat
        BY <1>0
      <4>2. \A k \in Nat : k > i - 1 <=> (k = i \/ k > i)
        BY <4>1
      <4>3. QED
        BY <4>1, <4>2
    <3>2. QED
      BY <3>1
  <2> HIDE DEF Rest
  <2>7. Len(G[i - 1]) <= n - (i - 1) /\ Range(G[i - 1]) = Rest(i - 1) /\ i - 1 \in 0..n
    <3>1. Len(e) + Len(g) <= n - (i - 1) /\ i - 1 \in 0..n
      <4>1. PICK c, d : c = Len(e) /\ d = Len(g)
        OBVIOUS
      <4>2. c \in 0..1 /\ d \in Nat /\ d <= n - i
        BY <2>2, <2>5, <4>1
      <4>3. c + d <= n - (i - 1) /\ i - 1 \in 0..n
        BY <4>2
      <4>4. QED
        BY <4>1, <4>3
    <3>2. Range(e) \cup Range(g) = Rest(i - 1)
      BY <2>2, <2>5, <2>6
    <3>3. QED
      BY <2>3, <2>4, <3>1, <3>2
  <2>8. QED
    BY <2>7
<1>7. 0 \in A
  <2> HIDE DEF A
  <2>1. QED
    BY <1>5, <1>6, Downwards
<1>8. Rest(0) = {x[i] : i \in Q}
  OBVIOUS
<1> HIDE DEF Rest
<1>9. Len(G[0]) <= n /\ Range(G[0]) = Rest(0) /\ G[0] \in Seq(S)
  <2>1. Len(G[0]) <= n - 0 /\ Range(G[0]) = Rest(0)
    BY <1>7
  <2>2. QED
    BY <1>4, <2>1
<1>10. QED
  BY <1>3, <1>8, <1>9 DEF S, Picks

(* The members of e that are written. *)
Written(e) == {i \in DOMAIN Members(e.record) : Emitted(Members(e.record)[i], e.value[i])}
Item(e, i) == <<Members(e.record)[i].tag, e.value[i]>>
Leader(e) == <<xiriEvent[e.record].tag, "record">>

LEMMA EmitWrites ==
  ASSUME NEW e, IsEvent(e)
  PROVE  /\ \E S : emit(e) \in Seq(S)
         /\ Len(emit(e)) <= 16 /\ Range(emit(e)) = {Item(e, i) : i \in Written(e)}
<1> DEFINE ms == Members(e.record)
           s == [i \in DOMAIN ms |-> IF Emitted(ms[i], e.value[i])
                                     THEN <<<<ms[i].tag, e.value[i]>>>> ELSE <<>>]
           x == [i \in DOMAIN ms |-> Item(e, i)]
<1>1. PICK n : n = Len(ms)
  OBVIOUS
<1>2. DOMAIN ms = 1..n /\ n \in 1..16
  <2>1. WellDefined(xiriEvent[e.record].tag, ms)
    BY MembersTabled DEF IsEvent
  <2>2. QED
    BY <1>1, <2>1 DEF WellDefined
<1>3. emit(e) = FlattenSeq(s)
  BY Zenon DEF emit
<1>4. Written(e) \in SUBSET (1..n)
  BY <1>2 DEF Written
<1>5. ASSUME NEW i \in 1..n
      PROVE  x[i] = Item(e, i) /\ s[i] = IF i \in Written(e) THEN <<x[i]>> ELSE <<>>
  <2>1. i \in DOMAIN ms
    BY <1>2
  <2>2. x[i] = Item(e, i)
    BY <2>1
  <2>3. i \in Written(e) <=> Emitted(ms[i], e.value[i])
    BY <2>1 DEF Written
  <2>4. s[i] = IF Emitted(ms[i], e.value[i]) THEN <<Item(e, i)>> ELSE <<>>
    BY <2>1, Zenon DEF Item
  <2>5. QED
    BY <2>2, <2>3, <2>4
<1>6. s = [i \in 1..n |-> IF i \in Written(e) THEN <<x[i]>> ELSE <<>>]
  BY <1>2, <1>5
<1> HIDE DEF s, x
<1>7. /\ FlattenSeq(s) \in Seq({x[i] : i \in 1..n}) /\ Len(FlattenSeq(s)) <= n
      /\ Range(FlattenSeq(s)) = {x[i] : i \in Written(e)}
  <2>1. n \in Nat
    BY <1>2
  <2>2. Picks(FlattenSeq(s), n, x, Written(e))
    BY <1>4, <1>6, <2>1, Picked, Zenon
  <2>3. QED
    BY <2>2 DEF Picks
<1>8. {x[i] : i \in Written(e)} = {Item(e, i) : i \in Written(e)}
  BY <1>4, <1>5
<1>9. Len(FlattenSeq(s)) <= 16
  <2>1. Len(FlattenSeq(s)) \in Nat
    BY <1>7, LenProperties
  <2>2. QED
    <3>1. PICK k : k = Len(FlattenSeq(s))
      OBVIOUS
    <3>2. k \in Nat /\ k <= n
      BY <1>7, <2>1, <3>1
    <3>3. QED
      BY <1>2, <3>1, <3>2
<1>10. QED
  BY <1>3, <1>7, <1>8, <1>9, Zenon

Acceptable(e) ==
  /\ validateEvent(e) /\ validateConstraints(e)
  /\ \A i \in DOMAIN e.value : ~EmitFails(Members(e.record)[i], e.value[i])

(* A payload is not empty: Refused is none. *)
LEMMA EncodeOutcome ==
  ASSUME NEW e, IsEvent(e)
  PROVE  /\ EncodeXIRI(e) # Refused <=> Acceptable(e)
         /\ \E S : EncodeXIRI(e) \in Seq(S)
         /\ Len(EncodeXIRI(e)) <= 17
         /\ Acceptable(e) =>
              Range(EncodeXIRI(e)) = {Leader(e)} \cup {Item(e, i) : i \in Written(e)}
<1>1. PICK S : emit(e) \in Seq(S)
  BY EmitWrites
<1>2. PICK l, y, S2 : l = <<Leader(e)>> /\ y = emit(e) /\ S2 = S \cup {Leader(e)}
  OBVIOUS
<1>3. l \in Seq(S2) /\ Len(l) = 1 /\ Range(l) = {Leader(e)}
  <2>1. Leader(e) \in S2
    BY <1>2
  <2>2. PICK q : q = Leader(e)
    OBVIOUS
  <2>3. <<q>> \in Seq(S2) /\ Len(<<q>>) = 1 /\ DOMAIN <<q>> = {1} /\ <<q>>[1] = q
    BY <2>1, <2>2
  <2>4. QED
    BY <1>2, <2>2, <2>3 DEF Range
<1>4. y \in Seq(S2) /\ Len(y) \in Nat /\ Len(y) <= 16
      /\ Range(y) = {Item(e, i) : i \in Written(e)}
  <2>1. S \subseteq S2
    BY <1>2
  <2>2. y \in Seq(S2)
    BY <1>1, <1>2, <2>1, SeqMonotonic
  <2>3. QED
    BY <1>2, <2>2, EmitWrites, LenProperties
<1>5. l \o y \in Seq(S2) /\ Len(l \o y) = 1 + Len(y) /\ Range(l \o y) = Range(l) \cup Range(y)
  <2>1. l \o y \in Seq(S2) /\ Len(l \o y) = Len(l) + Len(y)
    BY <1>3, <1>4, ConcatProperties
  <2>2. Range(l \o y) = Range(l) \cup Range(y)
    BY <1>3, <1>4, RangeConcatenation
  <2>3. QED
    BY <1>3, <2>1, <2>2
<1>6. l \o y # <<>>
  BY <1>4, <1>5
<1>7. EncodeXIRI(e) = IF Acceptable(e) THEN l \o y ELSE <<>>
  BY <1>2 DEF EncodeXIRI, Acceptable, Refused, Leader
<1>8. CASE Acceptable(e)
  <2>1. EncodeXIRI(e) = l \o y
    BY <1>7, <1>8
  <2>2. Len(l \o y) <= 17
    BY <1>4, <1>5
  <2>3. QED
    BY <1>3, <1>4, <1>5, <1>6, <1>8, <2>1, <2>2 DEF Refused
<1>9. CASE ~Acceptable(e)
  <2>1. EncodeXIRI(e) = <<>>
    BY <1>7, <1>9
  <2>2. <<>> \in Seq(S2) /\ Len(<<>>) <= 17
    OBVIOUS
  <2>3. QED
    BY <1>9, <2>1, <2>2 DEF Refused
<1>10. QED
  BY <1>8, <1>9

(* An event whose members conform is accepted, and written whole. *)
LEMMA ConformingEvent ==
  ASSUME NEW e, IsEvent(e),
         \A i \in DOMAIN Members(e.record) : Conforms(Members(e.record)[i], e.value[i])
  PROVE  /\ Acceptable(e)
         /\ Written(e) = {j \in DOMAIN Members(e.record) :
                            Members(e.record)[j].optional => e.value[j] # "absent"}
<1>1. PICK ms, tag : ms = Members(e.record) /\ tag = xiriEvent[e.record].tag
  OBVIOUS
<1>2. DOMAIN e.value = DOMAIN ms /\ \A i \in DOMAIN ms : Tabled(tag, ms[i])
  BY <1>1, MembersTabled DEF IsEvent, WellDefined
<1>3. ASSUME NEW i \in DOMAIN ms
      PROVE  /\ constraintOf(tag, ms[i].type, e.value[i]) /\ ~EmitFails(ms[i], e.value[i])
             /\ ms[i].type = "UEEndpoint" =>
                  /\ tag = 9 => e.value[i] \notin {"absent", "empty"}
                  /\ tag = 6 => e.value[i] # "empty"
             /\ Emitted(ms[i], e.value[i]) <=> (ms[i].optional => e.value[i] # "absent")
  <2>1. Tabled(tag, ms[i]) /\ Conforms(ms[i], e.value[i])
    BY <1>1, <1>2
  <2>2. QED
    BY <2>1, ConformingIsAccepted
<1>4. validateConstraints(e)
  BY <1>1, <1>2, <1>3, Zenon DEF validateConstraints
<1>5. validateEvent(e)
  <2>1. SUFFICES ASSUME NEW i \in DOMAIN e.value, ms[i].type = "UEEndpoint"
                 PROVE  CASE tag = 9 -> e.value[i] \notin {"absent", "empty"}
                          [] tag = 6 -> e.value[i] # "empty"
                          [] OTHER -> TRUE
    BY <1>1 DEF validateEvent
  <2>2. /\ tag = 9 => e.value[i] \notin {"absent", "empty"}
        /\ tag = 6 => e.value[i] # "empty"
    BY <1>2, <1>3, <2>1
  <2>3. QED
    BY <2>2
<1>6. \A i \in DOMAIN e.value : ~EmitFails(Members(e.record)[i], e.value[i])
  BY <1>1, <1>2, <1>3
<1>7. Written(e) = {j \in DOMAIN ms : ms[j].optional => e.value[j] # "absent"}
  BY <1>1, <1>3 DEF Written
<1>8. QED
  BY <1>1, <1>4, <1>5, <1>6, <1>7 DEF Acceptable

(* What is accepted conforms, but for what is not looked at. *)
LEMMA AcceptableEvent ==
  ASSUME NEW e, IsEvent(e), Acceptable(e), NEW i \in DOMAIN Members(e.record)
  PROVE  \/ Conforms(Members(e.record)[i], e.value[i])
         \/ Unchecked(xiriEvent[e.record].tag, Members(e.record)[i].type, e.value[i])
<1>1. PICK m, tag, v : m = Members(e.record)[i] /\ tag = xiriEvent[e.record].tag /\ v = e.value[i]
  OBVIOUS
<1>2. i \in DOMAIN e.value /\ Tabled(tag, m) /\ v \in Values(m.type)
  BY <1>1, MembersTabled DEF IsEvent, WellDefined
<1>3. constraintOf(tag, m.type, v)
  BY <1>1, <1>2 DEF Acceptable, validateConstraints
<1>4. ~EmitFails(m, v)
  BY <1>1, <1>2 DEF Acceptable
<1>5. m.type = "UEEndpoint" => /\ tag = 9 => v \notin {"absent", "empty"}
                               /\ tag = 6 => v # "empty"
  <2>1. m.type = "UEEndpoint" => CASE tag = 9 -> v \notin {"absent", "empty"}
                                   [] tag = 6 -> v # "empty"
                                   [] OTHER -> TRUE
    BY <1>1, <1>2 DEF Acceptable, validateEvent
  <2>2. QED
    BY <2>1
<1>6. QED
  BY <1>1, <1>2, <1>3, <1>4, <1>5, AcceptedConforms

-----------------------------------------------------------------------------
(* An event on its way out. The inductive invariant says that what is       *)
(* written is the X2 PDU of the event that occurred, and what was received  *)
(* is that PDU decoded.                                                     *)
-----------------------------------------------------------------------------
LEMMA Fits ==
  /\ Word \in Nat /\ Word > 24 /\ MandatoryHeaderLength + 8 < Word * Word
  /\ \A n \in 0..17 : n < Word /\ n < Word * Word
  /\ MandatoryHeaderLength \in Nat
<1>1. PICK w : w = Radix * Radix
  OBVIOUS
<1>2. MandatoryHeaderLength \in Nat /\ MandatoryHeaderLength >= 16
  BY PDUAssumption DEF MandatoryHeaderLength, Fixed
<1>3. w \in Nat /\ MandatoryHeaderLength + 8 < w /\ w > 24
  BY <1>1, <1>2, PDUAssumption, WireAssumption
<1>4. w * w >= w
  <2>1. PICK i \in Nat : w = 1 + i
    <3>1. w - 1 \in Nat /\ w = 1 + (w - 1)
      BY <1>3
    <3>2. QED
      BY <3>1
  <2>2. w * w = w + i * w
    BY <1>3, <2>1
  <2>3. i * w \in Nat
    BY <1>3
  <2>4. QED
    BY <1>3, <2>2, <2>3
<1>5. w * w \in Nat
  BY <1>3
<1>6. Word = w
  BY <1>1 DEF Word
<1>7. QED
  BY <1>2, <1>3, <1>4, <1>5, <1>6

(* The sequence number of an X2 PDU, and its octets. *)
LEMMA NumberAttribute ==
  /\ SequenceNumber(0) \in Attribute /\ Len(SequenceNumber(0).value) = 4
  /\ putTLV(SequenceNumber(0)) \in Seq(Octet) /\ Len(putTLV(SequenceNumber(0))) = 8
<1>1. PICK t, v : t = SequenceNumber(0) /\ v = PutUint32(0)
  OBVIOUS
<1>2. v \in Seq(Octet) /\ Len(v) = 4
  <2>1. 0 \in Nat /\ 0 < (Radix * Radix) * (Radix * Radix)
    BY Fits DEF Word
  <2>2. QED
    BY <1>1, <2>1, Uint32RoundTrip
<1>3. t = [type |-> 8, value |-> v]
  BY <1>1 DEF SequenceNumber, TLV, AttrSequenceNumber
<1>4. 8 \in 0..Radix * Radix - 1 /\ 4 \in 0..Radix * Radix - 1
  BY Fits DEF Word
<1>5. t \in Attribute /\ t.value = v
  BY <1>2, <1>3, <1>4 DEF Attribute
<1>6. <<>> \in Seq(Octet) /\ Len(<<>>) = 0
  BY EmptySeq
<1>7. PICK s, b : s = putTLV(t) /\ b = <<>> \o (s \o <<>>)
  OBVIOUS
<1>8. s \in Seq(Octet) /\ TLVBetween(b, <<>>, t, <<>>)
  BY <1>5, <1>6, <1>7, OneTLV
<1>9. Len(<<>> \o s) = Len(<<>>) + 4 + Len(t.value)
  BY <1>7, <1>8 DEF TLVBetween
<1>10. Len(s) = 8
  <2>1. <<>> \o s = s
    BY <1>8, ConcatEmptySeq
  <2>2. QED
    <3>1. Len(s) = Len(<<>>) + 4 + Len(t.value)
      BY <1>9, <2>1
    <3>2. Len(t.value) = 4
      BY <1>2, <1>5
    <3>3. QED
      BY <1>6, <3>1, <3>2
<1>11. QED
  BY <1>1, <1>2, <1>5, <1>7, <1>8, <1>10

LEMMA X2Transmittable ==
  ASSUME NEW S, NEW payload \in Seq(S), Len(payload) <= 17
  PROVE  X2(payload) \in Transmittable(S)
<1>1. PICK p : p = X2(payload)
  OBVIOUS
<1>2. PICK t : t = SequenceNumber(0)
  OBVIOUS
<1>3. /\ p.type = 1 /\ p.format = 2 /\ p.direction = 5 /\ p.xid = Repeat(1, xidLength)
      /\ p.corr = Repeat(1, CorrelationIDLength) /\ p.attributes = <<t>> /\ p.payload = payload
  BY <1>1, <1>2 DEF X2, PDUTypeX2
<1>4. ASSUME NEW n \in Nat PROVE Repeat(1, n) \in Seq(Octet) /\ Len(Repeat(1, n)) = n
  <2>1. 1 \in Octet
    BY PDUAssumption DEF Octet
  <2>2. QED
    BY <2>1 DEF Repeat
<1>5. p.xid \in Seq(Octet) /\ Len(p.xid) = xidLength /\ p.corr \in Seq(Octet)
      /\ Len(p.corr) = CorrelationIDLength
  BY <1>3, <1>4, PDUAssumption
<1>6. t \in Attribute /\ putTLV(t) \in Seq(Octet) /\ Len(putTLV(t)) = 8 /\ Len(t.value) = 4
  BY <1>2, NumberAttribute
<1>7. /\ <<t>> \in Seq(Attribute) /\ DOMAIN <<t>> = {1} /\ <<t>>[1] = t
  BY <1>6
<1>8. AttributeOctets(p) = putTLV(t)
  <2>1. PICK s : s = [i \in DOMAIN p.attributes |-> putTLV(p.attributes[i])]
    OBVIOUS
  <2>2. s = [i \in {1} |-> putTLV(<<t>>[i])] /\ s[1] = putTLV(t)
    BY <1>3, <1>7, <2>1
  <2>3. {1} = 1..1
    OBVIOUS
  <2>4. Len(s) = 1
    BY <2>2, <2>3
  <2>5. PICK F : Flat(s, 1, F) /\ FlattenSeq(s) = F[1]
    <3>1. PICK F : Flat(s, Len(s), F) /\ FlattenSeq(s) = F[Len(s)]
      <4>1. Len(s) \in Nat \ {0}
        BY <2>4
      <4>2. QED
        BY <4>1, FlattenIsFlat, Zenon
    <3>2. QED
      BY <2>4, <3>1
  <2>6. F[1] = s[1]
    BY <2>3, <2>5 DEF Flat
  <2>7. QED
    BY <2>1, <2>2, <2>5, <2>6 DEF AttributeOctets
<1>9. Marshalable(p)
  <2>1. validate(p)
    <3>1. 1 \in DOMAIN payloadFormatRules /\ payloadFormatRules[1] = (1 .. 6) \cup (9 .. 11) \cup {14, 15, 17}
      BY DEF payloadFormatRules, PDUTypeX2, PDUTypeX3
    <3>2. QED
      BY <1>3, <3>1 DEF validate, allowedOn
  <2>2. ASSUME NEW i \in DOMAIN p.attributes PROVE Len(p.attributes[i].value) < Radix * Radix
    <3>1. p.attributes[i] = t
      BY <1>3, <1>7
    <3>2. 4 < Radix * Radix
      BY Fits DEF Word
    <3>3. QED
      BY <1>6, <3>1, <3>2
  <2>3. QED
    BY <2>1, <2>2 DEF Marshalable
<1>10. /\ 1 \in 0..Word - 1 /\ 2 \in 0..Word - 1 /\ 5 \in 0..Word - 1
       /\ MandatoryHeaderLength + 8 < Word * Word
  BY Fits
<1>11. Len(payload) < Word * Word
  <2>1. Len(payload) \in 0..17
    <3>1. Len(payload) \in Nat
      BY LenProperties
    <3>2. PICK k : k = Len(payload)
      OBVIOUS
    <3>3. k \in Nat /\ k <= 17
      BY <3>1, <3>2
    <3>4. k \in 0..17
      BY <3>3
    <3>5. QED
      BY <3>2, <3>4
  <2>2. QED
    BY <2>1, Fits
<1>12. p \in [type : 0..Word - 1, format : 0..Word - 1, direction : 0..Word - 1,
              xid : Seq(Octet), corr : Seq(Octet), attributes : Seq(Attribute), payload : Seq(S)]
  <2>1. p = [type |-> p.type, format |-> p.format, direction |-> p.direction, xid |-> p.xid,
             corr |-> p.corr, attributes |-> p.attributes, payload |-> p.payload]
    BY <1>1 DEF X2
  <2>2. p.attributes \in Seq(Attribute) /\ p.payload \in Seq(S)
    BY <1>3, <1>7
  <2>3. p.type \in 0..Word - 1 /\ p.format \in 0..Word - 1 /\ p.direction \in 0..Word - 1
    BY <1>3, <1>10
  <2>4. QED
    BY <1>5, <2>1, <2>2, <2>3
<1>13. p \in Transmittable(S)
  BY <1>3, <1>5, <1>6, <1>8, <1>9, <1>10, <1>11, <1>12 DEF Transmittable
<1>14. QED
  BY <1>1, <1>13

(* The PDU of an event is never without octets, and is read back.           *)
LEMMA EventIsCarried ==
  ASSUME NEW e, IsEvent(e)
  PROVE  /\ Marshalable(X2(EncodeXIRI(e))) /\ Marshal(X2(EncodeXIRI(e))) # <<>>
         /\ \E n : Unmarshal(Marshal(X2(EncodeXIRI(e)))) = Decoded(X2(EncodeXIRI(e)), n)
<1>1. PICK y : y = EncodeXIRI(e)
  OBVIOUS
<1>2. PICK S : y \in Seq(S)
  BY <1>1, EncodeOutcome
<1>3. Len(y) <= 17
  BY <1>1, EncodeOutcome
<1>4. PICK p : p = X2(y)
  OBVIOUS
<1>5. p \in Transmittable(S)
  BY <1>2, <1>3, <1>4, X2Transmittable
<1>6. Marshalable(p)
  BY <1>5 DEF Transmittable
<1>7. Unmarshal(Marshal(p)) = Decoded(p, Len(Marshal(p)))
  BY <1>5, RoundTrip
<1>8. Marshal(p) # <<>>
  <2>1. SUFFICES ASSUME Marshal(p) = <<>> PROVE FALSE
    OBVIOUS
  <2>2. Len(<<>>) < Sizing
    BY DEF Sizing
  <2>3. Unmarshal(Marshal(p)) = ErrIncomplete
    BY <2>1, <2>2 DEF Unmarshal
  <2>4. QED
    BY <1>7, <2>3 DEF ErrIncomplete, Decoded
<1>9. QED
  BY <1>1, <1>4, <1>6, <1>7, <1>8

(* What is on its way out is the PDU of the event, or nothing. *)
RecordInv ==
  /\ event = None \/ event \in Event
  /\ event = None => written = <<>> /\ received = <<>>
  /\ event # None => written = IF EncodeXIRI(event) # Refused /\ Marshalable(X2(EncodeXIRI(event)))
                               THEN Marshal(X2(EncodeXIRI(event))) ELSE <<>>
  /\ received # <<>> => written # <<>> /\ received = <<Unmarshal(written)>>

LEMMA EventIsNotNone ==
  ASSUME NEW e \in Event
  PROVE  IsEvent(e) /\ e # None
<1>1. IsEvent(e)
  BY WireAssumption
<1>2. e.record \in Record
  BY <1>1 DEF IsEvent
<1>3. 0 \notin Record
  BY DEF Record, xiriEvent
<1>4. None.record = 0
  BY DEF None
<1>5. QED
  BY <1>1, <1>2, <1>3, <1>4

(* Between iri.EncodeXIRI and the mediation function nothing is on its way  *)
(* but the marshalled X2 PDU of the event, and what is received of it is    *)
(* what Unmarshal reads of exactly those octets.                            *)
THEOREM RecordInvariant == Spec => []RecordInv
<1>1. Init => RecordInv
  BY DEF Init, RecordInv
<1>2. RecordInv /\ [Next]_vars => RecordInv'
  <2>1. SUFFICES ASSUME RecordInv, [Next]_vars
                 PROVE  RecordInv'
    OBVIOUS
  <2>2. CASE UNCHANGED outbound
    BY <2>1, <2>2 DEF RecordInv, outbound
  <2>3. ASSUME NEW e \in Event, Encode(e) PROVE RecordInv'
    <3>1. e # None
      BY EventIsNotNone
    <3>2. /\ event = None /\ event' = e /\ received' = received /\ received = <<>>
          /\ written' = IF EncodeXIRI(e) # Refused /\ Marshalable(X2(EncodeXIRI(e)))
                        THEN Marshal(X2(EncodeXIRI(e))) ELSE <<>>
      BY <2>1, <2>3 DEF Encode, RecordInv
    <3>3. QED
      BY <3>1, <3>2, Zenon DEF RecordInv
  <2>4. CASE Receive
    <3>1. /\ written # <<>> /\ received' = <<Unmarshal(written)>>
          /\ event' = event /\ written' = written
      BY <2>4 DEF Receive
    <3>2. event # None
      BY <2>1, <3>1 DEF RecordInv
    <3>3. QED
      BY <2>1, <3>1, <3>2, Zenon DEF RecordInv
  <2>5. QED
    BY <2>1, <2>2, <2>3, <2>4 DEF Next, vars, read, readError, decode
<1>3. QED
  BY <1>1, <1>2, PTL DEF Spec

LEMMA RecordInvConforms == RecordInv => RecordsConform
<1>1. SUFFICES ASSUME RecordInv, event # None PROVE RecordsConform
  BY DEF RecordsConform
<1>2. PICK e, ms, tag, y : /\ e = event /\ ms = Members(e.record) /\ tag = xiriEvent[e.record].tag
                           /\ y = EncodeXIRI(e)
  OBVIOUS
<1>3. e \in Event /\ IsEvent(e)
  BY <1>1, <1>2, EventIsNotNone DEF RecordInv
<1>4. /\ Marshalable(X2(y)) /\ Marshal(X2(y)) # <<>>
      /\ \E n : Unmarshal(Marshal(X2(y))) = Decoded(X2(y), n)
  BY <1>2, <1>3, EventIsCarried
<1>5. written = IF y # Refused THEN Marshal(X2(y)) ELSE <<>>
  BY <1>1, <1>2, <1>4 DEF RecordInv
<1>6. y # Refused <=> Acceptable(e)
  BY <1>2, <1>3, EncodeOutcome
<1> DEFINE ok == \A i \in DOMAIN ms : Conforms(ms[i], e.value[i])
           Due2 == {j \in DOMAIN ms : ms[j].optional => e.value[j] # "absent"}
<1>7. ok => Acceptable(e) /\ Written(e) = Due2
  BY <1>2, <1>3, ConformingEvent
<1> HIDE DEF ok
<1>8. ok => written # <<>>
  BY <1>4, <1>5, <1>6, <1>7
<1>9. ASSUME received # <<>>
      PROVE  /\ received[1].err = "none" /\ received[1].pdu = X2(y)
             /\ \A i \in DOMAIN ms : \/ Conforms(ms[i], e.value[i])
                                     \/ Unchecked(tag, ms[i].type, e.value[i])
             /\ ok => {received[1].pdu.payload[i] : i \in DOMAIN received[1].pdu.payload}
                      = {<<tag, "record">>} \cup {<<ms[i].tag, e.value[i]>> : i \in Due2}
  <2>1. written # <<>> /\ received = <<Unmarshal(written)>>
    BY <1>1, <1>9 DEF RecordInv
  <2>2. y # Refused /\ written = Marshal(X2(y))
    BY <1>5, <2>1
  <2>3. received[1] = Unmarshal(Marshal(X2(y)))
    BY <2>1, <2>2
  <2>4. PICK n : received[1] = Decoded(X2(y), n)
    BY <1>4, <2>3
  <2>5. received[1].err = "none" /\ received[1].pdu = X2(y)
    BY <2>4 DEF Decoded
  <2>6. X2(y).payload = y
    BY DEF X2
  <2>7. \A i \in DOMAIN ms : \/ Conforms(ms[i], e.value[i])
                             \/ Unchecked(tag, ms[i].type, e.value[i])
    BY <1>2, <1>3, <1>6, <2>2, AcceptableEvent
  <2>8. Range(y) = {Leader(e)} \cup {Item(e, i) : i \in Written(e)}
    BY <1>2, <1>3, <1>6, <2>2, EncodeOutcome
  <2>9. {y[i] : i \in DOMAIN y} = {<<tag, "record">>} \cup {<<ms[i].tag, e.value[i]>> : i \in Written(e)}
    BY <1>2, <2>8 DEF Range, Leader, Item
  <2>10. QED
    BY <1>7, <2>5, <2>6, <2>7, <2>9
<1>10. QED
  BY <1>2, <1>8, <1>9 DEF RecordsConform, ok

(* For every event a network function can report: one whose members conform *)
(* to their definitions is not refused and reaches the mediation function   *)
(* with exactly those members under their tags, through EncodeXIRI, Marshal *)
(* and Unmarshal together; and no record that reaches it has a member out   *)
(* of its definition but those EncodeXIRI does not look at.                 *)
THEOREM RecordsReachTheMDF == Spec => []RecordsConform
<1>1. RecordInv => RecordsConform
  BY RecordInvConforms
<1>2. QED
  BY <1>1, RecordInvariant, PTL
==============================================================================
