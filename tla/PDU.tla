--------------------------------- MODULE PDU ---------------------------------
(****************************************************************************)
(* The X2/X3 PDU on the wire: Marshal, and Unmarshal of what stands at the  *)
(* front of a buffer.  Octets are numbers below Radix, most significant     *)
(* first; the layout is the code's, with the octet's range and the lengths  *)
(* of the two opaque identifiers as parameters.                             *)
(****************************************************************************)
EXTENDS Naturals, Sequences, SequencesExt

CONSTANTS
  Radix,               \* 256 in the code
  xidLength,           \* 16
  CorrelationIDLength  \* 8

ASSUME PDUAssumption ==
  /\ Radix \in Nat \ {0, 1}
  /\ xidLength \in Nat
  /\ CorrelationIDLength \in Nat

\* The octets up to the payload length, and up to the XID.
Sizing == 12
Fixed == 16
MandatoryHeaderLength == Fixed + xidLength + CorrelationIDLength

MajorVersion == 0
MinorVersion == 5

PDUTypeX2 == 1
PDUTypeX3 == 2
PDUTypeKeepalive == 3
PDUTypeKeepaliveAck == 4

AttrSequenceNumber == 8
-----------------------------------------------------------------------------
PutUint16(v) == <<(v \div Radix) % Radix, v % Radix>>
PutUint32(v) == PutUint16(v \div (Radix * Radix)) \o PutUint16(v)

\* The numbers in the octets that follow the first o of b.
Uint16(b, o) == b[o + 1] * Radix + b[o + 2]
Uint32(b, o) == Uint16(b, o) * (Radix * Radix) + Uint16(b, o + 2)

Repeat(v, n) == [i \in 1 .. n |-> v]
-----------------------------------------------------------------------------
\* payloadFormatRules: the formats permitted on X2 and on X3.
payloadFormatRules ==
  [type \in {PDUTypeX2, PDUTypeX3} |->
    IF type = PDUTypeX2 THEN (1 .. 6) \cup (9 .. 11) \cup {14, 15, 17}
    ELSE (1 .. 8) \cup {12, 13, 15, 16, 17}]

allowedOn(format, type) ==
  type \in DOMAIN payloadFormatRules => format \in payloadFormatRules[type]

validate(p) == allowedOn(p.format, p.type)

TLV(type, value) == [type |-> type, value |-> value]

\* keepalivePDU: all that is not the type and the number is zero.
keepalivePDU(type, attributes) ==
  [type |-> type, format |-> 0, direction |-> 0, xid |-> Repeat(0, xidLength),
   corr |-> Repeat(0, CorrelationIDLength), attributes |-> attributes, payload |-> <<>>]

SequenceNumber(n) == TLV(AttrSequenceNumber, PutUint32(n))

\* KeepaliveSequence: the numbers carried; it returns the first.
KeepaliveSequence(p) ==
  LET usable(a) == a.type = AttrSequenceNumber /\ Len(a.value) = 4
      found == SelectSeq(p.attributes, usable)
  IN IF found = <<>> THEN <<>> ELSE <<Uint32(found[1].value, 0)>>
-----------------------------------------------------------------------------
putTLV(t) == PutUint16(t.type) \o PutUint16(Len(t.value)) \o t.value

\* Marshal, of a PDU that is valid and whose attributes are each shorter
\* than their length field counts; its caller is refused otherwise.
Marshalable(p) ==
  validate(p) /\ \A i \in DOMAIN p.attributes : Len(p.attributes[i].value) < Radix * Radix

Marshal(p) ==
  LET attrs == FlattenSeq([i \in DOMAIN p.attributes |-> putTLV(p.attributes[i])])
  IN <<MajorVersion, MinorVersion>> \o PutUint16(p.type)
     \o PutUint32(MandatoryHeaderLength + Len(attrs)) \o PutUint32(Len(p.payload))
     \o PutUint16(p.format) \o PutUint16(p.direction) \o p.xid \o p.corr
     \o attrs \o p.payload

headerLen(b) == Uint32(b, 4)
payloadLen(b) == Uint32(b, 8)

total(b) == headerLen(b) + payloadLen(b)

\* The outcomes of Unmarshal.
ErrIncomplete == [err |-> "incomplete"]
Undecodable == [err |-> "undecodable"]
Decoded(p, used) == [err |-> "none", pdu |-> p, used |-> used]

\* What of b follows its first o octets, found being what follows more of
\* them: a TLV and what is behind it, or Undecodable for a header or a value
\* that b ends in.
nextTLV(b, found, o) ==
  LET left == Len(b) - o
      next == o + 4 + Uint16(b, o + 2)
  IN CASE left = 0 -> [err |-> "none", attributes |-> <<>>]
       [] left \in 1 .. 3 -> Undecodable
       [] left > 3 -> IF next > Len(b) \/ found[next].err # "none" THEN Undecodable
                      ELSE [err |-> "none", attributes |->
                            <<TLV(Uint16(b, o), SubSeq(b, o + 5, next))>>
                            \o found[next].attributes]

\* parseTLVs: the attributes in b, from its start.
parseTLVs(b) ==
  LET from[o \in 0 .. Len(b)] == nextTLV(b, from, o)
  IN from[0]

\* The PDU whose octets b begins with.
fields(b) ==
  [type |-> Uint16(b, 2), format |-> Uint16(b, 12), direction |-> Uint16(b, 14),
   xid |-> SubSeq(b, Fixed + 1, Fixed + xidLength),
   corr |-> SubSeq(b, Fixed + xidLength + 1, MandatoryHeaderLength),
   attributes |-> parseTLVs(SubSeq(b, MandatoryHeaderLength + 1, headerLen(b))).attributes,
   payload |-> SubSeq(b, headerLen(b) + 1, total(b))]

Unmarshal(b) ==
  IF Len(b) < Sizing THEN ErrIncomplete
  ELSE IF headerLen(b) < MandatoryHeaderLength THEN Undecodable
  ELSE IF total(b) > Len(b) THEN ErrIncomplete
  ELSE IF \/ b[1] # MajorVersion
          \/ parseTLVs(SubSeq(b, MandatoryHeaderLength + 1, headerLen(b))).err # "none"
          \/ ~validate(fields(b))
       THEN Undecodable
  ELSE Decoded(fields(b), total(b))
=============================================================================
