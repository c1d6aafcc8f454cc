------------------------------- MODULE MCWire -------------------------------
(* Instances of Wire: octets of four bits, identifiers of one octet.        *)
EXTENDS Wire

CONSTANT Baselines  \* the records varied from, by how much of them is given

Ack(n) == keepalivePDU(PDUTypeKeepaliveAck, <<SequenceNumber(n)>>)

Good(p) ==
  unit(Marshal(p), IF p.type \in {PDUTypeKeepalive, PDUTypeKeepaliveAck} THEN "handled" ELSE "stops", p)
Bad(octets) == unit(octets, "refused", <<>>)

\* The octets b with those after the first o overwritten by w.
Patch(b, o, w) == SubSeq(b, 1, o) \o w \o SubSeq(b, o + Len(w) + 1, Len(b))

Kinds ==
  {Good(p) : p \in
     {Ack(0), Ack(17),
      keepalivePDU(PDUTypeKeepalive, <<SequenceNumber(2)>>),
      \* no number, one of three octets, one behind another attribute, a payload
      keepalivePDU(PDUTypeKeepaliveAck, <<>>),
      keepalivePDU(PDUTypeKeepalive, <<TLV(AttrSequenceNumber, <<1, 2, 3>>)>>),
      keepalivePDU(PDUTypeKeepaliveAck, <<TLV(5, <<>>), SequenceNumber(1)>>),
      [Ack(3) EXCEPT !.payload = <<0, 5, 0, 4>>],
      X2(<<7>>), [X2(<<>>) EXCEPT !.type = PDUTypeX3], [Ack(4) EXCEPT !.type = 9]}}
  \cup
  {Bad(b) : b \in
     {\* a header below the mandatory length, another major version, a format
      \* that X2 does not carry
      Patch(Marshal(Ack(0)), 4, PutUint32(MandatoryHeaderLength - 1)),
      Patch(Marshal(Ack(0)), 0, <<1>>),
      Patch(Marshal(X2(<<7>>)), 12, PutUint16(8)),
      \* attributes that end in a header, and in a value
      Patch(Marshal(Ack(0)), MandatoryHeaderLength + 2, PutUint16(1)),
      Patch(Marshal(Ack(0)), MandatoryHeaderLength + 2, PutUint16(5)),
      \* a payload too large to hold, and lengths whose sum does not fit
      Marshal([Ack(0) EXCEPT !.payload = Repeat(3, maxInboundPDU)]),
      Patch(Marshal([Ack(0) EXCEPT !.payload = Repeat(3, maxInboundPDU)]), 8, PutUint32(Radix^4 - 20))}}

\* A record with every member, or only those it must have; and up to two
\* members that are anything.
Baseline(r, b) ==
  [i \in DOMAIN Members(r) |->
    IF Members(r)[i].optional /\ b = "minimal" THEN "absent" ELSE "legal"]

Events ==
  UNION {UNION {{[record |-> r, value |-> [Baseline(r, b) EXCEPT ![i] = v, ![j] = w]] :
                   v \in Values(Members(r)[i].type), w \in Values(Members(r)[j].type)} :
                i, j \in DOMAIN Members(r)} : r \in Record, b \in Baselines}
=============================================================================
