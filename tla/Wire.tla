-------------------------------- MODULE Wire --------------------------------
(****************************************************************************)
(* The octets of a delivery connection.  Towards the element: the units its *)
(* mediation function writes, read by Client.readLoop in whatever pieces    *)
(* the connection yields and handed on as PDUs.  Towards the mediation      *)
(* function: an event encoded by EncodeXIRI and carried in an X2 PDU.  The  *)
(* two directions share nothing, and a behaviour has traffic in one.  What  *)
(* handling a PDU does to the connection is DeliveryClient's.               *)
(****************************************************************************)
EXTENDS PDU, XIRI

CONSTANTS
  maxInboundPDU,  \* what the reader will hold of one PDU: 4096
  Pieces,         \* what one read may yield, in octets; at most 512
  PeerUnit,       \* what the mediation function may write (a set of units)
  MaxUnits,       \* how many of them
  Event           \* the events that occur

VARIABLES
  units,     \* the units the mediation function writes
  transit,   \* their octets that are not read yet
  buf,       \* the reader's buffer
  reader,    \* "read", "decode", "stopped" by a protocol error, or "ended"
  handled,   \* the PDUs it handed on, in order
  event,     \* the event encoded, if one was
  written,   \* the octets of the PDU that carries it
  received   \* the PDU the mediation function decoded

inbound == <<units, transit, buf, reader, handled>>
outbound == <<event, written, received>>
vars == <<inbound, outbound>>

None == [record |-> 0]

\* A unit is its octets and what becomes of it: it is handled, it is
\* decodable and ends the connection, or it is refused undecoded.
unit(octets, fate, pdu) == [octets |-> octets, fate |-> fate, pdu |-> pdu]

Octets(us) == FlattenSeq([i \in DOMAIN us |-> us[i].octets])

Init ==
  /\ units \in BoundedSeq(PeerUnit, MaxUnits)
  /\ transit = Octets(units)
  /\ buf = <<>> /\ reader = "read" /\ handled = <<>>
  /\ event = None /\ written = <<>> /\ received = <<>>
-----------------------------------------------------------------------------
(* readLoop.                                                                *)

\* Mutant of declared: the sum at the width of its terms.
declaredNarrow(b) == (headerLen(b) + payloadLen(b)) % Radix^4

declared(b) == headerLen(b) + payloadLen(b)

\* A read, and the refusal of a claim that is too large to hold.
read ==
  \E n \in Pieces :
    LET b == buf \o SubSeq(transit, 1, n) IN
    /\ reader = "read" /\ n <= Len(transit)
    /\ buf' = b
    /\ transit' = SubSeq(transit, n + 1, Len(transit))
    /\ reader' = IF Len(b) >= Sizing /\ declared(b) > maxInboundPDU THEN "stopped" ELSE "decode"
    /\ UNCHANGED <<units, handled, outbound>>

\* The connection fails, or is closed by either side.
readError ==
  /\ reader = "read"
  /\ reader' = "ended"
  /\ UNCHANGED <<units, transit, buf, handled, outbound>>

\* handleInbound, by what it does to the reader: it goes on after an
\* acknowledgement and after a Keepalive it could answer, and ends when the
\* answer cannot be written; anything else is a protocol error.
handleInbound(p) ==
  CASE p.type = PDUTypeKeepaliveAck -> {"decode"}
    [] p.type = PDUTypeKeepalive ->
         {"decode"} \cup IF KeepaliveSequence(p) = <<>> THEN {} ELSE {"ended"}
    [] OTHER -> {"stopped"}

\* What the fate of a unit says of its octets.  A claim that is too large to
\* hold is followed by as many octets as the reader would hold.
Fated(u) ==
  /\ u.octets \in Seq(0 .. Radix - 1) /\ Len(u.octets) >= Sizing
  /\ u.fate \in {"handled", "stops", "refused"}
  /\ u.fate # "refused" =>
       /\ Unmarshal(u.octets) = Decoded(u.pdu, Len(u.octets))
       /\ Len(u.octets) <= maxInboundPDU
       /\ u.fate = "stops" <=> handleInbound(u.pdu) = {"stopped"}
  /\ u.fate = "refused" =>
       \/ Unmarshal(u.octets) = Undecodable
       \/ total(u.octets) > maxInboundPDU /\ Len(u.octets) >= maxInboundPDU

ASSUME WireAssumption ==
  /\ maxInboundPDU \in Nat /\ Sizing <= maxInboundPDU
  /\ Pieces \subseteq 1 .. maxInboundPDU
  /\ MaxUnits \in Nat
  /\ \A u \in PeerUnit : Fated(u)
  /\ \A e \in Event : IsEvent(e)
  /\ MandatoryHeaderLength + 8 < Radix * Radix  \* an X2 header: 48 octets

\* Mutant of decode: one PDU for every read.
decodeOne ==
  LET u == Unmarshal(buf) IN
  /\ reader = "decode"
  /\ CASE u.err = "incomplete" -> reader' = "read" /\ UNCHANGED <<buf, handled>>
       [] u.err = "undecodable" -> reader' = "stopped" /\ UNCHANGED <<buf, handled>>
       [] u.err = "none" ->
            /\ buf' = SubSeq(buf, u.used + 1, Len(buf))
            /\ handled' = Append(handled, u.pdu)
            /\ reader' \in {IF r = "decode" THEN "read" ELSE r : r \in handleInbound(u.pdu)}
  /\ UNCHANGED <<units, transit, outbound>>

\* What is at the front of the buffer is decoded and handed on, again and
\* again, until the buffer holds only a part of a PDU.
decode ==
  LET u == Unmarshal(buf) IN
  /\ reader = "decode"
  /\ CASE u.err = "incomplete" -> reader' = "read" /\ UNCHANGED <<buf, handled>>
       [] u.err = "undecodable" -> reader' = "stopped" /\ UNCHANGED <<buf, handled>>
       [] u.err = "none" ->
            /\ buf' = SubSeq(buf, u.used + 1, Len(buf))
            /\ handled' = Append(handled, u.pdu)
            /\ reader' \in handleInbound(u.pdu)
  /\ UNCHANGED <<units, transit, outbound>>
-----------------------------------------------------------------------------
(* An event on its way out.                                                 *)

X2(payload) ==
  [type |-> PDUTypeX2, format |-> 2, direction |-> 5, xid |-> Repeat(1, xidLength),
   corr |-> Repeat(1, CorrelationIDLength), attributes |-> <<SequenceNumber(0)>>,
   payload |-> payload]

\* The event is encoded and written, or refused and nothing is.
Encode(e) ==
  /\ units = <<>> /\ event = None
  /\ event' = e
  /\ written' = IF EncodeXIRI(e) # Refused /\ Marshalable(X2(EncodeXIRI(e)))
                THEN Marshal(X2(EncodeXIRI(e))) ELSE <<>>
  /\ UNCHANGED <<inbound, received>>

\* The mediation function decodes what it was sent.
Receive ==
  /\ written # <<>> /\ received = <<>>
  /\ received' = <<Unmarshal(written)>>
  /\ UNCHANGED <<inbound, event, written>>

Next == read \/ readError \/ decode \/ (\E e \in Event : Encode(e)) \/ Receive

Spec == Init /\ [][Next]_vars
-----------------------------------------------------------------------------
(* Properties.                                                              *)

\* The units that are decodable and come before any that ends the reader,
\* with the one that ends it.
Due == {i \in DOMAIN units : /\ units[i].fate # "refused"
                             /\ \A j \in 1 .. i - 1 : units[j].fate = "handled"}

Expected == [i \in Due |-> units[i].pdu]

(* The pieces a connection yields do not matter to readLoop: the PDUs it    *)
(* hands on are those the mediation function wrote, in their order, up to   *)
(* the first that is not acceptable; that one ends the reader, nothing else *)
(* does, and a reader that waits with nothing in transit has handed on      *)
(* every unit.                                                              *)
FramingIsExact ==
  /\ IsPrefix(handled, Expected)
  /\ (reader = "read" /\ transit = <<>>) \/ reader = "stopped" => handled = Expected
  /\ reader = "stopped" => \E i \in DOMAIN units : units[i].fate # "handled"
  /\ reader = "read" /\ transit = <<>> => \A i \in DOMAIN units : units[i].fate = "handled"

(* A mediation function cannot make the element hold more than it agreed    *)
(* to, whatever lengths it declares: a reader that waits holds less than    *)
(* maxInboundPDU, and no buffer reaches twice that.                           *)
BufferBounded ==
  /\ reader = "read" => Len(buf) < maxInboundPDU
  /\ Len(buf) < 2 * maxInboundPDU

(* An event whose members all conform to their definitions reaches the      *)
(* mediation function as an X2 PDU with exactly those members, under their  *)
(* tags; and a record that reaches it has no member outside its definition  *)
(* other than those EncodeXIRI does not look at.                            *)
RecordsConform ==
  event # None =>
    LET ms == Members(event.record)
        tag == xiriEvent[event.record].tag
        ok == \A i \in DOMAIN ms : Conforms(ms[i], event.value[i])
    IN /\ ok => written # <<>>
       /\ received # <<>> =>
            /\ received[1].err = "none"
            /\ received[1].pdu = X2(EncodeXIRI(event))
            /\ \A i \in DOMAIN ms :
                 \/ Conforms(ms[i], event.value[i])
                 \/ Unchecked(tag, ms[i].type, event.value[i])
            /\ ok => {received[1].pdu.payload[i] : i \in DOMAIN received[1].pdu.payload}
                      = {<<tag, "record">>} \cup
                        {<<ms[i].tag, event.value[i]>> : i \in
                           {j \in DOMAIN ms : ms[j].optional => event.value[j] # "absent"}}
=============================================================================
