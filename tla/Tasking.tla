------------------------------- MODULE Tasking -------------------------------
(****************************************************************************)
(* What a provisioned task intercepts: the target identifiers of a message, *)
(* the checks that refuse it, the criteria it is mapped to and the store    *)
(* they are matched in; and the report of those criteria that answers an    *)
(* interrogation.  Who may provision, the destinations and the callbacks    *)
(* are X1Server's.                                                          *)
(*                                                                          *)
(* A target identifier is a CHOICE that a message may misuse: a function    *)
(* from the plain arms it populates to their values, and a sequence of      *)
(* extensions, of which there is at most one.                               *)
(****************************************************************************)
EXTENDS TaskStore, Naturals, Sequences

CONSTANTS
  TaskDetails,         \* the messages that are sent
  honoursCorrelation   \* whether the element acts on a correlation ID

VARIABLE ordered       \* XID -> the message its task was last set by, or NoTask

taskingVars == <<storeVars, ordered>>

TaskingInit == Init /\ ordered = [x \in XID |-> NoTask]
-----------------------------------------------------------------------------
(* The criteria.                                                            *)

\* The address is that of the node that ends a tunnel, where one is given.
Criterion(type, value, address) == [type |-> type, value |-> value, address |-> address]
NoAddress == ""

\* The plain arms in the order mapTarget looks at them, and their criteria.
PlainArms ==
  <<"supiimsi", "imsi", "supiNAI", "peiImei", "peiImeisv", "gpsiMsisdn", "e164Number",
    "gtpuTunnelId", "ipv4Address", "ipv6Address", "tcpPort", "udpPort">>

armType ==
  [supiimsi |-> "SUPI", imsi |-> "SUPI", supiNAI |-> "SUPI", peiImei |-> "PEI",
   peiImeisv |-> "PEI", gpsiMsisdn |-> "GPSI", e164Number |-> "GPSI",
   gtpuTunnelId |-> "FTEID", ipv4Address |-> "UEIPv4", ipv6Address |-> "UEIPv6",
   tcpPort |-> "TCPPort", udpPort |-> "UDPPort"]

LIT3Arms ==
  <<"FSEID", "FTEID", "PDRID", "QERID", "NetworkInstance", "GTPTunnelDirection", "PDR">>

Directions == {"Outbound", "Inbound"}

\* strings.Cut at "@", of the texts there are.
cut(v) ==
  IF v = "1@10.0.0.1" THEN [teid |-> "1", address |-> "10.0.0.1"]
                      ELSE [teid |-> v, address |-> NoAddress]

\* A gtpuTunnelId is held as the text it came as; it is cut where it is used.
plainCriterion(a, v) ==
  IF a = "gtpuTunnelId" THEN Criterion(armType[a], cut(v).teid, cut(v).address)
                        ELSE Criterion(armType[a], v, NoAddress)

\* strings.ToLower, of the hexadecimal texts there are.
lower(v) == IF v = "AB" THEN "ab" ELSE v

(* The numbers of an extension.  encoding/xml reads each into a uint of 32  *)
(* or of 64 bits, or fails; FormatUint writes it again.                     *)
Texts32 == {"0", "1", "5", "7", "007"}
Texts64 == Texts32 \cup {"4294967296"}

Readable == [FSEID |-> Texts64, FTEID |-> Texts32, PDRID |-> Texts32, QERID |-> Texts32]

numberText(a, v) == IF a = "FTEID" THEN v.teid ELSE v

numeral(v) == IF v = "007" THEN "7" ELSE v

lit3Criterion(a, v) ==
  CASE a = "FTEID" ->
         Criterion(a, numeral(v.teid), IF v.ipv4 # NoAddress THEN v.ipv4 ELSE v.ipv6)
    [] a \in {"FSEID", "PDRID", "QERID"} -> Criterion(a, numeral(v), NoAddress)
    [] a \in {"NetworkInstance", "PDR"} -> Criterion(a, lower(v), NoAddress)
    [] a = "GTPTunnelDirection" -> Criterion(a, v, NoAddress)

\* What mapUPFLIT3Identifier can use.
usable(a, v) ==
  CASE a = "FSEID" -> numeral(v) # "0"
    [] a = "GTPTunnelDirection" -> v \in Directions
    [] OTHER -> TRUE

First(order, arms) ==
  order[CHOOSE i \in DOMAIN order : /\ order[i] \in DOMAIN arms
                                    /\ \A j \in 1 .. i - 1 : order[j] \notin DOMAIN arms]
-----------------------------------------------------------------------------
(* The checks, in the order they are made.                                  *)

\* The addresses and ports that are ones.
IPv4 == {"10.0.0.1"}
IPv6 == {"2001:db8::1", "2001:0db8:...:0001"}
Ports == {"443"}

\* A number that is none fails the decoding of the whole message.
unreadable(t) ==
  \E i \in DOMAIN t.extension : \E j \in DOMAIN t.extension[i].members :
    LET id == t.extension[i].members[j] IN
    \E a \in DOMAIN id \cap DOMAIN Readable : numberText(a, id[a]) \notin Readable[a]

malformedTargetValue(t) ==
  \E a \in DOMAIN t.arms :
    \/ a = "ipv4Address" /\ t.arms[a] \notin IPv4
    \/ a = "ipv6Address" /\ t.arms[a] \notin IPv6
    \/ a \in {"tcpPort", "udpPort"} /\ t.arms[a] \notin Ports

SeveralArms(arms) == \E a, b \in DOMAIN arms : a # b

\* populatedArms and populatedLIT3Arms: more than one arm of a choice.
ambiguous(t) ==
  \/ SeveralArms(t.arms)
  \/ DOMAIN t.arms # {} /\ t.extension # <<>>
  \/ \E i \in DOMAIN t.extension : \E j \in DOMAIN t.extension[i].members :
       SeveralArms(t.extension[i].members[j])

malformedTaskIdentifiers(td) ==
  \E i \in DOMAIN td.targetIdentifiers :
    \/ malformedTargetValue(td.targetIdentifiers[i])
    \/ ambiguous(td.targetIdentifiers[i])

RecordScopes == {"IdentifierAssociation", "All"}

\* unhonourableExtensions: one that is not 3GPP's, or is not the one known.
unhonourableExtension(e) ==
  e.owner # "3GPP" \/ e.content # {"IdentifierAssociation"} \/ e.events \notin RecordScopes

unhonourableTaskFields(td) ==
  \/ td.correlationID # "" /\ ~honoursCorrelation
  \/ td.unsupported
  \/ \E i \in DOMAIN td.extensions : unhonourableExtension(td.extensions[i])

recordScope(td) == IF td.extensions = <<>> THEN "Standard" ELSE td.extensions[1].events
-----------------------------------------------------------------------------
(* The mapping.  Its result is a sequence; <<>> is a refusal.               *)

Unsupported == <<>>

mapUPFLIT3Identifier(id) ==
  IF DOMAIN id = {} THEN Unsupported
  ELSE LET a == First(LIT3Arms, id)
       IN IF usable(a, id[a]) THEN <<lit3Criterion(a, id[a])>> ELSE Unsupported

\* Mutant of mapExtensionTarget: the first member stands for the list.
mapExtensionTargetFirst(ext) ==
  IF ext.owner # "3GPP" \/ ext.members = <<>> THEN Unsupported
  ELSE mapUPFLIT3Identifier(ext.members[1])

mapExtensionTarget(ext) ==
  IF \/ ext.owner # "3GPP"
     \/ ext.members = <<>>
     \/ \E i \in DOMAIN ext.members : mapUPFLIT3Identifier(ext.members[i]) = Unsupported
  THEN Unsupported
  ELSE [i \in DOMAIN ext.members |-> mapUPFLIT3Identifier(ext.members[i])[1]]

mapTarget(t) ==
  CASE DOMAIN t.arms # {} ->
         LET a == First(PlainArms, t.arms) IN <<plainCriterion(a, t.arms[a])>>
    [] DOMAIN t.arms = {} /\ t.extension # <<>> -> mapExtensionTarget(t.extension[1])
    [] DOMAIN t.arms = {} /\ t.extension = <<>> -> Unsupported

\* deliveryProducts
Products == [X2Only |-> {"IRI"}, X3Only |-> {"CC"}, X2andX3 |-> {"IRI", "CC"}]

\* Whether taskFromDetails makes a task, and the task.
mappable(td) ==
  /\ td.targetIdentifiers # <<>>
  /\ \A i \in DOMAIN td.targetIdentifiers : mapTarget(td.targetIdentifiers[i]) # Unsupported
  /\ td.deliveryType \in DOMAIN Products
  /\ td.correlationID # "text"

Elements(s) == {s[i] : i \in DOMAIN s}

taskFromDetails(td) ==
  [targets |-> UNION {Elements(mapTarget(t)) : t \in Elements(td.targetIdentifiers)},
   products |-> Products[td.deliveryType], scope |-> recordScope(td)]

accepts(td) ==
  /\ \A i \in DOMAIN td.targetIdentifiers : ~unreadable(td.targetIdentifiers[i])
  /\ ~malformedTaskIdentifiers(td)
  /\ ~unhonourableTaskFields(td)
  /\ mappable(td)

(* What the XML of a message can hold: arms that there are, and at most one *)
(* extension of an identifier.  Task has the tasks that messages make.      *)
WellFormed(td) ==
  \A t \in Elements(td.targetIdentifiers) :
    /\ DOMAIN t.arms \subseteq Elements(PlainArms)
    /\ t.extension # <<>> => t.extension = <<t.extension[1]>>
    /\ \A e \in Elements(t.extension) : \A id \in Elements(e.members) :
         DOMAIN id \subseteq Elements(LIT3Arms)

ASSUME TaskingAssumption ==
  /\ NoTask \notin TaskDetails
  /\ \A td \in TaskDetails : WellFormed(td)
  /\ \A td \in TaskDetails : accepts(td) => taskFromDetails(td) \in Task
-----------------------------------------------------------------------------
(* The steps.                                                               *)

\* activate, for an ActivateTask or a ModifyTask: the task replaces what is
\* held under the XID.  A refusal leaves the element as it was.
Provision(x, td) ==
  /\ accepts(td)
  /\ Activate(x, taskFromDetails(td))
  /\ ordered' = [ordered EXCEPT ![x] = td]

Withdraw(x) == Deactivate(x) /\ ordered' = [ordered EXCEPT ![x] = NoTask]

WithdrawAll == DeactivateAll /\ ordered' = [x \in XID |-> NoTask]

TaskingNext ==
  \/ \E x \in XID, td \in TaskDetails : Provision(x, td)
  \/ \E x \in XID : Withdraw(x)
  \/ WithdrawAll

TaskingSpec == TaskingInit /\ [][TaskingNext]_taskingVars
-----------------------------------------------------------------------------
(* targetXML, as the message it is read back as.                            *)

\* XMLElement: the types with a plain element of their own.
XMLElement ==
  [SUPI |-> "supiimsi", PEI |-> "peiImei", GPSI |-> "gpsiMsisdn", UEIPv4 |-> "ipv4Address",
   UEIPv6 |-> "ipv6Address", TCPPort |-> "tcpPort", UDPPort |-> "udpPort"]

\* addressArm: the arm of an address, and the text it is rendered as.
addressArm(addr) ==
  CASE addr \in {"2001:db8::1", "2001:0db8:...:0001"} -> [ipv4 |-> NoAddress, ipv6 |-> "2001:0db8:...:0001"]
    [] addr = "::ffff:10.0.0.1" -> [ipv4 |-> "10.0.0.1", ipv6 |-> NoAddress]
    [] OTHER -> [ipv4 |-> addr, ipv6 |-> NoAddress]

\* Mutant of extensionTargetArm: a tunnel is reported by its TEID.
extensionTargetArmBare(c) ==
  [a \in {c.type} |->
    IF c.type = "FTEID" THEN [teid |-> c.value, ipv4 |-> NoAddress, ipv6 |-> NoAddress]
                        ELSE c.value]

extensionTargetArm(c) ==
  [a \in {c.type} |->
    IF c.type = "FTEID" THEN [teid |-> c.value, ipv4 |-> addressArm(c.address).ipv4,
                              ipv6 |-> addressArm(c.address).ipv6]
                        ELSE c.value]

targetXML(c) ==
  IF c.type \in DOMAIN XMLElement
  THEN [arms |-> [a \in {XMLElement[c.type]} |-> c.value], extension |-> <<>>]
  ELSE [arms |-> <<>>,
        extension |-> <<[owner |-> "3GPP", members |-> <<extensionTargetArm(c)>>]>>]
-----------------------------------------------------------------------------
(* Properties.                                                              *)

(* What a message orders, read without the mapping: every arm of every      *)
(* identifier and of every member of an extension, each as the criteria     *)
(* that fulfil it.  A tunnel given with both addresses is the same tunnel   *)
(* at either.                                                               *)
Addresses(v) ==
  IF {v.ipv4, v.ipv6} = {NoAddress} THEN {NoAddress} ELSE {v.ipv4, v.ipv6} \ {NoAddress}

Fulfilling(a, v) ==
  CASE a = "FTEID" -> {Criterion(a, numeral(v.teid), address) : address \in Addresses(v)}
    [] a \in {"FSEID", "PDRID", "QERID"} -> {Criterion(a, numeral(v), NoAddress)}
    [] a \in {"NetworkInstance", "PDR"} -> {Criterion(a, lower(v), NoAddress)}
    [] a = "GTPTunnelDirection" -> {Criterion(a, v, NoAddress)}

OrdersOf(t) ==
  {{plainCriterion(a, t.arms[a])} : a \in DOMAIN t.arms}
  \cup UNION {UNION {{Fulfilling(a, id[a]) : a \in DOMAIN id} : id \in Elements(e.members)} :
              e \in Elements(t.extension)}

Orders(td) == UNION {OrdersOf(t) : t \in Elements(td.targetIdentifiers)}

\* Each order is fulfilled, and nothing is there that none asked for.
Fulfils(criteria, orders) ==
  criteria \subseteq UNION orders /\ \A o \in orders : o \cap criteria # {}

(* What is intercepted is what was ordered: a task matches the criteria     *)
(* that the message it was last set by names and no others, whatever        *)
(* messages were refused since, and produces the records that message asked *)
(* for; a criterion that cannot be used is never a part of one, and no arm  *)
(* of a message is dropped in favour of another.                            *)
InterceptsAsOrdered ==
  \A x \in XID :
    LET intercepted == {id \in Target : x \in byTarget[id]} IN
    IF ordered[x] = NoTask THEN intercepted = {}
    ELSE /\ Fulfils(intercepted, Orders(ordered[x]))
         /\ \A c \in intercepted : c.type \in Elements(LIT3Arms) => usable(c.type, c.value)
         /\ byXID[x].scope = recordScope(ordered[x])

\* Addresses in the form the schema defines.
ConformantAddress == {NoAddress, "10.0.0.1", "2001:0db8:...:0001"}

\* A tunnel's number as FormatUint writes one of 32 bits.
Canonical(c) == c.type = "FTEID" => c.value \in Texts32 /\ numeral(c.value) = c.value

\* Rendered and read back, the criterion is accepted as itself.
ReadsBack(c) ==
  /\ ~unreadable(targetXML(c)) /\ ~malformedTargetValue(targetXML(c)) /\ ~ambiguous(targetXML(c))
  /\ mapTarget(targetXML(c)) = <<c>>

(* What an interrogation reports is what is held: a criterion rendered by   *)
(* targetXML and read back is accepted and mapped to the same criterion,    *)
(* if its address is in the form the schema defines and its number, where   *)
(* it is a tunnel's, in the form extensionTargetArm relies on.              *)
ReportsWhatIsHeld ==
  \A x \in Held : \A c \in byXID[x].targets :
    c.address \in ConformantAddress /\ Canonical(c) => ReadsBack(c)

(* What targetXML says of itself: "The output round-trips: what this emits, *)
(* mapTarget parses back to the same identifier."  Of criteria that conform *)
(* to their schemas, a GtpTunnelId being an integer up to 4294967296.       *)
RoundTrips ==
  \A x \in Held : \A c \in byXID[x].targets :
    c.address \in ConformantAddress /\ (c.type = "FTEID" => c.value \in Texts64) => ReadsBack(c)
=============================================================================
