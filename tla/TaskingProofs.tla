---------------------------- MODULE TaskingProofs ----------------------------
(****************************************************************************)
(* The store's index is exact for every set of XIDs, targets and tasks; and *)
(* whatever messages there are, what a task intercepts is what the message  *)
(* it was last set by named, and what is reported of it is what it holds.   *)
(****************************************************************************)
EXTENDS Tasking, WellFoundedInduction, TLAPS

-----------------------------------------------------------------------------
(* The store.                                                               *)
-----------------------------------------------------------------------------
(* unindex drops one XID from the targets its stored task names; where the  *)
(* index is exact that is every entry it had, and no other XID's.           *)
LEMMA UnindexRemovesAll ==
  ASSUME StoreInv, NEW x \in XID
  PROVE  /\ unindex(x) \in [Target -> SUBSET XID]
         /\ \A id \in Target : unindex(x)[id] = byTarget[id] \ {x}
  <1>1. ASSUME NEW id \in Target
        PROVE  unindex(x)[id] = byTarget[id] \ {x}
    <2>1. CASE id \in IndexedTargets(x)
      BY <2>1 DEF unindex
    <2>2. CASE id \notin IndexedTargets(x)
      <3>1. x \notin byTarget[id]
        BY <2>2 DEF StoreInv, IndexExact, Held, IndexedTargets
      <3>. QED  BY <2>2, <3>1 DEF unindex
    <2>. QED  BY <2>1, <2>2
  <1>2. unindex(x) \in [Target -> SUBSET XID]
    BY DEF unindex, StoreInv, TypeOK
  <1>. QED  BY <1>1, <1>2

(* Every store operation keeps the types and the exactness of the index.    *)
LEMMA StoreInvStep == StoreInv /\ [Next]_storeVars => StoreInv'
  <1>. SUFFICES ASSUME StoreInv, [Next]_storeVars
                PROVE  StoreInv'
    OBVIOUS
  <1>1. ASSUME NEW x \in XID \cup {EmptyXID}, NEW t \in Task, Activate(x, t)
        PROVE  StoreInv'
    <2>1. x \in XID /\ t.targets \in SUBSET Target /\ t # NoTask
      BY <1>1, StoreAssumption DEF Activate
    <2>2. TypeOK'
      BY <1>1, <2>1, UnindexRemovesAll DEF Activate, StoreInv, TypeOK
    <2>3. ASSUME NEW id \in Target, NEW y \in XID
          PROVE  y \in byTarget'[id] <=> y \in Held' /\ id \in byXID'[y].targets
      <3>1. CASE y = x
        BY <1>1, <2>1, <3>1, UnindexRemovesAll
           DEF Activate, StoreInv, TypeOK, Held
      <3>2. CASE y # x
        BY <1>1, <2>1, <3>2, UnindexRemovesAll
           DEF Activate, StoreInv, TypeOK, IndexExact, Held
      <3>. QED  BY <3>1, <3>2
    <2>4. IndexExact'
      BY <2>2, <2>3 DEF IndexExact, TypeOK, Held
    <2>. QED  BY <2>2, <2>4 DEF StoreInv
  <1>2. ASSUME NEW x \in XID, Deactivate(x)
        PROVE  StoreInv'
    <2>1. TypeOK'
      BY <1>2, UnindexRemovesAll DEF Deactivate, StoreInv, TypeOK
    <2>2. IndexExact'
      BY <1>2, UnindexRemovesAll
         DEF Deactivate, StoreInv, TypeOK, IndexExact, Held
    <2>. QED  BY <2>1, <2>2 DEF StoreInv
  <1>3. CASE DeactivateAll
    BY <1>3 DEF DeactivateAll, StoreInv, TypeOK, IndexExact, Held
  <1>4. CASE UNCHANGED storeVars
    BY <1>4 DEF storeVars, StoreInv, TypeOK, IndexExact, Held
  <1>. QED  BY <1>1, <1>2, <1>3, <1>4 DEF Next

(* The store never holds a value outside its types and its index always     *)
(* lists exactly the held tasks under each of their targets: what Activate, *)
(* Deactivate and DeactivateAll establish under the store's lock.           *)
THEOREM StoreInvariant == Spec => []StoreInv
  <1>1. Init => StoreInv
    BY DEF Init, StoreInv, TypeOK, IndexExact, Held
  <1>. QED  BY <1>1, StoreInvStep, PTL DEF Spec

(* Match always answers with exactly the held tasks that name the           *)
(* identifier, whatever sequence of activations, modifications and removals *)
(* the store has been through.                                              *)
THEOREM MatchIsExact == Spec => []MatchExact
  <1>1. StoreInv => MatchExact
    BY DEF StoreInv, IndexExact, MatchExact, Match, Snapshot, Held
  <1>. QED  BY <1>1, StoreInvariant, PTL

-----------------------------------------------------------------------------
(* The mapping.                                                             *)
-----------------------------------------------------------------------------
(* The arm of a choice that has one populated is the one First finds. *)
LEMMA FirstOfOne ==
  ASSUME NEW n \in Nat, NEW order, DOMAIN order = 1..n, NEW arms, NEW a,
         DOMAIN arms = {a}, a \in Elements(order)
  PROVE  First(order, arms) = a
<1> DEFINE T == {i \in 1..n : order[i] = a}
           Is(i) == order[i] \in DOMAIN arms /\ \A j \in 1..i - 1 : order[j] \notin DOMAIN arms
<1>1. T \subseteq Nat /\ T # {}
  BY DEF Elements
<1>2. PICK i \in T : \A j \in T : ~(<<j, i>> \in OpToRel(<, Nat))
  <2> HIDE DEF T
  <2>1. QED
    BY <1>1, NatLessThanWellFounded, WFMin
<1>3. \A j \in T : ~(j < i)
  BY <1>1, <1>2 DEF OpToRel
<1>4. i \in DOMAIN order /\ Is(i)
  <2>1. \A j \in 1..i - 1 : j \in 1..n /\ j < i
    OBVIOUS
  <2>2. QED
    BY <1>3, <2>1
<1>5. First(order, arms) = order[CHOOSE j \in DOMAIN order : Is(j)]
  BY DEF First
<1>6. (CHOOSE j \in DOMAIN order : Is(j)) \in DOMAIN order /\ Is(CHOOSE j \in DOMAIN order : Is(j))
  <2> HIDE DEF Is
  <2>1. QED
    BY <1>4
<1>7. QED
  BY <1>5, <1>6

(* The two lists of arms, as sequences. *)
LEMMA ArmLists ==
  /\ DOMAIN PlainArms = 1..12 /\ DOMAIN LIT3Arms = 1..7
  /\ Elements(PlainArms) = DOMAIN armType
  /\ Elements(LIT3Arms) = {"FSEID", "FTEID", "PDRID", "QERID", "NetworkInstance",
                           "GTPTunnelDirection", "PDR"}
<1>1. DOMAIN PlainArms = 1..12 /\ DOMAIN LIT3Arms = 1..7
  BY DEF PlainArms, LIT3Arms
<1>2. Elements(PlainArms) = DOMAIN armType
  BY DEF PlainArms, armType, Elements
<1>3. Elements(LIT3Arms) = {"FSEID", "FTEID", "PDRID", "QERID", "NetworkInstance",
                            "GTPTunnelDirection", "PDR"}
  BY DEF LIT3Arms, Elements
<1>4. QED
  BY <1>1, <1>2, <1>3

(* The criteria that well-formed identifiers name. *)
ProperPlain(a, v) ==
  /\ a = "ipv4Address" => v \in IPv4
  /\ a = "ipv6Address" => v \in IPv6
  /\ a \in {"tcpPort", "udpPort"} => v \in Ports

ProperLIT3(a, v, address) ==
  /\ usable(a, v)
  /\ a \in {"FSEID", "PDRID", "QERID"} => v \in Readable[a] /\ numeral(v) = v
  /\ a \in {"NetworkInstance", "PDR"} => lower(v) = v
  /\ a # "FTEID" => address = NoAddress

Proper(c) ==
  \/ \E a \in DOMAIN armType \ {"gtpuTunnelId"} :
       c = Criterion(armType[a], c.value, NoAddress) /\ ProperPlain(a, c.value)
  \/ \E a \in Elements(LIT3Arms) : /\ c = Criterion(a, c.value, c.address)
                                   /\ ProperLIT3(a, c.value, c.address)

(* The number of a text that can be read is written as one that can. *)
LEMMA Numerals ==
  ASSUME NEW a \in DOMAIN Readable, NEW v \in Readable[a]
  PROVE  numeral(v) \in Readable[a] /\ numeral(numeral(v)) = numeral(v)
BY DEF Readable, Texts64, Texts32, numeral

(* One criterion fulfils one order. *)
LEMMA OneFulfils ==
  ASSUME NEW c, NEW o, c \in o
  PROVE  Fulfils({c}, {o})
BY DEF Fulfils

(* An identifier with a plain arm: it has no other, and is mapped to it. *)
LEMMA PlainIsNamed ==
  ASSUME NEW t, ~malformedTargetValue(t), ~ambiguous(t), DOMAIN t.arms # {},
         DOMAIN t.arms \subseteq Elements(PlainArms)
  PROVE  /\ Fulfils(Elements(mapTarget(t)), OrdersOf(t))
         /\ \A c \in Elements(mapTarget(t)) : Proper(c)
<1>1. PICK a \in DOMAIN t.arms : DOMAIN t.arms = {a}
  BY DEF ambiguous, SeveralArms
<1>2. t.extension = <<>>
  BY DEF ambiguous
<1>3. First(PlainArms, t.arms) = a
  BY <1>1, ArmLists, FirstOfOne
<1> DEFINE c == plainCriterion(a, t.arms[a])
<1>4. mapTarget(t) = <<c>>
  BY <1>3 DEF mapTarget
<1>5. Elements(<<c>>) = {c}
  BY DEF Elements
<1>6. OrdersOf(t) = {{c}}
  <2>1. Elements(<<>>) = {}
    BY DEF Elements
  <2>2. QED
    BY <1>1, <1>2, <2>1 DEF OrdersOf
<1>7. a \in DOMAIN armType
  BY <1>1, ArmLists
<1>8. ProperPlain(a, t.arms[a])
  BY <1>1 DEF malformedTargetValue, ProperPlain
<1>9. Proper(c)
  <2>1. CASE a = "gtpuTunnelId"
    <3>1. c = Criterion("FTEID", c.value, c.address) /\ "FTEID" \in Elements(LIT3Arms)
      BY <2>1, ArmLists DEF plainCriterion, Criterion, armType
    <3> HIDE DEF c
    <3>2. ProperLIT3("FTEID", c.value, c.address)
      BY DEF ProperLIT3, usable
    <3>3. QED
      BY <3>1, <3>2 DEF Proper
  <2>2. CASE a # "gtpuTunnelId"
    <3>1. c.value = t.arms[a] /\ c = Criterion(armType[a], c.value, NoAddress)
      BY <2>2 DEF plainCriterion, Criterion
    <3> HIDE DEF c
    <3>2. QED
      BY <1>7, <1>8, <2>2, <3>1 DEF Proper
  <2>3. QED
    BY <2>1, <2>2
<1>10. Fulfils({c}, {{c}})
  BY OneFulfils
<1>11. QED
  BY <1>4, <1>5, <1>6, <1>9, <1>10

(* A member of an extension that can be read and used: likewise. *)
LEMMA MemberIsNamed ==
  ASSUME NEW id, ~SeveralArms(id), DOMAIN id \subseteq Elements(LIT3Arms),
         \A a \in DOMAIN id \cap DOMAIN Readable : numberText(a, id[a]) \in Readable[a],
         mapUPFLIT3Identifier(id) # Unsupported
  PROVE  LET c == mapUPFLIT3Identifier(id)[1]
         IN  Fulfils({c}, {Fulfilling(a, id[a]) : a \in DOMAIN id}) /\ Proper(c)
<1>1. PICK a \in DOMAIN id : DOMAIN id = {a}
  BY DEF mapUPFLIT3Identifier, SeveralArms
<1>2. First(LIT3Arms, id) = a /\ a \in Elements(LIT3Arms)
  BY <1>1, ArmLists, FirstOfOne
<1> DEFINE v == id[a]
           c == lit3Criterion(a, v)
<1>3. usable(a, v) /\ mapUPFLIT3Identifier(id) = <<c>>
  BY <1>1, <1>2 DEF mapUPFLIT3Identifier
<1>4. <<c>>[1] = c /\ {Fulfilling(b, id[b]) : b \in DOMAIN id} = {Fulfilling(a, v)}
  BY <1>1
<1>5. a \in DOMAIN Readable => numberText(a, v) \in Readable[a]
  BY <1>1
<1>6. c \in Fulfilling(a, v) /\ Proper(c)
  <2> HIDE DEF v
  <2>1. CASE a = "FTEID"
    <3>1. c = Criterion(a, numeral(v.teid), IF v.ipv4 # NoAddress THEN v.ipv4 ELSE v.ipv6)
      BY <2>1 DEF lit3Criterion
    <3>2. c \in Fulfilling(a, v)
      <4>1. (IF v.ipv4 # NoAddress THEN v.ipv4 ELSE v.ipv6) \in Addresses(v)
        BY DEF Addresses
      <4>2. QED
        BY <2>1, <3>1, <4>1 DEF Fulfilling
    <3>3. c = Criterion(a, c.value, c.address) /\ usable(a, c.value)
      BY <2>1, <3>1 DEF Criterion, usable
    <3>4. QED
      BY <1>2, <2>1, <3>2, <3>3 DEF Proper, ProperLIT3
  <2>2. CASE a \in {"FSEID", "PDRID", "QERID"}
    <3>1. c = Criterion(a, numeral(v), NoAddress) /\ c.value = numeral(v) /\ c.address = NoAddress
      BY <2>2 DEF lit3Criterion, Criterion
    <3>2. c \in Fulfilling(a, v)
      BY <2>2, <3>1 DEF Fulfilling
    <3>3. a \in DOMAIN Readable /\ v \in Readable[a]
      BY <1>5, <2>2 DEF Readable, numberText
    <3>4. numeral(v) \in Readable[a] /\ numeral(numeral(v)) = numeral(v)
      BY <3>3, Numerals
    <3>5. usable(a, numeral(v))
      BY <1>3, <2>2, <3>4 DEF usable
    <3> HIDE DEF c
    <3>6. QED
      BY <1>2, <2>2, <3>1, <3>2, <3>4, <3>5 DEF Proper, ProperLIT3
  <2>3. CASE a \in {"NetworkInstance", "PDR"}
    <3>1. c = Criterion(a, lower(v), NoAddress) /\ c.value = lower(v) /\ c.address = NoAddress
      BY <2>3 DEF lit3Criterion, Criterion
    <3>2. c \in Fulfilling(a, v)
      BY <2>3, <3>1 DEF Fulfilling
    <3>3. lower(lower(v)) = lower(v) /\ usable(a, lower(v))
      BY <2>3 DEF lower, usable
    <3> HIDE DEF c
    <3>4. QED
      BY <1>2, <2>3, <3>1, <3>2, <3>3 DEF Proper, ProperLIT3
  <2>4. CASE a = "GTPTunnelDirection"
    <3>1. c = Criterion(a, v, NoAddress) /\ c.value = v /\ c.address = NoAddress
      BY <2>4 DEF lit3Criterion, Criterion
    <3>2. c \in Fulfilling(a, v)
      BY <2>4, <3>1 DEF Fulfilling
    <3> HIDE DEF c
    <3>3. QED
      BY <1>2, <1>3, <2>4, <3>1, <3>2 DEF Proper, ProperLIT3
  <2>5. QED
    BY <1>2, <2>1, <2>2, <2>3, <2>4, ArmLists
<1>7. Fulfils({c}, {Fulfilling(a, v)})
  BY <1>6, OneFulfils
<1>8. QED
  BY <1>3, <1>4, <1>6, <1>7

(* An identifier whose extension is used: it has no plain arm, and every   *)
(* member is mapped to the one arm it has.                                 *)
LEMMA ExtensionIsNamed ==
  ASSUME NEW t, ~unreadable(t), ~ambiguous(t), DOMAIN t.arms = {}, mapTarget(t) # Unsupported,
         t.extension # <<>> => t.extension = <<t.extension[1]>>,
         \A e \in Elements(t.extension) : \A id \in Elements(e.members) :
           DOMAIN id \subseteq Elements(LIT3Arms)
  PROVE  /\ Fulfils(Elements(mapTarget(t)), OrdersOf(t))
         /\ \A c \in Elements(mapTarget(t)) : Proper(c)
<1>1. t.extension # <<>> /\ mapTarget(t) = mapExtensionTarget(t.extension[1])
  BY DEF mapTarget
<1> DEFINE e == t.extension[1]
           ms == e.members
           c(id) == mapUPFLIT3Identifier(id)[1]
           F(id) == {Fulfilling(a, id[a]) : a \in DOMAIN id}
<1>2. t.extension = <<e>> /\ 1 \in DOMAIN t.extension /\ Elements(t.extension) = {e}
  <2>1. t.extension = <<e>>
    BY <1>1
  <2> HIDE DEF e
  <2>2. 1 \in DOMAIN <<e>> /\ Elements(<<e>>) = {e}
    BY DEF Elements
  <2>3. QED
    BY <2>1, <2>2
<1>3. \A i \in DOMAIN ms : mapUPFLIT3Identifier(ms[i]) # Unsupported
  BY <1>1 DEF mapExtensionTarget
<1>4. mapTarget(t) = [i \in DOMAIN ms |-> c(ms[i])]
  BY <1>1 DEF mapExtensionTarget
<1>5. ASSUME NEW i \in DOMAIN ms
      PROVE  Fulfils({c(ms[i])}, F(ms[i])) /\ Proper(c(ms[i]))
  <2>1. ~SeveralArms(ms[i])
    BY <1>2 DEF ambiguous
  <2>2. DOMAIN ms[i] \subseteq Elements(LIT3Arms)
    BY <1>2 DEF Elements
  <2>3. \A a \in DOMAIN ms[i] \cap DOMAIN Readable : numberText(a, ms[i][a]) \in Readable[a]
    BY <1>2 DEF unreadable
  <2>4. QED
    BY <1>3, <2>1, <2>2, <2>3, MemberIsNamed
<1>6. OrdersOf(t) = UNION {F(id) : id \in Elements(ms)}
  BY <1>2 DEF OrdersOf
<1> HIDE DEF c, ms, F
<1>7. OrdersOf(t) = UNION {F(ms[i]) : i \in DOMAIN ms}
  BY <1>6 DEF Elements
<1>8. Elements(mapTarget(t)) = {c(ms[i]) : i \in DOMAIN ms}
  BY <1>4 DEF Elements
<1>9. Fulfils(UNION {{c(ms[i])} : i \in DOMAIN ms}, UNION {F(ms[i]) : i \in DOMAIN ms})
  <2> DEFINE C == [i \in DOMAIN ms |-> {c(ms[i])}]
             O == [i \in DOMAIN ms |-> F(ms[i])]
  <2>1. \A i \in DOMAIN ms : C[i] = {c(ms[i])} /\ O[i] = F(ms[i])
    OBVIOUS
  <2> HIDE DEF C, O
  <2>2. Fulfils(UNION {C[i] : i \in DOMAIN ms}, UNION {O[i] : i \in DOMAIN ms})
    <3>1. \A i \in DOMAIN ms : Fulfils(C[i], O[i])
      BY <1>5, <2>1
    <3>2. QED
      BY <3>1 DEF Fulfils
  <2>3. /\ UNION {C[i] : i \in DOMAIN ms} = UNION {{c(ms[i])} : i \in DOMAIN ms}
        /\ UNION {O[i] : i \in DOMAIN ms} = UNION {F(ms[i]) : i \in DOMAIN ms}
    BY <2>1
  <2>4. QED
    BY <2>2, <2>3
<1>10. UNION {{c(ms[i])} : i \in DOMAIN ms} = {c(ms[i]) : i \in DOMAIN ms}
  OBVIOUS
<1>11. QED
  BY <1>5, <1>7, <1>8, <1>9, <1>10

(* taskFromDetails of a message that is accepted: the criteria fulfil what  *)
(* the message orders, over all of its identifiers.                         *)
LEMMA AcceptedIsNamed ==
  ASSUME NEW td \in TaskDetails, accepts(td)
  PROVE  /\ Fulfils(taskFromDetails(td).targets, Orders(td))
         /\ \A c \in taskFromDetails(td).targets : Proper(c)
<1> DEFINE ids == Elements(td.targetIdentifiers)
<1>1. ASSUME NEW t \in ids
      PROVE  /\ Fulfils(Elements(mapTarget(t)), OrdersOf(t))
             /\ \A c \in Elements(mapTarget(t)) : Proper(c)
  <2>1. PICK i \in DOMAIN td.targetIdentifiers : t = td.targetIdentifiers[i]
    BY DEF Elements
  <2>2. ~unreadable(t) /\ ~malformedTargetValue(t) /\ ~ambiguous(t) /\ mapTarget(t) # Unsupported
    BY <2>1 DEF accepts, malformedTaskIdentifiers, mappable
  <2>3. /\ DOMAIN t.arms \subseteq Elements(PlainArms)
        /\ t.extension # <<>> => t.extension = <<t.extension[1]>>
        /\ \A e \in Elements(t.extension) : \A id \in Elements(e.members) :
             DOMAIN id \subseteq Elements(LIT3Arms)
    BY TaskingAssumption DEF WellFormed
  <2>4. QED
    BY <2>2, <2>3, PlainIsNamed, ExtensionIsNamed
<1> HIDE DEF ids
<1>2. taskFromDetails(td).targets = UNION {Elements(mapTarget(t)) : t \in ids}
  BY DEF taskFromDetails, ids
<1>3. Orders(td) = UNION {OrdersOf(t) : t \in ids}
  BY DEF Orders, ids
<1>4. Fulfils(UNION {Elements(mapTarget(t)) : t \in ids}, UNION {OrdersOf(t) : t \in ids})
  <2> DEFINE C == [t \in ids |-> Elements(mapTarget(t))]
             O == [t \in ids |-> OrdersOf(t)]
  <2>1. \A t \in ids : C[t] = Elements(mapTarget(t)) /\ O[t] = OrdersOf(t)
    OBVIOUS
  <2> HIDE DEF C, O
  <2>2. Fulfils(UNION {C[t] : t \in ids}, UNION {O[t] : t \in ids})
    <3>1. \A t \in ids : Fulfils(C[t], O[t])
      BY <1>1, <2>1
    <3>2. QED
      BY <3>1 DEF Fulfils
  <2>3. /\ UNION {C[t] : t \in ids} = UNION {Elements(mapTarget(t)) : t \in ids}
        /\ UNION {O[t] : t \in ids} = UNION {OrdersOf(t) : t \in ids}
    BY <2>1
  <2>4. QED
    BY <2>2, <2>3
<1>5. QED
  BY <1>1, <1>2, <1>3, <1>4

(* A choice with one arm is not ambiguous. *)
LEMMA OneArm ==
  ASSUME NEW a, NEW v
  PROVE  LET arms == [b \in {a} |-> v]
         IN  ~SeveralArms(arms) /\ DOMAIN arms = {a} /\ arms[a] = v
BY DEF SeveralArms

(* targetXML of a criterion with a plain element, read back. *)
LEMMA PlainReadBack ==
  ASSUME NEW c, NEW a \in DOMAIN armType \ {"gtpuTunnelId"},
         c = Criterion(armType[a], c.value, NoAddress), ProperPlain(a, c.value)
  PROVE  ReadsBack(c)
<1> DEFINE x == XMLElement[armType[a]]
           arms == [b \in {x} |-> c.value]
<1>1. /\ armType[a] \in DOMAIN XMLElement /\ x \in DOMAIN armType /\ armType[x] = armType[a]
      /\ x \in {"ipv4Address", "ipv6Address", "tcpPort", "udpPort"} => x = a
      /\ x # "gtpuTunnelId"
  BY DEF armType, XMLElement
<1>2. c.type = armType[a]
  BY DEF Criterion
<1>3. targetXML(c) = [arms |-> arms, extension |-> <<>>]
  BY <1>1, <1>2 DEF targetXML
<1> HIDE DEF x
<1>4. ~SeveralArms(arms) /\ DOMAIN arms = {x} /\ arms[x] = c.value
  BY OneArm
<1> HIDE DEF arms
<1>5. targetXML(c).arms = arms /\ targetXML(c).extension = <<>>
  BY <1>3
<1>6. ~malformedTargetValue(targetXML(c))
  BY <1>1, <1>4, <1>5 DEF malformedTargetValue, ProperPlain
<1>7. ~ambiguous(targetXML(c))
  <2>1. DOMAIN targetXML(c).extension = {}
    BY <1>5
  <2>2. QED
    BY <1>4, <1>5, <2>1 DEF ambiguous
<1>8. First(PlainArms, arms) = x
  BY <1>1, <1>4, ArmLists, FirstOfOne
<1>9. plainCriterion(x, arms[x]) = c
  BY <1>1, <1>4 DEF plainCriterion
<1>10. mapTarget(targetXML(c)) = <<c>>
  <2>1. DOMAIN targetXML(c).arms # {}
    BY <1>4, <1>5
  <2>2. QED
    BY <1>5, <1>8, <1>9, <2>1 DEF mapTarget
<1>11. ~unreadable(targetXML(c))
  BY <1>5 DEF unreadable
<1>12. QED
  BY <1>6, <1>7, <1>10, <1>11 DEF ReadsBack

(* targetXML of a criterion that goes into an extension, read back: a      *)
(* tunnel by its address too, in the arm that address belongs to.          *)
LEMMA ExtensionReadBack ==
  ASSUME NEW c, NEW a \in Elements(LIT3Arms), c = Criterion(a, c.value, c.address),
         ProperLIT3(a, c.value, c.address), c.address \in ConformantAddress, Canonical(c)
  PROVE  ReadsBack(c)
<1> DEFINE v == IF a = "FTEID" THEN [teid |-> c.value, ipv4 |-> addressArm(c.address).ipv4,
                                     ipv6 |-> addressArm(c.address).ipv6]
                ELSE c.value
           id == [b \in {a} |-> v]
           e == [owner |-> "3GPP", members |-> <<id>>]
<1>1. c.type = a
  BY DEF Criterion
<1>2. a \notin DOMAIN XMLElement
  BY ArmLists DEF XMLElement
<1>3. targetXML(c) = [arms |-> <<>>, extension |-> <<e>>]
  BY <1>1, <1>2 DEF targetXML, extensionTargetArm
<1>4. /\ usable(a, v) /\ lit3Criterion(a, v) = c
      /\ a \in DOMAIN Readable => numberText(a, v) \in Readable[a]
  <2>1. CASE a = "FTEID"
    <3>1. v = [teid |-> c.value, ipv4 |-> addressArm(c.address).ipv4,
               ipv6 |-> addressArm(c.address).ipv6]
      BY <2>1
    <3>2. LET b == addressArm(c.address)
          IN  (IF b.ipv4 # NoAddress THEN b.ipv4 ELSE b.ipv6) = c.address
      BY DEF addressArm, ConformantAddress, NoAddress
    <3>3. v.teid = c.value /\ v.ipv4 = addressArm(c.address).ipv4
          /\ v.ipv6 = addressArm(c.address).ipv6
      BY <3>1
    <3> HIDE DEF v
    <3>4. c.value \in Texts32 /\ numeral(c.value) = c.value
      BY <1>1, <2>1 DEF Canonical
    <3>5. lit3Criterion(a, v) = Criterion(a, c.value, c.address)
      BY <2>1, <3>2, <3>3, <3>4 DEF lit3Criterion
    <3>6. numberText(a, v) \in Readable[a]
      BY <2>1, <3>3, <3>4 DEF numberText, Readable
    <3>7. QED
      BY <2>1, <3>5, <3>6 DEF usable
  <2>2. CASE a # "FTEID"
    <3>1. v = c.value /\ c.address = NoAddress /\ usable(a, v)
      BY <2>2 DEF ProperLIT3
    <3>2. lit3Criterion(a, v) = Criterion(a, c.value, c.address)
      BY <2>2, <3>1, ArmLists DEF lit3Criterion, ProperLIT3
    <3>3. a \in DOMAIN Readable => numberText(a, v) \in Readable[a]
      BY <2>2, <3>1 DEF numberText, Readable, ProperLIT3
    <3>4. QED
      BY <3>1, <3>2, <3>3
  <2>3. QED
    BY <2>1, <2>2
<1> HIDE DEF v
<1>5. ~SeveralArms(id) /\ DOMAIN id = {a} /\ id[a] = v
  BY OneArm
<1> HIDE DEF id
<1>6. First(LIT3Arms, id) = a
  BY <1>5, ArmLists, FirstOfOne
<1>7. mapUPFLIT3Identifier(id) = <<c>>
  BY <1>4, <1>5, <1>6 DEF mapUPFLIT3Identifier
<1>8. /\ targetXML(c).arms = <<>> /\ targetXML(c).extension = <<e>>
      /\ e.owner = "3GPP" /\ e.members = <<id>>
  BY <1>3
<1> HIDE DEF e
<1>9. ~malformedTargetValue(targetXML(c))
  BY <1>8 DEF malformedTargetValue
<1>10. ~ambiguous(targetXML(c))
  <2>1. \A i \in DOMAIN <<e>> : \A j \in DOMAIN <<e>>[i].members : <<e>>[i].members[j] = id
    BY <1>8
  <2>2. DOMAIN targetXML(c).arms = {} /\ ~SeveralArms(targetXML(c).arms)
    BY <1>8 DEF SeveralArms
  <2>3. QED
    BY <1>5, <1>8, <2>1, <2>2 DEF ambiguous
<1>11. mapExtensionTarget(e) = <<c>>
  <2>1. <<id>> # <<>> /\ DOMAIN <<id>> = 1..1 /\ \A i \in DOMAIN <<id>> : <<id>>[i] = id
    OBVIOUS
  <2>2. <<c>> # Unsupported /\ <<c>>[1] = c
    BY DEF Unsupported
  <2>3. mapExtensionTarget(e) = [i \in DOMAIN <<id>> |-> mapUPFLIT3Identifier(<<id>>[i])[1]]
    BY <1>7, <1>8, <2>1, <2>2 DEF mapExtensionTarget
  <2>4. mapExtensionTarget(e) = [i \in 1..1 |-> c]
    BY <1>7, <2>1, <2>2, <2>3
  <2>5. QED
    BY <2>4
<1>12. mapTarget(targetXML(c)) = <<c>>
  <2>1. DOMAIN targetXML(c).arms = {} /\ targetXML(c).extension # <<>>
        /\ targetXML(c).extension[1] = e
    BY <1>8
  <2>2. QED
    BY <1>11, <2>1 DEF mapTarget
<1>13. ~unreadable(targetXML(c))
  <2>1. \A i \in DOMAIN <<e>> : \A j \in DOMAIN <<e>>[i].members : <<e>>[i].members[j] = id
    BY <1>8
  <2>2. QED
    BY <1>4, <1>5, <1>8, <2>1 DEF unreadable
<1>14. QED
  BY <1>9, <1>10, <1>12, <1>13 DEF ReadsBack

(* What is proper is reported as what it is. *)
LEMMA ProperReadsBack ==
  ASSUME NEW c, Proper(c), c.address \in ConformantAddress, Canonical(c)
  PROVE  ReadsBack(c)
<1>1. CASE \E a \in Elements(LIT3Arms) : /\ c = Criterion(a, c.value, c.address)
                                         /\ ProperLIT3(a, c.value, c.address)
  BY <1>1, ExtensionReadBack
<1>2. CASE \E a \in DOMAIN armType \ {"gtpuTunnelId"} :
             c = Criterion(armType[a], c.value, NoAddress) /\ ProperPlain(a, c.value)
  BY <1>2, PlainReadBack
<1>3. QED
  BY <1>1, <1>2 DEF Proper

-----------------------------------------------------------------------------
(* What is intercepted and what is reported.                                *)
-----------------------------------------------------------------------------
(* The inductive invariant: the store's, and every task that is held is the *)
(* one made of the message it was last set by, which was accepted.  The     *)
(* properties alone are not inductive: they say nothing of how byXID came   *)
(* by its targets.                                                          *)
TaskingInv ==
  /\ StoreInv
  /\ ordered \in [XID -> TaskDetails \cup {NoTask}]
  /\ \A x \in XID :
       IF ordered[x] = NoTask THEN byXID[x] = NoTask
       ELSE accepts(ordered[x]) /\ byXID[x] = taskFromDetails(ordered[x])

LEMMA TaskingStep ==
  ASSUME TaskingInv, [TaskingNext]_taskingVars
  PROVE  TaskingInv'
<1>1. ASSUME NEW x \in XID, NEW td \in TaskDetails, Provision(x, td)
      PROVE  TaskingInv'
  <2>1. /\ accepts(td) /\ Activate(x, taskFromDetails(td))
        /\ ordered' = [ordered EXCEPT ![x] = td] /\ taskFromDetails(td) \in Task
    BY <1>1, TaskingAssumption DEF Provision
  <2>2. StoreInv'
    BY <2>1, StoreInvStep DEF TaskingInv, Next
  <2>3. byXID' = [byXID EXCEPT ![x] = taskFromDetails(td)]
    BY <2>1 DEF Activate
  <2>4. QED
    BY <2>1, <2>2, <2>3, TaskingAssumption DEF TaskingInv, StoreInv, TypeOK
<1>2. ASSUME NEW x \in XID, Withdraw(x)
      PROVE  TaskingInv'
  <2>1. StoreInv'
    BY <1>2, StoreInvStep DEF TaskingInv, Next, Withdraw
  <2>2. QED
    BY <1>2, <2>1 DEF TaskingInv, StoreInv, TypeOK, Withdraw, Deactivate
<1>3. CASE WithdrawAll
  <2>1. StoreInv'
    BY <1>3, StoreInvStep DEF TaskingInv, Next, WithdrawAll
  <2>2. QED
    BY <1>3, <2>1 DEF TaskingInv, WithdrawAll, DeactivateAll
<1>4. CASE UNCHANGED taskingVars
  <2>1. StoreInv'
    BY <1>4, StoreInvStep DEF TaskingInv, taskingVars
  <2>2. QED
    BY <1>4, <2>1 DEF TaskingInv, taskingVars, storeVars
<1>5. QED
  BY <1>1, <1>2, <1>3, <1>4 DEF TaskingNext

(* Every task held is made of the message that set it last. *)
THEOREM TaskingInvariant == TaskingSpec => []TaskingInv
<1>1. TaskingInit => TaskingInv
  <2>1. Init => StoreInv
    BY DEF Init, StoreInv, TypeOK, IndexExact, Held
  <2>2. QED
    BY <2>1 DEF TaskingInit, TaskingInv, Init
<1>2. TaskingInv /\ [TaskingNext]_taskingVars => TaskingInv'
  BY TaskingStep
<1>3. QED
  BY <1>1, <1>2, PTL DEF TaskingSpec

(* A task matches the criteria its message orders, none dropped and none    *)
(* that cannot be used, and has the record scope that message asked for:    *)
(* malformedTaskIdentifiers, mapTarget, mapExtensionTarget, taskFromDetails *)
(* and the store's Activate, taken together.                                *)
THEOREM OrdersAreIntercepted == TaskingSpec => []InterceptsAsOrdered
<1>1. TaskingInv => InterceptsAsOrdered
  <2> DEFINE intercepted(x) == {id \in Target : x \in byTarget[id]}
  <2>1. SUFFICES ASSUME TaskingInv, NEW x \in XID
                 PROVE  IF ordered[x] = NoTask THEN intercepted(x) = {}
                        ELSE /\ Fulfils(intercepted(x), Orders(ordered[x]))
                             /\ \A c \in intercepted(x) :
                                  c.type \in Elements(LIT3Arms) => usable(c.type, c.value)
                             /\ byXID[x].scope = recordScope(ordered[x])
    BY DEF InterceptsAsOrdered
  <2>2. \A id \in Target : x \in byTarget[id] <=> x \in Held /\ id \in byXID[x].targets
    BY <2>1 DEF TaskingInv, StoreInv, IndexExact, Held
  <2>3. CASE ordered[x] = NoTask
    BY <2>1, <2>2, <2>3 DEF TaskingInv, Held
  <2>4. CASE ordered[x] # NoTask
    <3> DEFINE td == ordered[x]
    <3>1. td \in TaskDetails /\ accepts(td) /\ byXID[x] = taskFromDetails(td)
      BY <2>1, <2>4 DEF TaskingInv
    <3>2. byXID[x] \in Task /\ x \in Held
      BY <3>1, TaskingAssumption, StoreAssumption DEF Held
    <3>3. byXID[x].targets \subseteq Target
      BY <3>2, StoreAssumption
    <3>4. intercepted(x) = byXID[x].targets
      BY <2>2, <3>2, <3>3
    <3>5. Fulfils(byXID[x].targets, Orders(td)) /\ \A c \in byXID[x].targets : Proper(c)
      BY <3>1, AcceptedIsNamed
    <3>6. byXID[x].scope = recordScope(td)
      BY <3>1 DEF taskFromDetails
    <3> HIDE DEF td, intercepted
    <3>7. ASSUME NEW c \in byXID[x].targets, c.type \in Elements(LIT3Arms)
          PROVE  usable(c.type, c.value)
      <4>1. CASE \E a \in Elements(LIT3Arms) : /\ c = Criterion(a, c.value, c.address)
                                               /\ ProperLIT3(a, c.value, c.address)
        BY <4>1 DEF Criterion, ProperLIT3
      <4>2. ASSUME NEW a \in DOMAIN armType \ {"gtpuTunnelId"},
                   c = Criterion(armType[a], c.value, NoAddress)
            PROVE  FALSE
        <5>1. c.type = armType[a]
          BY <4>2 DEF Criterion
        <5>2. QED
          BY <3>7, <5>1, ArmLists DEF armType
      <4>3. QED
        BY <3>5, <3>7, <4>1, <4>2 DEF Proper
    <3>8. QED
      BY <2>4, <3>4, <3>5, <3>6, <3>7 DEF td
  <2>5. QED
    BY <2>3, <2>4
<1>2. QED
  BY <1>1, TaskingInvariant, PTL

(* A criterion that is held, rendered by targetXML and read back, is        *)
(* accepted and mapped to itself, numbers through the uint they are read    *)
(* into and the text FormatUint writes: what an interrogation reports is    *)
(* what is intercepted.  Two things are assumed of it, and both are needed: *)
(* its address is in the schema's form, and a tunnel's number, which the    *)
(* plain arm holds as it came, is the text of one of 32 bits.               *)
THEOREM ReportsAreFaithful == TaskingSpec => []ReportsWhatIsHeld
<1>1. TaskingInv => ReportsWhatIsHeld
  <2>1. SUFFICES ASSUME TaskingInv, NEW x \in Held, NEW c \in byXID[x].targets,
                        c.address \in ConformantAddress, Canonical(c)
                 PROVE  ReadsBack(c)
    BY DEF ReportsWhatIsHeld
  <2>2. ordered[x] \in TaskDetails /\ accepts(ordered[x]) /\ byXID[x] = taskFromDetails(ordered[x])
    BY <2>1 DEF TaskingInv, Held
  <2>3. Proper(c)
    BY <2>2, AcceptedIsNamed
  <2>4. QED
    BY <2>1, <2>3, ProperReadsBack
<1>2. QED
  BY <1>1, TaskingInvariant, PTL

-----------------------------------------------------------------------------
(* The store that messages act on is the store.                             *)
-----------------------------------------------------------------------------
(* Whatever messages arrive, the store they drive takes no step but its     *)
(* own: what activate puts into it was accepted and mapped to a task it may *)
(* hold, and a refused message is no step of it at all.                     *)
THEOREM TaskingImplementsStore == TaskingSpec => Spec
<1>1. TaskingInit => Init
  BY DEF TaskingInit
<1>2. ASSUME [TaskingNext]_taskingVars PROVE [Next]_storeVars
  <2>1. ASSUME NEW x \in XID, NEW td \in TaskDetails, Provision(x, td)
        PROVE  Next
    <3>1. taskFromDetails(td) \in Task /\ Activate(x, taskFromDetails(td))
      BY <2>1, TaskingAssumption DEF Provision
    <3>2. QED
      BY <3>1 DEF Next
  <2>2. ASSUME NEW x \in XID, Withdraw(x)
        PROVE  Next
    BY <2>2 DEF Withdraw, Next
  <2>3. CASE WithdrawAll
    BY <2>3 DEF WithdrawAll, Next
  <2>4. CASE UNCHANGED taskingVars
    BY <2>4 DEF taskingVars
  <2>5. QED
    BY <1>2, <2>1, <2>2, <2>3, <2>4 DEF TaskingNext
<1>3. QED
  BY <1>1, <1>2, PTL DEF TaskingSpec, Spec

(* So Match is exact through every sequence of messages, accepted, refused  *)
(* or withdrawn: the tasks it answers with are those whose message named    *)
(* the identifier last.                                                     *)
THEOREM MessagesMatchExactly == TaskingSpec => []MatchExact
  BY TaskingImplementsStore, MatchIsExact
==============================================================================
