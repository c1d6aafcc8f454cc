--------------------------- MODULE RequesterProofs ---------------------------
(***************************************************************************)
(* For any number of elements, callers, tasks and requests: a call of the  *)
(* requester concludes only from the answer of the element it addressed to *)
(* the request it posted.                                                  *)
(***************************************************************************)
EXTENDS Requester, TLAPS

(* In the initial state nobody has called and nothing was answered. *)
LEMMA InitRequester == Init => RequesterInv
<1> SUFFICES ASSUME Init PROVE RequesterInv
  OBVIOUS
<1>1. NoCall \in CallState /\ NoCall.at = "idle" /\ NoCall.result = "none"
      /\ NoCall.h.tx = NoCall.id
  BY DEF NoCall, NoHeader, CallState, Header
<1>2. TypeOK
  BY <1>1, RequesterAssumption DEF Init, TypeOK
<1>3. TransactionsAreOwn /\ AnswersAreServed /\ AnswersAreTheElements /\ InventoryIsCurrent
  BY <1>1 DEF Init, TransactionsAreOwn, AnswersAreServed, AnswersAreTheElements,
              InventoryIsCurrent
<1>4. QED
  BY <1>2, <1>3 DEF RequesterInv

(* A call that is refused on the spot, or posted under a transaction of    *)
(* its own.                                                                *)
LEMMA BeginPreserves ==
  ASSUME RequesterInv, NEW c \in Caller, NEW n \in NE, NEW op \in Op,
         NEW x \in XID \union {NoXID}, Begin(c, n, op, x)
  PROVE  RequesterInv'
<1> USE DEF RequesterInv
<1>1. CASE /\ MayLackField(op, x)
           /\ call' = [call EXCEPT ![c] = [NoCall EXCEPT !.at = "returned",
                                                         !.result = "incomplete"]]
           /\ UNCHANGED <<posted, requests, answers, held, served>>
  <2> DEFINE k == [NoCall EXCEPT !.at = "returned", !.result = "incomplete"]
  <2>1. k \in CallState /\ k.at = "returned" /\ k.result = "incomplete" /\ k.h.tx = k.id
    BY DEF NoCall, NoHeader, CallState, Header
  <2> HIDE DEF k
  <2>2. call' = [call EXCEPT ![c] = k]
    BY <1>1 DEF k
  <2>3. TypeOK'
    BY <1>1, <2>1, <2>2 DEF TypeOK
  <2>4. TransactionsAreOwn'
    BY <1>1, <2>1, <2>2 DEF TypeOK, TransactionsAreOwn
  <2>5. AnswersAreServed'
    BY <1>1 DEF AnswersAreServed
  <2>6. AnswersAreTheElements' /\ InventoryIsCurrent'
    BY <1>1, <2>1, <2>2 DEF TypeOK, AnswersAreTheElements, InventoryIsCurrent, ServedAs
  <2>7. QED
    BY <2>3, <2>4, <2>5, <2>6
<1>2. CASE ~Incomplete(op, x) /\ postXML(c, n, op, x)
  <2> DEFINE k == [at |-> "posted", id |-> posted + 1, h |-> header(n, op), xid |-> x,
                   result |-> "none", tasks |-> {}]
  <2>1. posted \in Nat /\ posted + 1 \in 0..MaxCalls
    BY <1>2, RequesterAssumption DEF TypeOK, postXML
  <2>2. header(n, op) \in Header /\ header(n, op).tx = posted + 1
        /\ header(n, op).ne = n /\ header(n, op).type = op
    BY <2>1 DEF header, Header, newUUID
  <2>3. /\ k \in CallState /\ k.at = "posted" /\ k.result = "none"
        /\ k.h.ne \in NE /\ k.h.tx = k.id
    <3>1. k.id = posted + 1 /\ k.h = header(n, op) /\ k.at = "posted" /\ k.result = "none"
      OBVIOUS
    <3>2. k \in CallState
      BY <2>1, <2>2 DEF CallState
    <3>3. QED
      BY <2>2, <3>1, <3>2
  <2> HIDE DEF k
  <2>4. call' = [call EXCEPT ![c] = k]
    BY <1>2 DEF postXML, k
  <2>5. PICK to \in NE \union {Stranger} :
          requests' = requests \union
            {[id |-> posted + 1, h |-> header(n, op), xid |-> x, to |-> to]}
    BY <1>2 DEF postXML
  <2>6. UNCHANGED <<answers, held, served>> /\ posted' = posted + 1
    BY <1>2 DEF postXML
  <2>7. TypeOK'
    <3>1. call' \in [Caller -> CallState]
          /\ \A d \in Caller : call'[d].at = "posted" => call'[d].h.ne \in NE
      BY <2>3, <2>4 DEF TypeOK
    <3>2. requests' \subseteq [id : Nat, h : Header, xid : XID \union {NoXID},
                               to : NE \union {Stranger}]
      BY <2>1, <2>2, <2>5 DEF TypeOK
    <3>3. \A q \in requests' : q.h.type \in Op /\ ~Incomplete(q.h.type, q.xid)
      BY <1>2, <2>2, <2>5 DEF TypeOK
    <3>4. QED
      BY <2>1, <2>6, <3>1, <3>2, <3>3 DEF TypeOK
  <2>8. TransactionsAreOwn'
    BY <2>2, <2>3, <2>4, <2>5 DEF TypeOK, TransactionsAreOwn
  <2>9. AnswersAreServed'
    BY <2>6 DEF AnswersAreServed
  <2>10. AnswersAreTheElements' /\ InventoryIsCurrent'
    BY <2>3, <2>4, <2>6 DEF TypeOK, AnswersAreTheElements, InventoryIsCurrent, ServedAs
  <2>11. QED
    BY <2>7, <2>8, <2>9, <2>10
<1>3. QED
  BY <1>1, <1>2 DEF Begin

(* An element serves a request: what it did is on record before its answer *)
(* can be read.                                                            *)
LEMMA ServePreserves ==
  ASSUME RequesterInv, NEW q \in requests, Serve(q)
  PROVE  RequesterInv'
<1> USE DEF RequesterInv
<1>1. /\ q.id \in Nat /\ q.h \in Header /\ q.xid \in XID \union {NoXID} /\ q.to \in NE
      /\ q.h.type \in Op /\ ~Incomplete(q.h.type, q.xid) /\ q.h.tx = q.id
  BY DEF TypeOK, Serve, TransactionsAreOwn
<1>2. PICK o \in Outcomes(q.to, q) :
        /\ held' = [held EXCEPT ![q.to] = o[1]]
        /\ served' = served \union
             {[id |-> q.id, ne |-> q.to, outcome |-> o[2], tasks |-> o[1]]}
        /\ \E body \in Bodies(o[2]) :
              answers' = answers \union
                {Reply(q.to, <<Message(q.h, q.to, o[2], body,
                                       IF body = "details" THEN o[1] ELSE {})>>)}
  BY DEF Serve
<1>3. requests' \subseteq requests /\ UNCHANGED <<call, posted>>
  BY DEF Serve
<1>4. /\ o[1] \in SUBSET XID /\ o[2] \in {"ok", "refused", "details"}
      /\ o[2] = "ok" => q.h.type # "details"
      /\ o[2] = "details" => q.h.type = "details"
  <2>1. held[q.to] \in SUBSET XID
    BY <1>1 DEF TypeOK
  <2>2. q.h.type = "activate" => q.xid \in XID
    BY <1>1 DEF Incomplete
  <2>3. QED
    BY <1>1, <1>2, <2>1, <2>2 DEF Outcomes, Op, Acknowledged
<1> DEFINE new == [id |-> q.id, ne |-> q.to, outcome |-> o[2], tasks |-> o[1]]
<1>5. /\ new \in [id : Nat, ne : NE, outcome : {"ok", "refused", "details"},
                  tasks : SUBSET XID]
      /\ new.id = q.id /\ new.ne = q.to /\ new.outcome = o[2] /\ new.tasks = o[1]
  BY <1>1, <1>4
<1>6. served' = served \union {new}
  BY <1>2
<1> HIDE DEF new
<1>7. TypeOK'
  <2>1. ASSUME NEW a \in answers', a \notin answers PROVE a.messages[1].tasks \subseteq XID
    <3>1. PICK body \in Bodies(o[2]) :
            a = Reply(q.to, <<Message(q.h, q.to, o[2], body,
                                      IF body = "details" THEN o[1] ELSE {})>>)
      BY <1>2, <2>1
    <3>2. a.messages[1].tasks = IF body = "details" THEN o[1] ELSE {}
      BY <3>1 DEF Reply, Message
    <3>3. QED
      BY <1>4, <3>2
  <2>2. \A a \in answers' : a.messages[1].tasks \subseteq XID
    BY <2>1 DEF TypeOK
  <2>3. held' \in [NE -> SUBSET XID]
    BY <1>2, <1>4 DEF TypeOK
  <2>4. QED
    BY <1>3, <1>5, <1>6, <2>2, <2>3 DEF TypeOK
<1>8. TransactionsAreOwn'
  BY <1>3 DEF TransactionsAreOwn
<1>9. AnswersAreServed'
  <2> SUFFICES ASSUME NEW a \in answers', a.cert \in NE
               PROVE  LET m == a.messages[1]
                      IN  \E s \in served' :
                             /\ s.id = m.tx
                             /\ s.ne = a.cert
                             /\ m.body \in {"ok", "refused", "details"} => s.outcome = m.body
                             /\ m.type = "error" => s.outcome = "refused" /\ m.tasks = {}
                             /\ m.type = "details" => s.outcome = "details" /\ s.tasks = m.tasks
    BY DEF AnswersAreServed
  <2>1. CASE a \in answers
    BY <1>6, <2>1 DEF AnswersAreServed
  <2>2. CASE a \notin answers
    <3>1. PICK body \in Bodies(o[2]) :
            a = Reply(q.to, <<Message(q.h, q.to, o[2], body,
                                      IF body = "details" THEN o[1] ELSE {})>>)
      BY <1>2, <2>2
    <3>2. a.cert = q.to /\ a.messages[1] = Message(q.h, q.to, o[2], body,
                                                   IF body = "details" THEN o[1] ELSE {})
      BY <3>1 DEF Reply
    <3>3. /\ a.messages[1].tx = q.id
          /\ a.messages[1].body = body
          /\ a.messages[1].tasks = IF body = "details" THEN o[1] ELSE {}
          /\ a.messages[1].type = IF o[2] = "refused" THEN "error" ELSE q.h.type
      BY <1>1, <3>2 DEF Message
    <3>4. /\ body \in {"ok", "refused", "details"} => o[2] = body
          /\ o[2] = "details" => body = "details"
          /\ o[2] = "refused" => body # "details"
      BY <1>4, <3>1 DEF Bodies
    <3>5. /\ a.messages[1].type = "error" => o[2] = "refused"
          /\ a.messages[1].type = "details" => o[2] = "details"
      BY <1>1, <1>4, <3>3 DEF Op, Acknowledged
    <3>6. QED
      BY <1>5, <1>6, <3>2, <3>3, <3>4, <3>5
  <2>3. QED
    BY <2>1, <2>2
<1>10. AnswersAreTheElements' /\ InventoryIsCurrent'
  BY <1>3, <1>6 DEF AnswersAreTheElements, InventoryIsCurrent, ServedAs
<1>11. QED
  BY <1>7, <1>8, <1>9, <1>10

(* What a stranger answers is under no element's certificate. *)
LEMMA StrangerPreserves ==
  ASSUME RequesterInv, NEW q \in requests, AnswerInItsName(q)
  PROVE  RequesterInv'
<1> USE DEF RequesterInv
<1>1. requests' \subseteq requests /\ UNCHANGED <<call, posted, held, served>>
  BY DEF AnswerInItsName
<1>2. \A a \in answers' : a \in answers \/ a.cert = Stranger
  BY DEF AnswerInItsName, Reply
<1>3. TypeOK' /\ TransactionsAreOwn'
  <2>1. ASSUME NEW a \in answers', a \notin answers PROVE a.messages[1].tasks \subseteq XID
    <3>1. \E outcome \in {IF q.h.type = "details" THEN "details" ELSE "ok", "refused"} :
            \E body \in Bodies(outcome) :
              a = Reply(Stranger, <<Message(q.h, q.h.ne, outcome, body, {})>>)
      BY <2>1 DEF AnswerInItsName
    <3>2. a.messages[1].tasks = {}
      BY <3>1 DEF Reply, Message
    <3>3. QED
      BY <3>2
  <2>2. \A a \in answers' : a.messages[1].tasks \subseteq XID
    BY <2>1 DEF TypeOK
  <2>3. QED
    BY <1>1, <2>2 DEF TypeOK, TransactionsAreOwn
<1>4. AnswersAreServed'
  BY <1>1, <1>2, RequesterAssumption DEF AnswersAreServed
<1>5. AnswersAreTheElements' /\ InventoryIsCurrent'
  BY <1>1 DEF AnswersAreTheElements, InventoryIsCurrent, ServedAs
<1>6. QED
  BY <1>3, <1>4, <1>5

(* A call that returns without an answer concludes nothing. *)
LEMMA ReturnPreserves ==
  ASSUME RequesterInv, NEW c \in Caller,
         NEW result \in {"transport", "unattributed", "unacknowledged", "refused", "ok",
                         "details"},
         NEW tasks \in SUBSET XID,
         authenticated /\ result \in {"ok", "refused"} => ServedAs(call[c], result),
         authenticated /\ result = "details" =>
            \E s \in served : /\ s.id = call[c].id
                              /\ s.ne = call[c].h.ne
                              /\ \/ s.outcome = "details" /\ s.tasks = tasks
                                 \/ s.outcome = "refused" /\ tasks = {},
         Return(c, result, tasks)
  PROVE  RequesterInv'
<1> USE DEF RequesterInv
<1>1. call[c] \in CallState
  BY DEF TypeOK
<1> DEFINE k == [call[c] EXCEPT !.at = "returned", !.result = result, !.tasks = tasks]
<1>2. /\ k \in CallState /\ k.at = "returned" /\ k.result = result /\ k.tasks = tasks
      /\ k.id = call[c].id /\ k.h = call[c].h
  BY <1>1 DEF CallState
<1>3. call' = [call EXCEPT ![c] = k]
  BY DEF Return, TypeOK
<1> HIDE DEF k
<1>4. UNCHANGED <<posted, requests, answers, held, served>>
  BY DEF Return
<1>5. TypeOK'
  BY <1>2, <1>3, <1>4 DEF TypeOK
<1>6. TransactionsAreOwn'
  BY <1>2, <1>3, <1>4 DEF TypeOK, TransactionsAreOwn
<1>7. AnswersAreServed'
  BY <1>4 DEF AnswersAreServed
<1>8. AnswersAreTheElements' /\ InventoryIsCurrent'
  BY <1>2, <1>3, <1>4 DEF TypeOK, AnswersAreTheElements, InventoryIsCurrent, ServedAs
<1>9. QED
  BY <1>5, <1>6, <1>7, <1>8

(* An answer that is bound to the call is its element's answer to its      *)
(* request; one that is not concludes nothing.                             *)
LEMMA ReadPreserves ==
  ASSUME RequesterInv, NEW c \in Caller, readResponse(c)
  PROVE  RequesterInv'
<1> DEFINE h == call[c].h
<1>1. PICK a \in answers \union Unreadable :
        Return(c, Conclusion(h, a),
               IF Conclusion(h, a) = "details" THEN a.messages[1].tasks ELSE {})
  BY DEF readResponse
<1> DEFINE result == Conclusion(h, a)
           tasks == IF result = "details" THEN a.messages[1].tasks ELSE {}
<1>2. result \in {"unattributed", "unacknowledged", "refused", "ok", "details"}
  BY DEF Conclusion
<1>3. /\ h.ne \in NE /\ h.tx = call[c].id
      /\ served \subseteq [id : Nat, ne : NE, outcome : {"ok", "refused", "details"},
                           tasks : SUBSET XID]
  BY <1>1 DEF Return, RequesterInv, TypeOK, TransactionsAreOwn
<1>4. CASE result \in {"unattributed", "unacknowledged"}
  BY <1>1, <1>4, ReturnPreserves
<1>5. CASE result \in {"refused", "ok", "details"}
  <2>1. readBoundResponse(h, a)
    BY <1>5 DEF Conclusion
  <2>2. a \in answers
    BY <2>1 DEF readBoundResponse, validateBound, Unreadable
  <2>3. tasks \in SUBSET XID
    BY <2>2 DEF RequesterInv, TypeOK
  <2>4. ASSUME authenticated
        PROVE  /\ result \in {"ok", "refused"} => ServedAs(call[c], result)
               /\ result = "details" =>
                    \E s \in served : /\ s.id = call[c].id
                                      /\ s.ne = call[c].h.ne
                                      /\ \/ s.outcome = "details" /\ s.tasks = tasks
                                         \/ s.outcome = "refused" /\ tasks = {}
    <3>1. a.cert = h.ne /\ a.messages[1].tx = h.tx
      BY <2>1, <2>4 DEF readBoundResponse, bindsResponderCert, validateBound
    <3>2. PICK s \in served :
            /\ s.id = a.messages[1].tx
            /\ s.ne = a.cert
            /\ a.messages[1].body \in {"ok", "refused", "details"} =>
                  s.outcome = a.messages[1].body
            /\ a.messages[1].type = "error" => s.outcome = "refused" /\ a.messages[1].tasks = {}
            /\ a.messages[1].type = "details" =>
                  s.outcome = "details" /\ s.tasks = a.messages[1].tasks
      BY <1>3, <2>2, <3>1 DEF RequesterInv, AnswersAreServed
    <3>3. result \in {"refused", "ok"} => a.messages[1].body = result
      BY <1>5, <2>1 DEF Conclusion
    <3>4. result \in {"ok", "refused"} => ServedAs(call[c], result)
      BY <1>3, <3>1, <3>2, <3>3 DEF ServedAs
    <3>5. result = "details" => a.messages[1].type \in {"details", "error"}
      BY <2>1 DEF Conclusion, readBoundResponse, validateBound
    <3>6. result = "details" =>
            /\ s.id = call[c].id /\ s.ne = call[c].h.ne
            /\ \/ s.outcome = "details" /\ s.tasks = tasks
               \/ s.outcome = "refused" /\ tasks = {}
      BY <1>3, <3>1, <3>2, <3>5
    <3>7. QED
      BY <3>4, <3>6
  <2> HIDE DEF result, tasks
  <2>5. Return(c, result, tasks)
    BY <1>1 DEF result, tasks
  <2>6. QED
    BY <1>5, <2>3, <2>4, <2>5, ReturnPreserves
<1>6. QED
  BY <1>2, <1>4, <1>5

(* Every step of the specification preserves the invariant. *)
LEMMA NextPreserves == RequesterInv /\ [Next]_vars => RequesterInv'
<1> SUFFICES ASSUME RequesterInv, [Next]_vars PROVE RequesterInv'
  OBVIOUS
<1>1. ASSUME NEW c \in Caller, readResponse(c) PROVE RequesterInv'
  BY <1>1, ReadPreserves
<1>2. ASSUME NEW c \in Caller, timeOut(c) PROVE RequesterInv'
  BY <1>2, ReturnPreserves DEF timeOut
<1>3. ASSUME NEW c \in Caller, NEW n \in NE, NEW op \in {"activate", "modify", "deactivate"},
             NEW x \in XID \union {NoXID}, Begin(c, n, op, x)
      PROVE  RequesterInv'
  BY <1>3, BeginPreserves DEF Op, Acknowledged
<1>4. ASSUME NEW c \in Caller, NEW n \in NE,
             NEW op \in {"createDestination", "keepalive", "details"}, Begin(c, n, op, NoXID)
      PROVE  RequesterInv'
  BY <1>4, BeginPreserves DEF Op, Acknowledged
<1>5. ASSUME NEW q \in requests, Serve(q) PROVE RequesterInv'
  BY <1>5, ServePreserves
<1>6. ASSUME NEW q \in requests, AnswerInItsName(q) PROVE RequesterInv'
  BY <1>6, StrangerPreserves
<1>7. ASSUME NEW n \in NE, Lapse(n) PROVE RequesterInv'
  <2>1. held' \in [NE -> SUBSET XID] /\ UNCHANGED <<call, posted, requests, answers, served>>
    BY <1>7 DEF Lapse, RequesterInv, TypeOK
  <2>2. QED
    BY <2>1 DEF RequesterInv, TypeOK, TransactionsAreOwn, AnswersAreServed,
                AnswersAreTheElements, InventoryIsCurrent, ServedAs
<1>8. CASE UNCHANGED vars
  BY <1>8 DEF vars, RequesterInv, TypeOK, TransactionsAreOwn, AnswersAreServed,
              AnswersAreTheElements, InventoryIsCurrent, ServedAs
<1>9. QED
  BY <1>1, <1>2, <1>3, <1>4, <1>5, <1>6, <1>7, <1>8 DEF Next

(* The requester's invariant holds in every reachable state. *)
THEOREM RequesterInvariant == Spec => []RequesterInv
  BY InitRequester, NextPreserves, PTL DEF Spec

(* A call of the requester reports success or refusal only when the        *)
(* element it addressed did, or refused, that very request.                *)
THEOREM AnswersBound == Spec => []AnswersAreTheElements
<1>1. RequesterInv => AnswersAreTheElements
  BY DEF RequesterInv
<1>2. QED
  BY <1>1, RequesterInvariant, PTL

(* The inventory a call returns is the addressed element's, taken while    *)
(* the call was under way.                                                 *)
THEOREM InventoriesCurrent == Spec => []InventoryIsCurrent
<1>1. RequesterInv => InventoryIsCurrent
  BY DEF RequesterInv
<1>2. QED
  BY <1>1, RequesterInvariant, PTL
==============================================================================
