------------------------------ MODULE Requester ------------------------------
(***************************************************************************)
(* x1/trigger.go: the requesting side of X1.  A triggering function calls  *)
(* CreateDestination, ActivateTask, ModifyTask, DeactivateTask, Keepalive  *)
(* and ReportedTasks, from several goroutines at once; each call posts one *)
(* request and acts on an answer only when it is bound to that request.    *)
(*                                                                         *)
(* Between the caller and the element lies whatever the address leads to:  *)
(* a request may be lost, or be served after its caller has given up, or   *)
(* reach an element it was not meant for; the answer to an earlier request *)
(* may arrive in the place of this one's; something that is not the        *)
(* element may answer in its name.  An element is its X1 server, of which  *)
(* only the tasks it holds and what it answers matter here (X1Server has   *)
(* the rest).                                                              *)
(***************************************************************************)
EXTENDS Naturals, Sequences

CONSTANTS
    NE,             \* network elements
    Stranger,       \* an endpoint whose certificate binds no element's name
    Caller,         \* goroutines of the triggering function
    XID, NoXID,     \* task identifiers, and the empty one
    authenticated,  \* whether the triggering function holds TLS material
    MaxCalls        \* bound: the requests that are posted

ASSUME RequesterAssumption ==
    /\ Stranger \notin NE
    /\ NoXID \notin XID
    /\ authenticated \in BOOLEAN
    /\ MaxCalls \in Nat

VARIABLES
    call,       \* [Caller -> ...]  the call each goroutine is in, or last made
    posted,     \* how many requests have been posted
    requests,   \* requests under way
    answers,    \* HTTP answers that were given, by anyone
    held,       \* [NE -> SUBSET XID]  the tasks each element holds
    served      \* what the elements did, request by request

vars == <<call, posted, requests, answers, held, served>>

Acknowledged == {"activate", "modify", "deactivate", "createDestination", "keepalive"}
Op == Acknowledged \union {"details"}

OurID == "triggering function"
supportedVersion == "v1.6.1"

NoHeader == [tx |-> 0, ne |-> Stranger, ourID |-> OurID, type |-> "none"]
NoCall == [at |-> "idle", id |-> 0, h |-> NoHeader, xid |-> NoXID,
           result |-> "none", tasks |-> {}]

(***************************************************************************)
(* What an element answers: one message for the request's one, which       *)
(* repeats its transaction and its sender and states the element's name.   *)
(* The type says whether it is an ErrorResponse, the body what it carries: *)
(* an acknowledgement, errorInformation, tasks or none of them.            *)
(***************************************************************************)
Message(h, n, outcome, body, tasks) ==
    [type |-> IF outcome = "refused" THEN "error" ELSE h.type,
     tx |-> h.tx, ne |-> n, admf |-> h.ourID, version |-> supportedVersion,
     body |-> body, tasks |-> tasks]

(* An element of another make may leave the acknowledgement out, or the    *)
(* errorInformation.                                                       *)
Bodies(outcome) == IF outcome = "details" THEN {outcome} ELSE {outcome, "neither"}

Reply(cert, messages) == [status |-> 200, cert |-> cert, messages |-> messages]

(* An answer that carries no X1 response: another status, or a body that   *)
(* is a TopLevelError or nothing that can be decoded.                      *)
Unreadable == {[status |-> 503, cert |-> Stranger, messages |-> <<>>],
               [status |-> 200, cert |-> Stranger, messages |-> <<>>]}

(***************************************************************************)
(* Posting.                                                                *)
(***************************************************************************)
(* Mutant of newUUID: the identifier repeats. *)
newUUIDAgain == 1

(* A transaction identifier nobody has used. *)
newUUID == posted + 1

(* header: what the answer will be held against. *)
header(n, op) == [tx |-> newUUID, ne |-> n, ourID |-> OurID, type |-> op]

(* The endpoint the address leads to is any: misrouting is not ruled out.  *)
postXML(c, n, op, x) ==
    /\ posted < MaxCalls
    /\ posted' = posted + 1
    /\ call' = [call EXCEPT ![c] = [at |-> "posted", id |-> posted + 1,
                                    h |-> header(n, op), xid |-> x,
                                    result |-> "none", tasks |-> {}]]
    /\ \E to \in NE \union {Stranger} :
          requests' = requests \union
            {[id |-> posted + 1, h |-> header(n, op), xid |-> x, to |-> to]}
    /\ UNCHANGED <<answers, held, served>>

(* What task and DeactivateTask refuse to send for want of an XID.         *)
Incomplete(op, x) == op \in {"activate", "modify", "deactivate"} /\ x = NoXID

(* A trigger may lack its product, its correlation, its session or its     *)
(* destinations, a destination its identifier, its address or its port.    *)
MayLackField(op, x) ==
    Incomplete(op, x) \/ op \in {"activate", "modify", "createDestination"}

(* A call begins: it is refused on the spot, or posted. *)
Begin(c, n, op, x) ==
    /\ call[c].at # "posted"
    /\ \/ /\ MayLackField(op, x)
          /\ call' = [call EXCEPT ![c] = [NoCall EXCEPT !.at = "returned",
                                                        !.result = "incomplete"]]
          /\ UNCHANGED <<posted, requests, answers, held, served>>
       \/ /\ ~Incomplete(op, x)
          /\ postXML(c, n, op, x)

(***************************************************************************)
(* Serving.                                                                *)
(***************************************************************************)
(* What an element may do with a request: the tasks it then holds, and the *)
(* outcome it answers.  It refuses what is addressed to another element,   *)
(* and may refuse a task, a destination or a question for reasons of its   *)
(* own.                                                                    *)
Outcomes(n, q) ==
    LET op == q.h.type
        refused == <<held[n], "refused">>
    IN  IF q.h.ne # n THEN {refused}
        ELSE CASE op = "activate" -> {<<held[n] \union {q.xid}, "ok">>, refused}
               [] op = "modify" ->
                    IF q.xid \in held[n] THEN {<<held[n], "ok">>, refused} ELSE {refused}
               [] op = "deactivate" ->
                    IF q.xid \in held[n] THEN {<<held[n] \ {q.xid}, "ok">>} ELSE {refused}
               [] op = "createDestination" -> {<<held[n], "ok">>, refused}
               [] op = "keepalive" -> {<<held[n], "ok">>}
               [] op = "details" -> {<<held[n], "details">>, refused}

Serve(q) ==
    /\ q.to \in NE
    /\ requests' = requests \ {q}
    /\ \E o \in Outcomes(q.to, q) :
          /\ held' = [held EXCEPT ![q.to] = o[1]]
          /\ served' = served \union
               {[id |-> q.id, ne |-> q.to, outcome |-> o[2], tasks |-> o[1]]}
          /\ \E body \in Bodies(o[2]) :
                answers' = answers \union
                  {Reply(q.to, <<Message(q.h, q.to, o[2], body,
                                         IF body = "details" THEN o[1] ELSE {})>>)}
    /\ UNCHANGED <<call, posted>>

(* The stranger answers as the element that was meant would. *)
AnswerInItsName(q) ==
    /\ q.to = Stranger
    /\ requests' = requests \ {q}
    /\ LET yes == IF q.h.type = "details" THEN "details" ELSE "ok"
       IN  \E outcome \in {yes, "refused"} : \E body \in Bodies(outcome) :
             answers' = answers \union
               {Reply(Stranger, <<Message(q.h, q.h.ne, outcome, body, {})>>)}
    /\ UNCHANGED <<call, posted, held, served>>

(* An element's fail-safe withdraws what it holds. *)
Lapse(n) ==
    /\ held[n] # {}
    /\ held' = [held EXCEPT ![n] = {}]
    /\ UNCHANGED <<call, posted, requests, answers, served>>

(***************************************************************************)
(* Reading an answer.                                                      *)
(***************************************************************************)
(* Mutant of bindsResponderCert: the chain is verified and nothing more. *)
bindsAnyCert(h, a) == TRUE

(* The responder's certificate binds the element that was addressed.       *)
(* Without TLS material there is no certificate to ask.                    *)
bindsResponderCert(h, a) == authenticated => a.cert = h.ne

(* Mutant of validateBound: any transaction of this kind will do. *)
validateUnbound(h, a) ==
    /\ Len(a.messages) = 1
    /\ a.messages[1].type \in {h.type, "error"}
    /\ a.messages[1].ne = h.ne

(* Exactly one message, of the type that answers the request or an error,  *)
(* for this transaction, between these two parties, in the one version.    *)
validateBound(h, a) ==
    /\ Len(a.messages) = 1
    /\ a.messages[1].type \in {h.type, "error"}
    /\ a.messages[1].tx = h.tx
    /\ a.messages[1].ne = h.ne
    /\ a.messages[1].admf = h.ourID
    /\ a.messages[1].version = supportedVersion

readBoundResponse(h, a) ==
    a.status = 200 /\ bindsResponderCert(h, a) /\ validateBound(h, a)

(* send and ReportedTasks, once the answer is bound.  Both go by           *)
(* errorInformation and not by the type; send asks for an acknowledgement  *)
(* then, ReportedTasks takes the tasks that are there, none included.      *)
Conclusion(h, a) ==
    IF ~readBoundResponse(h, a) THEN "unattributed"
    ELSE IF a.messages[1].body = "refused" THEN "refused"
    ELSE IF h.type = "details" THEN "details"
    ELSE IF a.messages[1].body = "ok" THEN "ok"
    ELSE "unacknowledged"

Return(c, result, tasks) ==
    /\ call[c].at = "posted"
    /\ call' = [call EXCEPT ![c].at = "returned", ![c].result = result,
                            ![c].tasks = tasks]
    /\ UNCHANGED <<posted, requests, answers, held, served>>

(* An answer arrives on the call's connection: one that was given to some  *)
(* request, this one or an earlier or a concurrent one, or an unreadable   *)
(* one.                                                                    *)
readResponse(c) ==
    \E a \in answers \union Unreadable :
        LET result == Conclusion(call[c].h, a)
        IN  Return(c, result, IF result = "details" THEN a.messages[1].tasks ELSE {})

(* The client's timeout, or a connection that could not be made or broke. *)
timeOut(c) == Return(c, "transport", {})

(***************************************************************************)
(* The specification.                                                      *)
(***************************************************************************)
Init ==
    /\ call = [c \in Caller |-> NoCall]
    /\ posted = 0
    /\ requests = {}
    /\ answers = {}
    /\ held = [n \in NE |-> {}]
    /\ served = {}

Next ==
    \/ \E c \in Caller : readResponse(c) \/ timeOut(c)
    \/ \E c \in Caller, n \in NE :
          \/ \E op \in {"activate", "modify", "deactivate"}, x \in XID \union {NoXID} :
                Begin(c, n, op, x)
          \/ \E op \in {"createDestination", "keepalive", "details"} : Begin(c, n, op, NoXID)
    \/ \E q \in requests : Serve(q) \/ AnswerInItsName(q)
    \/ \E n \in NE : Lapse(n)

Spec == Init /\ [][Next]_vars

(***************************************************************************)
(* Properties.                                                             *)
(***************************************************************************)
Header == [tx : Nat, ne : NE \union {Stranger}, ourID : {OurID},
           type : Op \union {"none"}]

CallState ==
    [at : {"idle", "posted", "returned"}, id : Nat, h : Header,
     xid : XID \union {NoXID},
     result : {"none", "incomplete", "transport", "unattributed", "unacknowledged",
               "refused", "ok", "details"},
     tasks : SUBSET XID]

TypeOK ==
    /\ call \in [Caller -> CallState]
    /\ \A c \in Caller : call[c].at = "posted" => call[c].h.ne \in NE
    /\ posted \in 0..MaxCalls
    /\ requests \subseteq [id : Nat, h : Header, xid : XID \union {NoXID},
                           to : NE \union {Stranger}]
    /\ \A q \in requests : q.h.type \in Op /\ ~Incomplete(q.h.type, q.xid)
    /\ \A a \in answers : a.messages[1].tasks \subseteq XID
    /\ held \in [NE -> SUBSET XID]
    /\ served \subseteq [id : Nat, ne : NE, outcome : {"ok", "refused", "details"},
                         tasks : SUBSET XID]

ServedAs(k, outcome) ==
    \E s \in served : s.id = k.id /\ s.ne = k.h.ne /\ s.outcome = outcome

(* A call says "done" or "refused" only when the element it addressed did  *)
(* or refused that very request: not because a misroute, a late answer to  *)
(* another request or something answering in the element's name was taken  *)
(* for it.  Otherwise content interception is recorded as installed at an  *)
(* element that never received the trigger.  It takes TLS material: the    *)
(* certificate-less mode trusts whatever answers.                          *)
AnswersAreTheElements ==
    authenticated => \A c \in Caller :
        call[c].result \in {"ok", "refused"} => ServedAs(call[c], call[c].result)

(* The tasks a ReportedTasks call returns are those the element held when  *)
(* it served that call: an inventory is never older than the question, so  *)
(* a reconciliation does not act on tasking that was withdrawn before it   *)
(* asked.  The one other inventory is an empty one, of an element that     *)
(* refused this very question in an ErrorResponse that does not say why.   *)
InventoryIsCurrent ==
    authenticated => \A c \in Caller :
        call[c].result = "details" =>
            \E s \in served : /\ s.id = call[c].id
                              /\ s.ne = call[c].h.ne
                              /\ \/ s.outcome = "details" /\ s.tasks = call[c].tasks
                                 \/ s.outcome = "refused" /\ call[c].tasks = {}

(* The answers' side of it: the transaction a request carries is its own,  *)
(* and an answer under an element's certificate is that element's answer   *)
(* to the request whose transaction it repeats.                            *)
TransactionsAreOwn ==
    /\ \A c \in Caller : call[c].h.tx = call[c].id
    /\ \A q \in requests : q.h.tx = q.id

AnswersAreServed ==
    \A a \in answers :
        a.cert \in NE =>
            LET m == a.messages[1]
            IN  \E s \in served :
                   /\ s.id = m.tx
                   /\ s.ne = a.cert
                   /\ m.body \in {"ok", "refused", "details"} => s.outcome = m.body
                   /\ m.type = "error" => s.outcome = "refused" /\ m.tasks = {}
                   /\ m.type = "details" => s.outcome = "details" /\ s.tasks = m.tasks

(* The inductive invariant: an answer is bound to its request by the       *)
(* transaction, which no other request carries, and to its element by the  *)
(* certificate.                                                            *)
RequesterInv ==
    /\ TypeOK
    /\ TransactionsAreOwn
    /\ AnswersAreServed
    /\ AnswersAreTheElements
    /\ InventoryIsCurrent
==============================================================================
