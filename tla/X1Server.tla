------------------------------- MODULE X1Server -------------------------------
(****************************************************************************)
(* x1.Server: the X1 endpoint of a network element.  net/http gives every   *)
(* request a goroutine of its own, so task transitions, bulk operations,    *)
(* destination provisioning and the keepalive fail-safe run concurrently.   *)
(* Three things must stay in step: the task store, the destinations a DID   *)
(* resolves to, and what the point of interception (POI) has been told to   *)
(* apply through OnTaskChange.                                              *)
(*                                                                          *)
(* A process is a request goroutine or the WatchKeepalive goroutine.  Each  *)
(* step is a stretch of code between two points where another process can   *)
(* be observed: taking transitionMu, one call of the store, one section     *)
(* under mu, one callback of the POI.  Nothing in the model makes steps     *)
(* under transitionMu atomic; the lock has to do it.                        *)
(****************************************************************************)
EXTENDS Integers, FiniteSets

CONSTANTS
  Request,       \* the request goroutines that may be live at once
  Watchdog,      \* the WatchKeepalive goroutine
  NoProc,        \* transitionMu is free
  XID, EmptyXID, \* task identifiers; one the message left out or malformed
  Target,        \* target identifiers
  DID, NoDID,    \* destination identifiers; none
  Address,       \* what a destination is dialled at
  NoTask,        \* no task is held under an XID
  NoDest,        \* a DID names no destination
  Details,       \* the taskDetails an ADMF may send
  NewDest,       \* the destinations an ADMF may create
  Configured,    \* DID -> destination this element's configuration declares
  Timeout,       \* the keepalive window, in units of Tick
  deactivateAllDisabled, removeAllDestinationsEnabled, requireDIDs

Proc == Request \cup {Watchdog}

Product == {"IRI", "CC"}
Interface == {"X2", "X3"}

\* heldDestination; its delivery type is the set of interfaces it serves.
Dest == [address : Address, serves : SUBSET Interface]

\* types.DeliveryEndpoint
Endpoint == [type : Interface, address : Address, did : DID]

\* types.InterceptTask, as far as this server acts on it
Task == [targets : SUBSET Target, dids : SUBSET DID,
         products : SUBSET Product, deliveries : SUBSET Endpoint]

\* What malformedTaskIdentifiers and unhonourableTaskFields conclude of the
\* details, or that the message carried none.
Check == {"honourable", "malformed", "unhonourable", "absent"}

(* What the environment may send and how the element may be configured.     *)
ASSUME X1Assumption ==
  /\ Watchdog \notin Request
  /\ NoProc \notin Proc
  /\ EmptyXID \notin XID
  /\ NoTask \notin Task
  /\ NoDest \notin Dest
  /\ Details \subseteq [targets : SUBSET Target, dids : SUBSET DID,
                        products : SUBSET Product, check : Check]
  /\ NewDest \subseteq Dest
  /\ Configured \in [DID -> Dest \cup {NoDest}]
  /\ Timeout \in Nat
  /\ deactivateAllDisabled \in BOOLEAN
  /\ removeAllDestinationsEnabled \in BOOLEAN
  /\ requireDIDs \in BOOLEAN

VARIABLES
  byXID, byTarget,  \* store.Store
  destinations,     \* DID -> destination provisioned over X1, or NoDest
  lastSeen,         \* time since the last authenticated X1 message
  transitionMu,     \* the process that holds the transition lock, or NoProc
  pc,               \* where each process is
  req,              \* the message each request goroutine serves
  local,            \* each process's variables across its own steps
  applied,          \* what the POI intercepts: a set of <<XID, task>>
  answer,           \* what each request goroutine answered last
  quiet,            \* history: time since the ADMF's last message arrived
  arrived,          \* history: time since each request's message arrived
  taskAge           \* history: time since the message behind a task arrived

vars == <<byXID, byTarget, destinations, lastSeen, transitionMu, pc, req,
          local, applied, answer, quiet, arrived, taskAge>>

store == <<byXID, byTarget>>
history == <<quiet, arrived, taskAge>>

Store == INSTANCE TaskStore
-----------------------------------------------------------------------------
(* Messages.  Every message has the same fields; the ones its operation     *)
(* does not carry hold a filler.                                            *)

Message(op, x, d, did, dest) ==
  [op |-> op, xid |-> x, details |-> d, did |-> did, dest |-> dest]

NoDetails == [targets |-> {}, dids |-> {}, products |-> {}, check |-> "absent"]

TaskMessages ==
  {Message(op, x, d, NoDID, NoDest) :
     op \in {"activate", "modify"}, x \in XID \cup {EmptyXID}, d \in Details}

WithdrawMessages ==
  {Message("deactivate", x, NoDetails, NoDID, NoDest) : x \in XID \cup {EmptyXID}}

\* dest = NoDest: details createDestination refuses before it takes a lock.
DestinationMessages ==
  {Message("createDestination", EmptyXID, NoDetails, did, dest) :
     did \in DID, dest \in NewDest \cup {NoDest}}

\* "query": Keepalive, Ping and every Get and List request.
PlainMessages ==
  {Message(op, EmptyXID, NoDetails, NoDID, NoDest) :
     op \in {"deactivateAll", "removeAllDestinations", "query", "unsupported"}}

Messages == TaskMessages \cup WithdrawMessages \cup DestinationMessages \cup PlainMessages

NoMessage == Message("none", EmptyXID, NoDetails, NoDID, NoDest)

Local == [prev : Task \cup {NoTask}, task : Task \cup {NoTask},
          todo : SUBSET (XID \X Task), guard : BOOLEAN]

NoLocal == [prev |-> NoTask, task |-> NoTask, todo |-> {}, guard |-> FALSE]
-----------------------------------------------------------------------------
(* A DID names the destination provisioned over X1, else the configured one.*)
resolve(did) ==
  IF destinations[did] # NoDest THEN destinations[did] ELSE Configured[did]

endpoints(dest, did) ==
  {[type |-> i, address |-> dest.address, did |-> did] : i \in dest.serves}

unresolved(dids) == {did \in dids : resolve(did) = NoDest}

resolveDIDs(dids) == UNION {endpoints(resolve(did), did) : did \in dids}

hasDelivery(deliveries, i) == \E e \in deliveries : e.type = i

taskFromDetails(d) ==
  [targets |-> d.targets, dids |-> d.dids, products |-> d.products,
   deliveries |-> resolveDIDs(d.dids)]

malformedTaskIdentifiers(d) == d.check = "malformed"

unhonourableTaskFields(d) == d.check = "unhonourable"

(* Why applyTaskTransition refuses a message of its own accord, in the      *)
(* order it looks: details absent, malformed or not honourable; a           *)
(* modification of a task that is not held; then taskFromDetails's own      *)
(* refusals.  An empty product set is an unknown deliveryType.              *)
RefusedTransition(m) ==
  \/ m.details = NoDetails
  \/ malformedTaskIdentifiers(m.details)
  \/ unhonourableTaskFields(m.details)
  \/ m.op = "modify" /\ (m.xid = EmptyXID \/ Store!Get(m.xid) = NoTask)
  \/ m.xid = EmptyXID
  \/ m.details.targets = {}
  \/ m.details.products = {}
  \/ unresolved(m.details.dids) # {}
  \/ /\ requireDIDs
     /\ "CC" \in m.details.products
     /\ ~hasDelivery(resolveDIDs(m.details.dids), "X3")

\* Mutant of didReferenced: only content delivery counts as a use.
didReferencedForContent(did) ==
  \E s \in Store!Snapshot : \E e \in s[2].deliveries : e.did = did /\ e.type = "X3"

didReferenced(did) == \E s \in Store!Snapshot : did \in s[2].dids

destinationsInUse ==
  {did \in DID : destinations[did] # NoDest /\ didReferenced(did)}

lapsed == lastSeen > Timeout
-----------------------------------------------------------------------------
(* Steps every handler is made of.                                          *)

Goto(p, to) == pc' = [pc EXCEPT ![p] = to]

\* A request goroutine writes its answer and ends; it holds no lock.
Answer(r, a) ==
  /\ Goto(r, "idle")
  /\ req' = [req EXCEPT ![r] = NoMessage]
  /\ local' = [local EXCEPT ![r] = NoLocal]
  /\ arrived' = [arrived EXCEPT ![r] = 0]
  /\ answer' = [answer EXCEPT ![r] = a]

\* The deferred Unlock and the answer; the watchdog answers nobody.
Unlock(p, a) ==
  /\ transitionMu' = NoProc
  /\ IF p = Watchdog
     THEN /\ Goto(p, "idle")
          /\ local' = [local EXCEPT ![p] = NoLocal]
          /\ UNCHANGED <<req, arrived, answer>>
     ELSE Answer(p, a)

recordActivity == lastSeen' = 0

(* Process takes the next message of a request: authenticate, which reads   *)
(* nothing that changes, and, only if the peer is who it says it is, record *)
(* that the ADMF is alive.  That comes before the message is applied.       *)
applyAuthenticated(r, m) ==
  /\ pc[r] = "idle"
  /\ Goto(r, "apply")
  /\ req' = [req EXCEPT ![r] = m]
  /\ recordActivity
  /\ answer' = [answer EXCEPT ![r] = "none"]
  /\ quiet' = 0
  /\ UNCHANGED <<store, destinations, transitionMu, local, applied, arrived, taskAge>>

\* Mutant of refuseUnauthenticated: anybody's message is a sign of life.
refuseAfterRecording(r) ==
  /\ pc[r] = "idle"
  /\ recordActivity
  /\ answer' = [answer EXCEPT ![r] = "refused"]
  /\ UNCHANGED <<store, destinations, transitionMu, pc, req, local, applied, history>>

(* A message whose peer fails clause 8.2.4 is answered and nothing else.    *)
refuseUnauthenticated(r) ==
  /\ pc[r] = "idle"
  /\ answer' = [answer EXCEPT ![r] = "refused"]
  /\ UNCHANGED <<store, destinations, lastSeen, transitionMu, pc, req, local,
                 applied, history>>

\* The operations whose handler takes transitionMu, and the refusals apply,
\* deactivate and createDestination issue before they take it.
RefusedUnlocked(m) ==
  \/ m.op = "deactivate" /\ m.xid = EmptyXID
  \/ m.op = "deactivateAll" /\ deactivateAllDisabled
  \/ m.op = "removeAllDestinations" /\ ~removeAllDestinationsEnabled
  \/ m.op = "createDestination" /\ m.dest = NoDest
  \/ m.op = "unsupported"

(* apply for a message that needs no lock: one refused at once, or one that *)
(* only reads.                                                              *)
applyUnlocked(r) ==
  /\ pc[r] = "apply"
  /\ \/ RefusedUnlocked(req[r]) /\ Answer(r, "refused")
     \/ req[r].op = "query" /\ Answer(r, "ok")
  /\ UNCHANGED <<store, destinations, lastSeen, transitionMu, applied, quiet, taskAge>>

\* Mutant of lockTransition: the lock is not waited for.
lockTransitionAtOnce(p) ==
  /\ pc[p] \in {"apply", "lapsed"}
  /\ p \in Request => req[p].op # "query" /\ ~RefusedUnlocked(req[p])
  /\ transitionMu' = p
  /\ Goto(p, "locked")
  /\ UNCHANGED <<store, destinations, lastSeen, req, local, applied, answer, history>>

(* transitionMu.Lock(), for a request that needs it and for a watchdog that *)
(* found the window lapsed.                                                 *)
lockTransition(p) ==
  /\ pc[p] \in {"apply", "lapsed"}
  /\ p \in Request => req[p].op # "query" /\ ~RefusedUnlocked(req[p])
  /\ transitionMu = NoProc
  /\ transitionMu' = p
  /\ Goto(p, "locked")
  /\ UNCHANGED <<store, destinations, lastSeen, req, local, applied, answer, history>>
-----------------------------------------------------------------------------
(* applyTaskTransition: an activation or a modification.                    *)

\* Held task read, message judged, DIDs resolved.  canApply is the POI's own
\* answer and may refuse any task.
applyTaskTransition(r) ==
  LET m == req[r] IN
  /\ pc[r] = "locked"
  /\ m.op \in {"activate", "modify"}
  /\ \/ Unlock(r, "refused")
     \/ /\ ~RefusedTransition(m)
        /\ Goto(r, "store")
        /\ local' = [local EXCEPT ![r] = [NoLocal EXCEPT !.prev = Store!Get(m.xid),
                                                     !.task = taskFromDetails(m.details)]]
        /\ UNCHANGED <<transitionMu, req, answer, arrived>>
  /\ UNCHANGED <<store, destinations, lastSeen, applied, quiet, taskAge>>

activate(r) ==
  LET x == req[r].xid IN
  /\ pc[r] = "store"
  /\ Store!Activate(x, local[r].task)
  /\ taskAge' = [taskAge EXCEPT ![x] = arrived[r]]
  /\ Goto(r, "changed")
  /\ UNCHANGED <<destinations, lastSeen, transitionMu, req, local, applied,
                 answer, quiet, arrived>>

\* Mutant of notifyChanged: the same targets pass for an exact replay.
notifyChangedTargets(r) ==
  LET x == req[r].xid
      stored == Store!Get(x)
      prev == local[r].prev
  IN /\ pc[r] = "changed"
     /\ applied' = IF stored = NoTask \/ (prev # NoTask /\ stored.targets = prev.targets)
                   THEN applied
                   ELSE (applied \ {<<x, prev>>}) \cup {<<x, stored>>}
     /\ Unlock(r, IF stored = NoTask THEN "refused" ELSE "ok")
     /\ UNCHANGED <<store, destinations, lastSeen, quiet, taskAge>>

\* The POI takes down what it applied for prev and applies next.  An exact
\* replay is not told to it; a task that has gone missing is an error.
notifyChanged(r) ==
  LET x == req[r].xid
      stored == Store!Get(x)
  IN /\ pc[r] = "changed"
     /\ applied' = IF stored \in {NoTask, local[r].prev} THEN applied
                   ELSE (applied \ {<<x, local[r].prev>>}) \cup {<<x, stored>>}
     /\ Unlock(r, IF stored = NoTask THEN "refused" ELSE "ok")
     /\ UNCHANGED <<store, destinations, lastSeen, quiet, taskAge>>
-----------------------------------------------------------------------------
(* Removals.  What was removed from the store is torn down task by task     *)
(* (notifyRemoved), under the same hold of the lock.                        *)

deactivate(r) ==
  LET x == req[r].xid IN
  /\ pc[r] = "locked"
  /\ req[r].op = "deactivate"
  /\ IF Store!Get(x) = NoTask
     THEN Unlock(r, "refused") /\ UNCHANGED <<store, taskAge>>
     ELSE /\ Store!Deactivate(x)
          /\ taskAge' = [taskAge EXCEPT ![x] = 0]
          /\ local' = [local EXCEPT ![r].todo = {<<x, Store!Get(x)>>}]
          /\ Goto(r, "removed")
          /\ UNCHANGED <<transitionMu, req, answer, arrived>>
  /\ UNCHANGED <<destinations, lastSeen, applied, quiet>>

\* purgeIfLapsed's first look, made without the transition lock.
purgeIfLapsed ==
  /\ pc[Watchdog] = "idle"
  /\ lapsed
  /\ Goto(Watchdog, "lapsed")
  /\ UNCHANGED <<store, destinations, lastSeen, transitionMu, req, local,
                 applied, answer, history>>

\* Its second look, under the lock: the ADMF has spoken in between.
abandonPurge ==
  /\ pc[Watchdog] = "locked"
  /\ ~lapsed
  /\ Unlock(Watchdog, "none")
  /\ UNCHANGED <<store, destinations, lastSeen, applied, quiet, taskAge>>

\* Mutant of MayPurge: the watchdog trusts its first look.
MayPurgeUnchecked(p) == IF p = Watchdog THEN TRUE ELSE req[p].op = "deactivateAll"

MayPurge(p) == IF p = Watchdog THEN lapsed ELSE req[p].op = "deactivateAll"

\* Mutant of snapshotForPurge: what to tear down is read once the store is empty.
snapshotTooLate(p) ==
  /\ pc[p] = "locked"
  /\ MayPurge(p)
  /\ local' = [local EXCEPT ![p].todo = {}]
  /\ Goto(p, "purging")
  /\ UNCHANGED <<store, destinations, lastSeen, transitionMu, req, applied,
                 answer, history>>

\* purgeAllTaskingLocked reads what it will tear down ...
snapshotForPurge(p) ==
  /\ pc[p] = "locked"
  /\ MayPurge(p)
  /\ local' = [local EXCEPT ![p].todo = Store!Snapshot]
  /\ Goto(p, "purging")
  /\ UNCHANGED <<store, destinations, lastSeen, transitionMu, req, applied,
                 answer, history>>

\* ... and empties the store before any of it is torn down.
clearForPurge(p) ==
  /\ pc[p] = "purging"
  /\ Store!DeactivateAll
  /\ taskAge' = [x \in XID |-> 0]
  /\ Goto(p, "removed")
  /\ UNCHANGED <<destinations, lastSeen, transitionMu, req, local, applied,
                 answer, quiet, arrived>>

notifyRemoved(p) ==
  /\ pc[p] = "removed"
  /\ \/ \E s \in local[p].todo :
          /\ applied' = applied \ {s}
          /\ local' = [local EXCEPT ![p].todo = @ \ {s}]
          /\ UNCHANGED <<transitionMu, pc, req, answer, arrived>>
     \/ local[p].todo = {} /\ Unlock(p, "ok") /\ UNCHANGED applied
  /\ UNCHANGED <<store, destinations, lastSeen, quiet, taskAge>>
-----------------------------------------------------------------------------
(* Destinations.  Both guards are decided from task state and acted on in a *)
(* later step.                                                              *)

guardDestination(r) ==
  /\ pc[r] = "locked"
  /\ \/ /\ req[r].op = "createDestination"
        /\ local' = [local EXCEPT ![r].guard = didReferenced(req[r].did)]
     \/ /\ req[r].op = "removeAllDestinations"
        /\ local' = [local EXCEPT ![r].guard = destinationsInUse # {}]
  /\ Goto(r, "guarded")
  /\ UNCHANGED <<store, destinations, lastSeen, transitionMu, req, applied,
                 answer, history>>

\* Mutant of RefusedCreate: a configured DID in use may be provisioned over.
RefusedTwice(r) == destinations[req[r].did] # NoDest

\* A DID is created once, and not over a configured one that a task uses.
RefusedCreate(r) ==
  LET did == req[r].did IN
  \/ destinations[did] # NoDest
  \/ Configured[did] # NoDest /\ local[r].guard

\* Mutant of createDestination: a DID that exists is acknowledged.
createDestinationAnyway(r) ==
  /\ pc[r] = "guarded"
  /\ req[r].op = "createDestination"
  /\ Unlock(r, "ok")
  /\ destinations' = [destinations EXCEPT ![req[r].did] =
                        IF RefusedCreate(r) THEN @ ELSE req[r].dest]
  /\ UNCHANGED <<store, lastSeen, applied, quiet, taskAge>>

createDestination(r) ==
  /\ pc[r] = "guarded"
  /\ req[r].op = "createDestination"
  /\ IF RefusedCreate(r)
     THEN Unlock(r, "refused") /\ UNCHANGED destinations
     ELSE /\ destinations' = [destinations EXCEPT ![req[r].did] = req[r].dest]
          /\ Unlock(r, "ok")
  /\ UNCHANGED <<store, lastSeen, applied, quiet, taskAge>>

removeAllDestinations(r) ==
  /\ pc[r] = "guarded"
  /\ req[r].op = "removeAllDestinations"
  /\ IF local[r].guard
     THEN Unlock(r, "refused") /\ UNCHANGED destinations
     ELSE /\ destinations' = [did \in DID |-> NoDest]
          /\ Unlock(r, "ok")
  /\ UNCHANGED <<store, lastSeen, applied, quiet, taskAge>>
-----------------------------------------------------------------------------
(* Time.  Only "longer ago than Timeout" is ever asked, so ages stop there. *)
Older(n) == IF n > Timeout THEN n ELSE n + 1

Tick ==
  /\ lastSeen' = Older(lastSeen)
  /\ quiet' = Older(quiet)
  /\ arrived' = [r \in Request |-> IF pc[r] = "idle" THEN 0 ELSE Older(arrived[r])]
  /\ taskAge' = [x \in XID |-> IF byXID[x] = NoTask THEN 0 ELSE Older(taskAge[x])]
  /\ UNCHANGED <<store, destinations, transitionMu, pc, req, local, applied, answer>>

Init ==
  /\ Store!Init
  /\ destinations = [did \in DID |-> NoDest]
  /\ lastSeen = 0       \* WatchKeepalive seeds it
  /\ transitionMu = NoProc
  /\ pc = [p \in Proc |-> "idle"]
  /\ req = [r \in Request |-> NoMessage]
  /\ local = [p \in Proc |-> NoLocal]
  /\ applied = {}
  /\ answer = [r \in Request |-> "none"]
  /\ quiet = 0
  /\ arrived = [r \in Request |-> 0]
  /\ taskAge = [x \in XID |-> 0]

\* What a goroutine does once it runs, as opposed to a message arriving.
RequestStep(r) ==
  \/ applyUnlocked(r)
  \/ lockTransition(r)
  \/ applyTaskTransition(r) \/ activate(r) \/ notifyChanged(r)
  \/ deactivate(r)
  \/ snapshotForPurge(r) \/ clearForPurge(r) \/ notifyRemoved(r)
  \/ guardDestination(r) \/ createDestination(r) \/ removeAllDestinations(r)

WatchdogStep ==
  \/ purgeIfLapsed
  \/ lockTransition(Watchdog)
  \/ abandonPurge
  \/ snapshotForPurge(Watchdog)
  \/ clearForPurge(Watchdog)
  \/ notifyRemoved(Watchdog)

Receive(r) ==
  \/ \E m \in Messages : applyAuthenticated(r, m)
  \/ refuseUnauthenticated(r)

Next ==
  \/ \E r \in Request : Receive(r) \/ RequestStep(r)
  \/ WatchdogStep
  \/ Tick

Spec == Init /\ [][Next]_vars

(* Goroutines that can run do run, and WatchKeepalive's ticker keeps        *)
(* firing.  Nothing is assumed of messages or of time.                      *)
FairSpec ==
  /\ Spec
  /\ \A r \in Request : WF_vars(RequestStep(r))
  /\ WF_vars(WatchdogStep)
-----------------------------------------------------------------------------
Locations == {"idle", "apply", "lapsed", "locked", "store", "changed",
              "removed", "purging", "guarded"}

\* The locations at which a process is inside transitionMu.
Holding == {"locked", "store", "changed", "removed", "purging", "guarded"}

Age == 0 .. Timeout + 1

TypeOK ==
  /\ Store!TypeOK
  /\ destinations \in [DID -> Dest \cup {NoDest}]
  /\ lastSeen \in Age
  /\ transitionMu \in Proc \cup {NoProc}
  /\ pc \in [Proc -> Locations]
  /\ req \in [Request -> Messages \cup {NoMessage}]
  /\ local \in [Proc -> Local]
  /\ applied \in SUBSET (XID \X Task)
  /\ answer \in [Request -> {"none", "ok", "refused"}]
  /\ quiet \in Age
  /\ arrived \in [Request -> Age]
  /\ taskAge \in [XID -> Age]

(* Whenever no transition is in progress the POI intercepts exactly the     *)
(* tasks the element holds: no interception outlives its task through an    *)
(* activation racing a purge, and none the ADMF was told of is missing.     *)
POIMirrorsStore == transitionMu = NoProc => applied = Store!Snapshot

\* Each DID of the task resolves, and to the endpoints the task holds for it.
DeliversWhereResolved(t) ==
  \A did \in t.dids :
    /\ resolve(did) # NoDest
    /\ {e \in t.deliveries : e.did = did} = endpoints(resolve(did), did)

(* What the element would answer about a DID is where every task naming it  *)
(* really delivers.  Endpoints are copied into a task at activation, so     *)
(* creating or removing a destination afterwards could part the two.        *)
DestinationAgreement ==
  \A s \in Store!Snapshot : DeliversWhereResolved(s[2])

\* What an acknowledgement of message m tells the ADMF has come about.
Done(m) ==
  CASE m.op \in {"activate", "modify"} ->
         /\ byXID[m.xid] # NoTask
         /\ byXID[m.xid].targets = m.details.targets
         /\ byXID[m.xid].dids = m.details.dids
         /\ {a \in applied : a[1] = m.xid} = {<<m.xid, byXID[m.xid]>>}
    [] m.op = "deactivate" -> \A s \in applied \cup Store!Snapshot : s[1] # m.xid
    [] m.op = "deactivateAll" -> applied \cup Store!Snapshot = {}
    [] m.op = "createDestination" -> resolve(m.did) = m.dest
    [] m.op = "removeAllDestinations" -> \A did \in DID : destinations[did] = NoDest
    [] OTHER -> TRUE

(* An acknowledgement is true when it is given: the warrant is held and     *)
(* intercepted as ordered and nothing is intercepted under its XID on older *)
(* criteria, the withdrawn one is gone from store and POI alike, the        *)
(* destination created is the one a task would get.                         *)
AcknowledgedIsDone ==
  [][ \A r \in Request : \A m \in {req[r]} :
        answer[r] # "ok" /\ answer'[r] = "ok" => Done(m)' ]_vars

(* The fail-safe never takes tasking from an ADMF that is there: a task the *)
(* keepalive purge removes came with a message older than the window, even  *)
(* when that message arrived after the watchdog had decided to purge.       *)
LapseSparesFreshTasks ==
  [][ clearForPurge(Watchdog) =>
        \A x \in Store!Held : taskAge[x] > Timeout ]_vars

(* Warrants do not outlive their controller: if the ADMF falls silent for   *)
(* good, store and POI become empty and stay so, whatever unauthenticated   *)
(* traffic keeps arriving.                                                  *)
SilenceEndsInterception ==
  <>[](quiet > Timeout) => <>[](Store!Held = {} /\ applied = {})
-----------------------------------------------------------------------------
(* The strengthening that makes the properties above inductive.             *)

\* A process is inside the lock's hold exactly when it is the holder.
MutualExclusion == \A p \in Proc : pc[p] \in Holding <=> transitionMu = p

\* A goroutine reaches a location only with a message that leads there.
RequestsInPlace ==
  /\ pc[Watchdog] \in {"idle", "lapsed", "locked", "purging", "removed"}
  /\ \A r \in Request :
       LET m == req[r] IN
       /\ pc[r] # "lapsed"
       /\ pc[r] \in Holding => m.op # "query" /\ ~RefusedUnlocked(m)
       /\ pc[r] # "idle" => m # NoMessage
       /\ pc[r] \in {"store", "changed"} =>
            m.op \in {"activate", "modify"} /\ m.xid \in XID
       /\ pc[r] = "guarded" => m.op \in {"createDestination", "removeAllDestinations"}
       /\ pc[r] = "removed" => m.op \in {"deactivate", "deactivateAll"}
       /\ pc[r] = "purging" => m.op = "deactivateAll"

\* What the lock's holder has read is still so when it acts on it.
LocalIsCurrent ==
  /\ \A r \in Request : LET x == req[r].xid IN
       /\ pc[r] = "store" =>
            /\ local[r].prev = byXID[x]
            /\ local[r].task \in Task
            /\ local[r].task.targets = req[r].details.targets
            /\ local[r].task.dids = req[r].details.dids
            /\ DeliversWhereResolved(local[r].task)
       /\ pc[r] = "changed" =>
            /\ byXID[x] # NoTask
            /\ byXID[x].targets = req[r].details.targets
            /\ byXID[x].dids = req[r].details.dids
       /\ pc[r] = "guarded" /\ req[r].op = "createDestination" =>
            local[r].guard = didReferenced(req[r].did)
       /\ pc[r] = "guarded" /\ req[r].op = "removeAllDestinations" =>
            local[r].guard = (destinationsInUse # {})
       /\ pc[r] = "removed" =>
            IF req[r].op = "deactivate" THEN byXID[x] = NoTask ELSE Store!Held = {}
  /\ \A p \in Proc : pc[p] = "purging" => local[p].todo = Store!Snapshot

\* By how much the POI may lag behind the store, and where.
POILag ==
  /\ (\A p \in Proc : pc[p] \notin {"changed", "removed"}) => applied = Store!Snapshot
  /\ \A r \in Request : pc[r] = "changed" =>
       LET x == req[r].xid IN
       applied = {s \in Store!Snapshot : s[1] # x} \cup
                 (IF local[r].prev = NoTask THEN {} ELSE {<<x, local[r].prev>>})
  /\ \A p \in Proc : pc[p] = "removed" =>
       /\ applied = Store!Snapshot \cup local[p].todo
       /\ \A s \in local[p].todo : byXID[s[1]] = NoTask

\* The last message is never older than one a task or a request came with.
AgesInOrder ==
  /\ \A x \in Store!Held : taskAge[x] >= lastSeen
  /\ \A r \in Request : pc[r] # "idle" => arrived[r] >= lastSeen
  /\ pc[Watchdog] = "purging" => \A x \in Store!Held : taskAge[x] > Timeout

(* The inductive invariant: transitionMu excludes, its holder's reads are   *)
(* current, the POI lags the store only inside a transition, messages' ages *)
(* are in order and tasks deliver where their DIDs resolve.                 *)
X1Inv ==
  /\ TypeOK
  /\ MutualExclusion
  /\ RequestsInPlace
  /\ LocalIsCurrent
  /\ POILag
  /\ AgesInOrder
  /\ DestinationAgreement
=============================================================================
