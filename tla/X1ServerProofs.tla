---------------------------- MODULE X1ServerProofs ----------------------------
(* X1Inv is inductive, and with it the server's safety properties hold for  *)
(* any number of request goroutines, tasks, destinations and any window.    *)
EXTENDS X1Server, TLAPS

(* What the fields of a message may be, whatever its operation.             *)
LEMMA MessageFields ==
  ASSUME NEW m \in Messages \cup {NoMessage}
  PROVE  /\ m.xid \in XID \cup {EmptyXID}
         /\ m.details.targets \in SUBSET Target
         /\ m.details.dids \in SUBSET DID
         /\ m.details.products \in SUBSET Product
         /\ m.dest \in Dest \cup {NoDest}
         /\ m.op = "createDestination" => m.did \in DID
  <1>1. CASE m \in TaskMessages
    BY <1>1, X1Assumption DEF TaskMessages, Message
  <1>2. CASE m \in WithdrawMessages
    BY <1>2 DEF WithdrawMessages, Message, NoDetails
  <1>3. CASE m \in DestinationMessages
    BY <1>3, X1Assumption DEF DestinationMessages, Message, NoDetails
  <1>4. CASE m \in PlainMessages
    BY <1>4 DEF PlainMessages, Message, NoDetails
  <1>5. CASE m = NoMessage
    BY <1>5 DEF NoMessage, Message, NoDetails
  <1>. QED  BY <1>1, <1>2, <1>3, <1>4, <1>5 DEF Messages

(* The filler of a goroutine that serves nothing is no message.             *)
LEMMA NoMessageIsNone == NoMessage \notin Messages
  <1>1. \A m \in TaskMessages : m.op # "none"
    BY DEF TaskMessages, Message
  <1>2. \A m \in WithdrawMessages : m.op # "none"
    BY DEF WithdrawMessages, Message
  <1>3. \A m \in DestinationMessages : m.op # "none"
    BY DEF DestinationMessages, Message
  <1>4. \A m \in PlainMessages : m.op # "none"
    BY DEF PlainMessages, Message
  <1>5. NoMessage.op = "none"
    BY DEF NoMessage, Message
  <1>. QED  BY <1>1, <1>2, <1>3, <1>4, <1>5 DEF Messages

(* The variables of a process outside its handler have the types of some.   *)
LEMMA NoLocalType == NoLocal \in Local
  BY DEF NoLocal, Local

(* A task built from the details has the types of one, and where every DID  *)
(* resolves it delivers where they resolve to.                              *)
LEMMA TaskFromDetails ==
  ASSUME TypeOK, NEW d,
         d.targets \in SUBSET Target, d.dids \in SUBSET DID,
         d.products \in SUBSET Product, unresolved(d.dids) = {}
  PROVE  /\ taskFromDetails(d) \in Task
         /\ DeliversWhereResolved(taskFromDetails(d))
  <1>. DEFINE t == taskFromDetails(d)
  <1>1. ASSUME NEW did \in d.dids
        PROVE  /\ resolve(did) \in Dest
               /\ endpoints(resolve(did), did) \in SUBSET Endpoint
               /\ \A e \in endpoints(resolve(did), did) : e.did = did
    <2>1. resolve(did) \in Dest
      BY X1Assumption DEF TypeOK, unresolved, resolve
    <2>2. resolve(did).address \in Address /\ resolve(did).serves \in SUBSET Interface
      BY <2>1 DEF Dest
    <2>. QED  BY <2>1, <2>2 DEF endpoints, Endpoint
  <1>2. t.deliveries \in SUBSET Endpoint
    BY <1>1 DEF taskFromDetails, resolveDIDs
  <1>3. t \in Task
    BY <1>2 DEF taskFromDetails, Task
  <1>4. ASSUME NEW did \in t.dids
        PROVE  /\ resolve(did) # NoDest
               /\ {e \in t.deliveries : e.did = did} = endpoints(resolve(did), did)
    <2>1. did \in d.dids
      BY DEF taskFromDetails
    <2>2. t.deliveries = UNION {endpoints(resolve(i), i) : i \in d.dids}
      BY DEF taskFromDetails, resolveDIDs
    <2>. QED  BY <1>1, <2>1, <2>2, X1Assumption
  <1>. QED  BY <1>3, <1>4 DEF DeliversWhereResolved
-----------------------------------------------------------------------------
(* What depends on the store, the destinations and the POI alone stays so   *)
(* while they do not change.                                                *)
LEMMA FrameStore ==
  ASSUME UNCHANGED store
  PROVE  /\ Store!Held' = Store!Held
         /\ Store!Snapshot' = Store!Snapshot
         /\ Store!TypeOK => Store!TypeOK'
         /\ \A x : Store!Get(x)' = Store!Get(x)
         /\ \A did : didReferenced(did)' = didReferenced(did)
  BY DEF store, Store!Held, Store!Snapshot, Store!TypeOK, Store!Get, didReferenced

(* Resolution depends on the destinations alone.                            *)
LEMMA FrameDestinations ==
  ASSUME UNCHANGED destinations
  PROVE  /\ \A did : resolve(did)' = resolve(did)
         /\ \A t : DeliversWhereResolved(t)' = DeliversWhereResolved(t)
  BY DEF resolve, DeliversWhereResolved, endpoints

(* A step of one process that touches neither store, destinations, POI nor  *)
(* lock, and stays outside the lock: receiving a message, answering one     *)
(* that needs no lock, the watchdog's first look.                           *)
LEMMA OutsideStep ==
  ASSUME X1Inv, NEW p \in Proc, TypeOK', RequestsInPlace', AgesInOrder',
         pc[p] \notin Holding, pc'[p] \notin Holding,
         pc' = [pc EXCEPT ![p] = pc'[p]],
         \A r \in Request \ {p} : req'[r] = req[r],
         \A q \in Proc \ {p} : local'[q] = local[q],
         UNCHANGED <<store, destinations, transitionMu, applied>>
  PROVE  X1Inv'
  <1>1. UNCHANGED store /\ UNCHANGED destinations
    BY DEF store
  <1>2. \A q \in Proc \ {p} : pc'[q] = pc[q]
    BY DEF X1Inv, TypeOK
  <1>3. MutualExclusion'
    BY <1>2 DEF X1Inv, MutualExclusion
  <1>4. LocalIsCurrent'
    BY <1>1, <1>2, FrameStore, FrameDestinations
       DEF X1Inv, LocalIsCurrent, Holding, destinationsInUse, Proc, store
  <1>5. POILag'
    BY <1>1, <1>2, FrameStore DEF X1Inv, POILag, Holding, Proc, store
  <1>6. DestinationAgreement'
    BY <1>1, FrameStore, FrameDestinations DEF X1Inv, DestinationAgreement
  <1>. QED  BY <1>3, <1>4, <1>5, <1>6 DEF X1Inv

(* A message arrives, authenticated or not.                                 *)
LEMMA ReceiveStep ==
  ASSUME X1Inv, NEW r \in Request, Receive(r)
  PROVE  X1Inv'
  <1>1. ASSUME NEW m \in Messages, applyAuthenticated(r, m)
        PROVE  X1Inv'
    <2>1. TypeOK'
      BY <1>1, FrameStore, X1Assumption
         DEF X1Inv, TypeOK, applyAuthenticated, recordActivity, Goto, Locations, Age, Proc
    <2>2. RequestsInPlace'
      BY <1>1, NoMessageIsNone, X1Assumption
         DEF X1Inv, TypeOK, RequestsInPlace, applyAuthenticated, Goto, Holding, Proc,
             RefusedUnlocked
    <2>3. AgesInOrder'
      BY <1>1, FrameStore, X1Assumption
         DEF X1Inv, TypeOK, AgesInOrder, applyAuthenticated, recordActivity, Goto, Age,
             Proc, Store!Held
    <2>. QED  BY <1>1, <2>1, <2>2, <2>3, OutsideStep, X1Assumption
              DEF applyAuthenticated, Goto, X1Inv, TypeOK, Holding, Proc
  <1>2. CASE refuseUnauthenticated(r)
    <2>1. TypeOK'
      BY <1>2, FrameStore DEF X1Inv, TypeOK, refuseUnauthenticated, history
    <2>2. RequestsInPlace' /\ AgesInOrder'
      BY <1>2, FrameStore
         DEF X1Inv, RequestsInPlace, AgesInOrder, refuseUnauthenticated, history,
             RefusedUnlocked
    <2>. QED  BY <1>2, <2>1, <2>2, OutsideStep
              DEF refuseUnauthenticated, X1Inv, TypeOK, Holding, Proc
  <1>. QED  BY <1>1, <1>2 DEF Receive

(* A message that needs no lock is answered.                                *)
LEMMA UnlockedStep ==
  ASSUME X1Inv, NEW r \in Request, applyUnlocked(r)
  PROVE  X1Inv'
  <1>. USE DEF applyUnlocked, Answer, Goto
  <1>1. TypeOK'
    BY FrameStore, X1Assumption, NoLocalType DEF X1Inv, TypeOK, Locations, Age, Proc
  <1>2. RequestsInPlace'
    BY X1Assumption DEF X1Inv, TypeOK, RequestsInPlace, Holding, Proc, RefusedUnlocked
  <1>3. AgesInOrder'
    BY FrameStore, X1Assumption DEF X1Inv, TypeOK, AgesInOrder, Proc
  <1>4. /\ pc[r] \notin Holding /\ pc'[r] \notin Holding /\ r \in Proc
        /\ pc' = [pc EXCEPT ![r] = pc'[r]]
        /\ \A q \in Request \ {r} : req'[q] = req[q]
        /\ \A q \in Proc \ {r} : local'[q] = local[q]
    BY DEF X1Inv, TypeOK, Holding, Proc
  <1>5. UNCHANGED <<store, destinations, transitionMu, applied>>
    OBVIOUS
  <1>. QED  BY <1>1, <1>2, <1>3, <1>4, <1>5, OutsideStep

(* The watchdog's first look, outside the lock.                             *)
LEMMA FirstLookStep ==
  ASSUME X1Inv, purgeIfLapsed
  PROVE  X1Inv'
  <1>. USE DEF purgeIfLapsed, Goto
  <1>1. TypeOK'
    BY FrameStore, X1Assumption DEF X1Inv, TypeOK, Locations, Proc, history
  <1>2. RequestsInPlace'
    BY X1Assumption DEF X1Inv, TypeOK, RequestsInPlace, Holding, Proc, RefusedUnlocked
  <1>3. AgesInOrder'
    BY FrameStore, X1Assumption DEF X1Inv, TypeOK, AgesInOrder, Proc, history
  <1>. QED  BY <1>1, <1>2, <1>3, OutsideStep, X1Assumption
            DEF X1Inv, TypeOK, Holding, Proc

(* transitionMu is taken.                                                   *)
LEMMA LockStep ==
  ASSUME X1Inv, NEW p \in Proc, lockTransition(p)
  PROVE  X1Inv'
  <1>. USE DEF lockTransition, Goto
  <1>0. UNCHANGED store /\ UNCHANGED destinations
    OBVIOUS
  <1>1. TypeOK'
    BY FrameStore, X1Assumption DEF X1Inv, TypeOK, Locations, Proc, history
  <1>2. MutualExclusion'
    BY X1Assumption DEF X1Inv, TypeOK, MutualExclusion, Holding
  <1>3. RequestsInPlace'
    BY X1Assumption DEF X1Inv, TypeOK, RequestsInPlace, Holding, Proc, RefusedUnlocked
  <1>4. LocalIsCurrent'
    BY <1>0, FrameStore, FrameDestinations, X1Assumption
       DEF X1Inv, TypeOK, LocalIsCurrent, destinationsInUse, Proc, store
  <1>5. POILag'
    BY <1>0, FrameStore DEF X1Inv, TypeOK, POILag, Proc, store
  <1>6. AgesInOrder'
    BY FrameStore, X1Assumption DEF X1Inv, TypeOK, AgesInOrder, Proc, history
  <1>7. DestinationAgreement'
    BY <1>0, FrameStore, FrameDestinations DEF X1Inv, DestinationAgreement
  <1>. QED  BY <1>1, <1>2, <1>3, <1>4, <1>5, <1>6, <1>7 DEF X1Inv
-----------------------------------------------------------------------------
(* Only the lock's holder is inside; once it leaves nobody is.              *)
LEMMA OthersOutside ==
  ASSUME X1Inv, NEW p \in Proc, pc[p] \in Holding
  PROVE  \A q \in Proc \ {p} : pc[q] \notin Holding
  BY DEF X1Inv, MutualExclusion

(* The step that ends a hold of the lock.  Whatever the hold was for, the   *)
(* POI must then have what the store has, and every task deliver where its  *)
(* DIDs resolve.                                                            *)
LEMMA UnlockStep ==
  ASSUME X1Inv, NEW p \in Proc, NEW a \in {"none", "ok", "refused"},
         pc[p] \in Holding, Unlock(p, a),
         UNCHANGED <<store, lastSeen, quiet, taskAge>>,
         applied' = Store!Snapshot,
         destinations' \in [DID -> Dest \cup {NoDest}],
         DestinationAgreement'
  PROVE  X1Inv'
  <1>. USE DEF Unlock, Answer, Goto
  <1>0. UNCHANGED store
    OBVIOUS
  <1>1. /\ pc' = [pc EXCEPT ![p] = "idle"]
        /\ transitionMu' = NoProc
        /\ local' = [local EXCEPT ![p] = NoLocal]
    OBVIOUS
  <1>2. /\ req' \in [Request -> Messages \cup {NoMessage}]
        /\ \A r \in Request \ {p} : req'[r] = req[r] /\ arrived'[r] = arrived[r]
        /\ arrived' \in [Request -> Age]
        /\ answer' \in [Request -> {"none", "ok", "refused"}]
    BY X1Assumption DEF X1Inv, TypeOK, Proc, Age
  <1>3. Store!Snapshot \in SUBSET (XID \X Task)
    BY DEF X1Inv, TypeOK, Store!TypeOK, Store!Snapshot, Store!Held
  <1>4. TypeOK'
    BY <1>0, <1>1, <1>2, <1>3, FrameStore, NoLocalType DEF X1Inv, TypeOK, Locations
  <1>5. \A q \in Proc : pc'[q] \notin Holding /\ (q # p => pc'[q] = pc[q])
    BY <1>1, OthersOutside DEF X1Inv, TypeOK, Holding
  <1>6. MutualExclusion'
    BY <1>1, <1>5, X1Assumption DEF MutualExclusion
  <1>7. RequestsInPlace'
    BY <1>1, <1>2, <1>5, X1Assumption
       DEF X1Inv, TypeOK, RequestsInPlace, Holding, Proc
  <1>8. LocalIsCurrent'
    BY <1>5 DEF LocalIsCurrent, Holding, Proc
  <1>9. POILag'
    BY <1>0, <1>5, FrameStore DEF POILag, Holding, Proc
  <1>10. AgesInOrder'
    BY <1>0, <1>1, <1>2, <1>5, FrameStore, X1Assumption
       DEF X1Inv, TypeOK, AgesInOrder, Proc, Holding
  <1>. QED  BY <1>4, <1>6, <1>7, <1>8, <1>9, <1>10 DEF X1Inv

(* A refusal: the hold ends with nothing done.                              *)
LEMMA RefusalStep ==
  ASSUME X1Inv, NEW p \in Proc, NEW a \in {"none", "ok", "refused"},
         pc[p] \in {"locked", "guarded"}, Unlock(p, a),
         UNCHANGED <<store, lastSeen, quiet, taskAge, applied, destinations>>
  PROVE  X1Inv'
  <1>1. UNCHANGED store /\ UNCHANGED destinations
    OBVIOUS
  <1>2. applied = Store!Snapshot
    BY OthersOutside DEF X1Inv, POILag, Holding
  <1>3. DestinationAgreement'
    BY <1>1, FrameStore, FrameDestinations DEF X1Inv, DestinationAgreement
  <1>4. pc[p] \in Holding /\ destinations' \in [DID -> Dest \cup {NoDest}]
    BY DEF Holding, X1Inv, TypeOK
  <1>5. applied' = Store!Snapshot /\ UNCHANGED <<store, lastSeen, quiet, taskAge>>
    BY <1>2
  <1>. QED  BY <1>3, <1>4, <1>5, UnlockStep

(* A step inside the hold of p that changes neither store, destinations nor *)
(* POI: reading for a later step.                                           *)
LEMMA ReadStep ==
  ASSUME X1Inv, NEW p \in Proc, NEW to \in {"store", "purging", "guarded"},
         pc[p] = "locked", pc' = [pc EXCEPT ![p] = to],
         \A q \in Proc \ {p} : local'[q] = local[q], local' \in [Proc -> Local],
         UNCHANGED <<store, destinations, lastSeen, transitionMu, req, applied,
                     answer, history>>,
         RequestsInPlace', AgesInOrder',
         p \in Request /\ to = "store" =>
            /\ local'[p].prev = byXID[req[p].xid]
            /\ local'[p].task \in Task
            /\ local'[p].task.targets = req[p].details.targets
            /\ local'[p].task.dids = req[p].details.dids
            /\ DeliversWhereResolved(local'[p].task),
         p \in Request /\ to = "guarded" /\ req[p].op = "createDestination" =>
            local'[p].guard = didReferenced(req[p].did),
         p \in Request /\ to = "guarded" /\ req[p].op = "removeAllDestinations" =>
            local'[p].guard = (destinationsInUse # {}),
         to = "purging" => local'[p].todo = Store!Snapshot
  PROVE  X1Inv'
  <1>0. UNCHANGED store /\ UNCHANGED destinations
    OBVIOUS
  <1>1. TypeOK'
    BY <1>0, FrameStore DEF X1Inv, TypeOK, Locations, history
  <1>2. \A q \in Proc \ {p} : pc'[q] = pc[q] /\ pc'[q] \notin Holding
    BY OthersOutside DEF X1Inv, TypeOK, Holding
  <1>3. MutualExclusion'
    BY <1>2 DEF X1Inv, TypeOK, MutualExclusion, Holding
  <1>4. destinationsInUse' = destinationsInUse
    BY <1>0, FrameStore DEF destinationsInUse
  <1>5. LocalIsCurrent'
    BY <1>0, <1>2, <1>4, FrameStore, FrameDestinations
       DEF X1Inv, TypeOK, LocalIsCurrent, Holding, Proc, store
  <1>6. POILag'
    BY <1>0, <1>2, FrameStore DEF X1Inv, TypeOK, POILag, Holding, Proc
  <1>7. DestinationAgreement'
    BY <1>0, FrameStore, FrameDestinations DEF X1Inv, DestinationAgreement
  <1>. QED  BY <1>1, <1>3, <1>5, <1>6, <1>7 DEF X1Inv
-----------------------------------------------------------------------------
(* The steps that only read, by way of ReadStep and RefusalStep.            *)

(* An activation or modification is judged and its DIDs are resolved.       *)
LEMMA TransitionStep ==
  ASSUME X1Inv, NEW r \in Request, applyTaskTransition(r)
  PROVE  X1Inv'
  <1>. DEFINE m == req[r]
  <1>. USE DEF applyTaskTransition
  <1>0. r \in Proc /\ r # Watchdog /\ m \in Messages \cup {NoMessage}
    BY X1Assumption DEF Proc, X1Inv, TypeOK
  <1>1. CASE Unlock(r, "refused")
    BY <1>0, <1>1, RefusalStep
  <1>2. CASE /\ ~RefusedTransition(m)
             /\ Goto(r, "store")
             /\ local' = [local EXCEPT ![r] =
                            [NoLocal EXCEPT !.prev = Store!Get(m.xid),
                                            !.task = taskFromDetails(m.details)]]
             /\ UNCHANGED <<transitionMu, req, answer, arrived>>
    <2>1. unresolved(m.details.dids) = {} /\ m.xid \in XID
      BY <1>0, <1>2, MessageFields DEF RefusedTransition
    <2>2. /\ taskFromDetails(m.details) \in Task
          /\ DeliversWhereResolved(taskFromDetails(m.details))
      <3>. HIDE DEF m
      <3>. QED  BY <1>0, <2>1, MessageFields, TaskFromDetails DEF X1Inv
    <2>3. /\ taskFromDetails(m.details).targets = m.details.targets
          /\ taskFromDetails(m.details).dids = m.details.dids
      BY DEF taskFromDetails
    <2>4. Store!Get(m.xid) \in Task \cup {NoTask}
      BY <2>1 DEF X1Inv, TypeOK, Store!TypeOK, Store!Get
    <2>5. /\ [NoLocal EXCEPT !.prev = Store!Get(m.xid),
                             !.task = taskFromDetails(m.details)] \in Local
          /\ local'[r] = [NoLocal EXCEPT !.prev = Store!Get(m.xid),
                                         !.task = taskFromDetails(m.details)]
      BY <1>0, <1>2, <2>2, <2>4 DEF X1Inv, TypeOK, Local, NoLocal
    <2>6. /\ local'[r].prev = byXID[m.xid]
          /\ local'[r].task = taskFromDetails(m.details)
      BY <2>5 DEF Store!Get, NoLocal
    <2>9. /\ \A q \in Proc \ {r} : local'[q] = local[q]
          /\ local' \in [Proc -> Local]
      <3>. HIDE DEF m
      <3>. QED  BY <1>0, <1>2, <2>5 DEF X1Inv, TypeOK
    <2>7. RequestsInPlace'
      BY <1>0, <1>2, <2>1 DEF X1Inv, TypeOK, RequestsInPlace, Goto, Holding, Proc
    <2>8. AgesInOrder'
      BY <1>0, <1>2, FrameStore DEF X1Inv, TypeOK, AgesInOrder, Goto, Proc
    <2>. QED  BY <1>0, <1>2, <2>2, <2>3, <2>6, <2>7, <2>8, <2>9, ReadStep, ZenonT(90) DEF Goto, history
  <1>. QED  BY <1>1, <1>2

(* A destination handler reads what its guard depends on.                   *)
LEMMA GuardStep ==
  ASSUME X1Inv, NEW r \in Request, guardDestination(r)
  PROVE  X1Inv'
  <1>. USE DEF guardDestination, Goto
  <1>0. r \in Proc /\ r # Watchdog
    BY X1Assumption DEF Proc
  <1>1. /\ \A q \in Proc \ {r} : local'[q] = local[q]
        /\ local' \in [Proc -> Local]
    <2>1. PICK g \in BOOLEAN : local' = [local EXCEPT ![r].guard = g]
      BY DEF didReferenced
    <2>. QED  BY <1>0, <2>1, SMTT(30) DEF X1Inv, TypeOK, Local
  <1>2. /\ req[r].op = "createDestination" => local'[r].guard = didReferenced(req[r].did)
        /\ req[r].op = "removeAllDestinations" => local'[r].guard = (destinationsInUse # {})
    BY <1>0 DEF X1Inv, TypeOK, Local
  <1>3. RequestsInPlace'
    BY <1>0 DEF X1Inv, TypeOK, RequestsInPlace, Holding, Proc
  <1>4. AgesInOrder'
    BY <1>0, FrameStore DEF X1Inv, TypeOK, AgesInOrder, Proc, history
  <1>. QED  BY <1>0, <1>1, <1>2, <1>3, <1>4, ReadStep

(* A purge reads what it will tear down.                                    *)
LEMMA SnapshotStep ==
  ASSUME X1Inv, NEW p \in Proc, snapshotForPurge(p)
  PROVE  X1Inv'
  <1>. USE DEF snapshotForPurge, Goto
  <1>0. Store!Snapshot \in SUBSET (XID \X Task)
    BY DEF X1Inv, TypeOK, Store!TypeOK, Store!Snapshot, Store!Held
  <1>1. /\ \A q \in Proc \ {p} : local'[q] = local[q]
        /\ local' \in [Proc -> Local]
        /\ local'[p].todo = Store!Snapshot
    BY <1>0, SMTT(30) DEF X1Inv, TypeOK, Local
  <1>2. RequestsInPlace'
    BY X1Assumption DEF X1Inv, TypeOK, RequestsInPlace, Holding, Proc, MayPurge
  <1>3. AgesInOrder'
    BY FrameStore, X1Assumption
       DEF X1Inv, TypeOK, AgesInOrder, Proc, history, MayPurge, lapsed, Age, Store!Held
  <1>. QED  BY <1>1, <1>2, <1>3, ReadStep, X1Assumption

(* The watchdog's second look finds that the ADMF has spoken.               *)
LEMMA AbandonStep ==
  ASSUME X1Inv, abandonPurge
  PROVE  X1Inv'
  <1>. USE DEF abandonPurge
  <1>1. Watchdog \in Proc
    BY DEF Proc
  <1>. QED  BY <1>1, RefusalStep
-----------------------------------------------------------------------------
(* The steps that change the store.                                         *)

(* The store takes the task; the POI has yet to be told.                    *)
LEMMA ActivateStep ==
  ASSUME X1Inv, NEW r \in Request, activate(r)
  PROVE  X1Inv'
  <1>. DEFINE x == req[r].xid
              t == local[r].task
  <1>. USE DEF activate, Goto
  <1>0. r \in Proc /\ r # Watchdog /\ pc[r] = "store" /\ pc[r] \in Holding
    BY X1Assumption DEF Proc, Holding
  <1>1. /\ x \in XID
        /\ t \in Task /\ t # NoTask /\ DeliversWhereResolved(t)
        /\ t.targets = req[r].details.targets /\ t.dids = req[r].details.dids
        /\ local[r].prev = byXID[x]
    BY <1>0, X1Assumption DEF X1Inv, RequestsInPlace, LocalIsCurrent
  <1>2. byXID' = [byXID EXCEPT ![x] = t]
    BY DEF Store!Activate
  <1>3. byTarget' \in [Target -> SUBSET XID]
    BY <1>1 DEF X1Inv, TypeOK, Store!TypeOK, Store!Activate, Store!unindex
  <1>4. TypeOK'
    BY <1>0, <1>1, <1>2, <1>3 DEF X1Inv, TypeOK, Store!TypeOK, Locations
  <1>5. \A q \in Proc \ {r} : pc'[q] = pc[q] /\ pc'[q] \notin Holding
    BY <1>0, OthersOutside DEF X1Inv, TypeOK
  <1>6. pc'[r] = "changed"
    BY <1>0 DEF X1Inv, TypeOK
  <1>7. MutualExclusion'
    BY <1>0, <1>5, <1>6 DEF X1Inv, MutualExclusion, Holding
  <1>8. RequestsInPlace'
    BY <1>0, <1>1, <1>5, <1>6 DEF X1Inv, RequestsInPlace, Holding, Proc
  <1>9. LocalIsCurrent'
    BY <1>0, <1>1, <1>2, <1>5, <1>6
       DEF LocalIsCurrent, Holding, Proc, X1Inv, TypeOK, Store!TypeOK
  <1>10. /\ Store!Held' = Store!Held \cup {x}
         /\ Store!Snapshot' = {s \in Store!Snapshot : s[1] # x} \cup {<<x, t>>}
    BY <1>1, <1>2 DEF Store!Held, Store!Snapshot, X1Inv, TypeOK, Store!TypeOK
  <1>11. POILag'
    <2>1. applied = Store!Snapshot
      BY <1>0, OthersOutside DEF X1Inv, POILag, Holding
    <2>2. {s \in Store!Snapshot' : s[1] # x} = {s \in Store!Snapshot : s[1] # x}
      BY <1>10
    <2>3. Store!Snapshot = {s \in Store!Snapshot : s[1] # x} \cup
                           (IF byXID[x] = NoTask THEN {} ELSE {<<x, byXID[x]>>})
      BY <1>1 DEF Store!Snapshot, Store!Held
    <2>. QED  BY <1>0, <1>1, <1>5, <1>6, <2>1, <2>2, <2>3 DEF POILag, Holding, Proc
  <1>12. AgesInOrder'
    BY <1>0, <1>1, <1>5, <1>6, <1>10
       DEF X1Inv, TypeOK, AgesInOrder, Proc, Holding, Age
  <1>13. DestinationAgreement'
    BY <1>1, <1>10, FrameDestinations DEF X1Inv, DestinationAgreement
  <1>. QED  BY <1>4, <1>7, <1>8, <1>9, <1>11, <1>12, <1>13 DEF X1Inv

(* The POI is told, and catches up with the store.                          *)
LEMMA ChangedStep ==
  ASSUME X1Inv, NEW r \in Request, notifyChanged(r)
  PROVE  X1Inv'
  <1>. DEFINE x == req[r].xid
              prev == local[r].prev
  <1>. USE DEF notifyChanged
  <1>0. r \in Proc /\ r # Watchdog /\ pc[r] = "changed" /\ pc[r] \in Holding
    BY X1Assumption DEF Proc, Holding
  <1>1. x \in XID /\ byXID[x] \in Task /\ byXID[x] # NoTask
    BY <1>0 DEF X1Inv, RequestsInPlace, LocalIsCurrent, TypeOK, Store!TypeOK
  <1>2. applied = {s \in Store!Snapshot : s[1] # x} \cup
                  (IF prev = NoTask THEN {} ELSE {<<x, prev>>})
    BY <1>0 DEF X1Inv, POILag
  <1>3. Store!Snapshot = {s \in Store!Snapshot : s[1] # x} \cup {<<x, byXID[x]>>}
    BY <1>1 DEF Store!Snapshot, Store!Held
  <1>4. applied' = Store!Snapshot
    <2>1. CASE byXID[x] = prev
      BY <1>1, <1>2, <1>3, <2>1 DEF Store!Get
    <2>2. CASE byXID[x] # prev
      <3>1. applied' = (applied \ {<<x, prev>>}) \cup {<<x, byXID[x]>>}
        BY <1>1, <2>2 DEF Store!Get
      <3>2. applied \ {<<x, prev>>} = {s \in Store!Snapshot : s[1] # x}
        BY <1>2, <1>1
      <3>. QED  BY <1>3, <3>1, <3>2
    <2>. QED  BY <2>1, <2>2
  <1>5. UNCHANGED store /\ UNCHANGED destinations
    OBVIOUS
  <1>6. DestinationAgreement' /\ destinations' \in [DID -> Dest \cup {NoDest}]
    BY <1>5, FrameStore, FrameDestinations DEF X1Inv, TypeOK, DestinationAgreement
  <1>7. Unlock(r, "ok")
    BY <1>1 DEF Store!Get
  <1>. QED  BY <1>0, <1>4, <1>6, <1>7, UnlockStep

(* The store gives up one task, or the request is refused.                  *)
LEMMA DeactivateStep ==
  ASSUME X1Inv, NEW r \in Request, deactivate(r)
  PROVE  X1Inv'
  <1>. DEFINE x == req[r].xid
  <1>. USE DEF deactivate
  <1>0. r \in Proc /\ r # Watchdog /\ pc[r] = "locked" /\ pc[r] \in Holding
    BY X1Assumption DEF Proc, Holding
  <1>1. x \in XID
    BY <1>0, MessageFields DEF X1Inv, TypeOK, RequestsInPlace, RefusedUnlocked
  <1>2. CASE Store!Get(x) = NoTask
    BY <1>0, <1>2, RefusalStep
  <1>3. CASE Store!Get(x) # NoTask
    <2>1. /\ byXID[x] \in Task /\ byXID[x] # NoTask
          /\ byXID' = [byXID EXCEPT ![x] = NoTask]
          /\ byTarget' \in [Target -> SUBSET XID]
      BY <1>1, <1>3
         DEF X1Inv, TypeOK, Store!TypeOK, Store!Get, Store!Deactivate, Store!unindex
    <2>2. /\ local' = [local EXCEPT ![r].todo = {<<x, byXID[x]>>}]
          /\ pc' = [pc EXCEPT ![r] = "removed"]
          /\ taskAge' = [taskAge EXCEPT ![x] = 0]
          /\ UNCHANGED <<transitionMu, req, answer, arrived, destinations, lastSeen,
                         applied, quiet>>
      BY <1>3 DEF Store!Get, Goto
    <2>3. local'[r].todo = {<<x, byXID[x]>>} /\ local' \in [Proc -> Local]
      BY <1>0, <1>1, <2>1, <2>2, SMTT(30) DEF X1Inv, TypeOK, Local
    <2>4. TypeOK'
      BY <1>0, <1>1, <2>1, <2>2, <2>3, X1Assumption
         DEF X1Inv, TypeOK, Store!TypeOK, Locations, Age
    <2>5. pc'[r] = "removed" /\ \A q \in Proc \ {r} : pc'[q] = pc[q] /\ pc'[q] \notin Holding
      BY <1>0, <2>2, OthersOutside DEF X1Inv, TypeOK
    <2>6. MutualExclusion'
      BY <1>0, <2>2, <2>5 DEF X1Inv, MutualExclusion, Holding
    <2>7. RequestsInPlace'
      BY <1>0, <1>1, <2>2, <2>5 DEF X1Inv, RequestsInPlace, Holding, Proc
    <2>8. LocalIsCurrent'
      BY <1>0, <1>1, <2>1, <2>2, <2>5
         DEF LocalIsCurrent, Holding, Proc, X1Inv, TypeOK, Store!TypeOK
    <2>9. /\ Store!Held' = Store!Held \ {x}
          /\ Store!Snapshot' = {s \in Store!Snapshot : s[1] # x}
          /\ Store!Snapshot = Store!Snapshot' \cup {<<x, byXID[x]>>}
      BY <1>1, <2>1 DEF Store!Held, Store!Snapshot, X1Inv, TypeOK, Store!TypeOK
    <2>10. POILag'
      <3>1. applied = Store!Snapshot
        BY <1>0, OthersOutside DEF X1Inv, POILag, Holding
      <3>. QED  BY <1>0, <1>1, <2>1, <2>2, <2>3, <2>5, <2>9, <3>1
                DEF POILag, Holding, Proc, X1Inv, TypeOK, Store!TypeOK
    <2>11. AgesInOrder'
      BY <1>0, <1>1, <2>2, <2>5, <2>9
         DEF X1Inv, TypeOK, AgesInOrder, Proc, Holding, Age, Store!Held
    <2>12. DestinationAgreement'
      BY <2>2, <2>9, FrameDestinations DEF X1Inv, DestinationAgreement
    <2>. QED  BY <2>4, <2>6, <2>7, <2>8, <2>10, <2>11, <2>12 DEF X1Inv
  <1>. QED  BY <1>2, <1>3

(* A purge empties the store.                                               *)
LEMMA ClearStep ==
  ASSUME X1Inv, NEW p \in Proc, clearForPurge(p)
  PROVE  X1Inv'
  <1>. USE DEF clearForPurge, Goto
  <1>0. pc[p] = "purging" /\ pc[p] \in Holding
    BY DEF Holding
  <1>1. /\ byXID' = [x \in XID |-> NoTask]
        /\ byTarget' = [id \in Target |-> {}]
        /\ Store!Held' = {} /\ Store!Snapshot' = {}
    BY DEF Store!DeactivateAll, Store!Held, Store!Snapshot
  <1>2. TypeOK'
    BY <1>1, X1Assumption DEF X1Inv, TypeOK, Store!TypeOK, Locations, Age
  <1>3. pc'[p] = "removed" /\ \A q \in Proc \ {p} : pc'[q] = pc[q] /\ pc'[q] \notin Holding
    BY <1>0, OthersOutside DEF X1Inv, TypeOK
  <1>4. MutualExclusion'
    BY <1>0, <1>3 DEF X1Inv, MutualExclusion, Holding
  <1>5. RequestsInPlace'
    BY <1>0, <1>3, X1Assumption DEF X1Inv, RequestsInPlace, Holding, Proc
  <1>6. LocalIsCurrent'
    BY <1>0, <1>1, <1>3 DEF LocalIsCurrent, Holding, Proc, X1Inv, RequestsInPlace
  <1>7. POILag'
    <2>1. applied = Store!Snapshot /\ local[p].todo = Store!Snapshot
      BY <1>0, OthersOutside DEF X1Inv, POILag, LocalIsCurrent, Holding
    <2>2. \A s \in local[p].todo : byXID'[s[1]] = NoTask
      BY <1>1 DEF X1Inv, TypeOK, Local
    <2>. QED  BY <1>0, <1>1, <1>3, <2>1, <2>2 DEF POILag, Holding, Proc
  <1>8. AgesInOrder'
    BY <1>0, <1>1, <1>3 DEF X1Inv, AgesInOrder, Proc, Holding
  <1>9. DestinationAgreement'
    BY <1>1 DEF DestinationAgreement
  <1>. QED  BY <1>2, <1>4, <1>5, <1>6, <1>7, <1>8, <1>9 DEF X1Inv

(* The POI tears down one removed task, or the last is done.                *)
LEMMA RemovedStep ==
  ASSUME X1Inv, NEW p \in Proc, notifyRemoved(p)
  PROVE  X1Inv'
  <1>. USE DEF notifyRemoved
  <1>0. /\ pc[p] = "removed" /\ pc[p] \in Holding
        /\ UNCHANGED store /\ UNCHANGED destinations
        /\ applied = Store!Snapshot \cup local[p].todo
        /\ \A s \in local[p].todo : byXID[s[1]] = NoTask
    BY DEF Holding, X1Inv, POILag
  <1>1. DestinationAgreement' /\ destinations' \in [DID -> Dest \cup {NoDest}]
    BY <1>0, FrameStore, FrameDestinations DEF X1Inv, TypeOK, DestinationAgreement
  <1>2. ASSUME NEW s \in local[p].todo,
               applied' = applied \ {s},
               local' = [local EXCEPT ![p].todo = @ \ {s}],
               UNCHANGED <<transitionMu, pc, req, answer, arrived>>
        PROVE  X1Inv'
    <2>1. /\ local'[p].todo = local[p].todo \ {s} /\ local' \in [Proc -> Local]
          /\ \A q \in Proc \ {p} : local'[q] = local[q]
      <3>1. local[p] \in Local /\ local[p].todo \ {s} \in SUBSET (XID \X Task)
        BY DEF X1Inv, TypeOK, Local
      <3>2. PICK n : n = [local[p] EXCEPT !.todo = local[p].todo \ {s}]
        OBVIOUS
      <3>3. n \in Local /\ n.todo = local[p].todo \ {s}
        BY <3>1, <3>2 DEF Local
      <3>4. local' = [local EXCEPT ![p] = n]
        BY <1>2, <3>2
      <3>. QED  BY <3>3, <3>4 DEF X1Inv, TypeOK
    <2>2. TypeOK'
      BY <1>0, <1>2, <2>1, FrameStore DEF X1Inv, TypeOK
    <2>3. \A q \in Proc \ {p} : pc[q] \notin Holding
      BY <1>0, OthersOutside
    <2>4. MutualExclusion' /\ RequestsInPlace' /\ AgesInOrder'
      BY <1>0, <1>2, FrameStore
         DEF X1Inv, MutualExclusion, RequestsInPlace, AgesInOrder, RefusedUnlocked
    <2>5. LocalIsCurrent'
      BY <1>0, <1>2, <2>1, <2>3, FrameStore
         DEF X1Inv, LocalIsCurrent, Holding, Proc, store
    <2>6. POILag'
      <3>1. s \notin Store!Snapshot
        BY <1>0 DEF Store!Snapshot, Store!Held
      <3>. QED  BY <1>0, <1>2, <2>1, <2>3, <3>1, FrameStore
                DEF POILag, Holding, Proc, store
    <2>. QED  BY <1>1, <2>2, <2>4, <2>5, <2>6 DEF X1Inv
  <1>3. CASE local[p].todo = {} /\ Unlock(p, "ok") /\ UNCHANGED applied
    <2>1. applied' = Store!Snapshot
      BY <1>0, <1>3
    <2>2. UNCHANGED <<store, lastSeen, quiet, taskAge>>
      OBVIOUS
    <2>. QED  BY <1>0, <1>1, <1>3, <2>1, <2>2, UnlockStep
  <1>. QED  BY <1>2, <1>3
-----------------------------------------------------------------------------
(* The steps that change the destinations.                                  *)

(* A created destination changes what no held task resolves to.             *)
LEMMA CreateStep ==
  ASSUME X1Inv, NEW r \in Request, createDestination(r)
  PROVE  X1Inv'
  <1>. DEFINE did == req[r].did
  <1>. USE DEF createDestination
  <1>0. /\ r \in Proc /\ r # Watchdog /\ pc[r] \in Holding
        /\ pc[r] = "guarded" /\ req[r].op = "createDestination"
    BY X1Assumption DEF Proc, Holding
  <1>1. CASE RefusedCreate(r)
    BY <1>0, <1>1, RefusalStep
  <1>2. CASE ~RefusedCreate(r)
    <2>1. /\ did \in DID /\ req[r].dest \in Dest
          /\ destinations' = [destinations EXCEPT ![did] = req[r].dest]
          /\ Unlock(r, "ok")
      BY <1>0, <1>2, MessageFields DEF X1Inv, TypeOK, RequestsInPlace, RefusedUnlocked
    <2>2. applied = Store!Snapshot
      BY <1>0, OthersOutside DEF X1Inv, POILag, Holding
    <2>3. UNCHANGED store
      OBVIOUS
    <2>4. ASSUME NEW s \in Store!Snapshot, NEW i \in s[2].dids
          PROVE  i # did
      <3>1. CASE Configured[did] = NoDest
        <4>1. resolve(did) = NoDest
          BY <1>2, <3>1 DEF RefusedCreate, resolve
        <4>. QED  BY <4>1 DEF X1Inv, DestinationAgreement, DeliversWhereResolved
      <3>2. CASE ~local[r].guard
        BY <1>0, <3>2 DEF X1Inv, LocalIsCurrent, didReferenced
      <3>. QED  BY <1>2, <3>1, <3>2 DEF RefusedCreate
    <2>5. \A i : i # did => resolve(i)' = resolve(i)
      BY <2>1 DEF resolve, X1Inv, TypeOK
    <2>6. DestinationAgreement'
      BY <2>3, <2>4, <2>5, FrameStore
         DEF X1Inv, DestinationAgreement, DeliversWhereResolved, endpoints
    <2>7. destinations' \in [DID -> Dest \cup {NoDest}]
      BY <2>1 DEF X1Inv, TypeOK
    <2>. QED  BY <1>0, <2>1, <2>2, <2>6, <2>7, UnlockStep
  <1>. QED  BY <1>1, <1>2

(* Removed destinations were used by no held task.                          *)
LEMMA RemoveAllStep ==
  ASSUME X1Inv, NEW r \in Request, removeAllDestinations(r)
  PROVE  X1Inv'
  <1>. USE DEF removeAllDestinations
  <1>0. /\ r \in Proc /\ r # Watchdog /\ pc[r] \in Holding
        /\ pc[r] = "guarded" /\ req[r].op = "removeAllDestinations"
    BY X1Assumption DEF Proc, Holding
  <1>1. CASE local[r].guard
    BY <1>0, <1>1, RefusalStep
  <1>2. CASE ~local[r].guard
    <2>1. destinations' = [i \in DID |-> NoDest] /\ Unlock(r, "ok")
      BY <1>2
    <2>2. applied = Store!Snapshot
      BY <1>0, OthersOutside DEF X1Inv, POILag, Holding
    <2>3. UNCHANGED store
      OBVIOUS
    <2>4. destinationsInUse = {}
      BY <1>0, <1>2 DEF X1Inv, LocalIsCurrent
    <2>5. ASSUME NEW s \in Store!Snapshot, NEW i \in s[2].dids
          PROVE  resolve(i)' = resolve(i)
      <3>1. i \in DID /\ s[2] \in Task
        BY DEF X1Inv, TypeOK, Store!TypeOK, Store!Snapshot, Store!Held, Task
      <3>2. destinations[i] = NoDest
        BY <2>4, <3>1 DEF destinationsInUse, didReferenced
      <3>. QED  BY <2>1, <3>1, <3>2 DEF resolve
    <2>6. DestinationAgreement'
      BY <2>3, <2>5, FrameStore
         DEF X1Inv, DestinationAgreement, DeliversWhereResolved, endpoints
    <2>7. destinations' \in [DID -> Dest \cup {NoDest}]
      BY <2>1
    <2>. QED  BY <1>0, <2>1, <2>2, <2>6, <2>7, UnlockStep
  <1>. QED  BY <1>1, <1>2
-----------------------------------------------------------------------------
(* Time passes for every age alike.                                         *)
LEMMA TickStep ==
  ASSUME X1Inv, Tick
  PROVE  X1Inv'
  <1>. USE DEF Tick
  <1>0. UNCHANGED store /\ UNCHANGED destinations
    OBVIOUS
  <1>1. \A n \in Age : /\ Older(n) \in Age /\ Older(n) >= n
                       /\ \A k \in Age : n >= k => Older(n) >= Older(k)
                       /\ n > Timeout => Older(n) > Timeout
    BY X1Assumption DEF Older, Age
  <1>2. TypeOK'
    BY <1>0, <1>1, FrameStore, X1Assumption DEF X1Inv, TypeOK, Age
  <1>3. MutualExclusion' /\ RequestsInPlace'
    BY DEF X1Inv, MutualExclusion, RequestsInPlace, RefusedUnlocked
  <1>4. LocalIsCurrent'
    BY <1>0, FrameStore, FrameDestinations
       DEF X1Inv, LocalIsCurrent, destinationsInUse, store
  <1>5. POILag'
    BY <1>0, FrameStore DEF X1Inv, POILag, store
  <1>6. AgesInOrder'
    BY <1>0, <1>1, FrameStore DEF X1Inv, TypeOK, AgesInOrder, Store!Held
  <1>7. DestinationAgreement'
    BY <1>0, FrameStore, FrameDestinations DEF X1Inv, DestinationAgreement
  <1>. QED  BY <1>2, <1>3, <1>4, <1>5, <1>6, <1>7 DEF X1Inv
-----------------------------------------------------------------------------
(* X1Inv is inductive: every step of every goroutine, of the watchdog and   *)
(* of time keeps it.                                                        *)
LEMMA X1InvStep == X1Inv /\ [Next]_vars => X1Inv'
  <1>. SUFFICES ASSUME X1Inv, [Next]_vars PROVE X1Inv'
    OBVIOUS
  <1>0. Watchdog \in Proc /\ Request \subseteq Proc
    BY DEF Proc
  <1>1. ASSUME NEW r \in Request, Receive(r) \/ RequestStep(r)
        PROVE  X1Inv'
    BY <1>0, <1>1, ReceiveStep, UnlockedStep, LockStep, TransitionStep, ActivateStep,
       ChangedStep, DeactivateStep, SnapshotStep, ClearStep, RemovedStep, GuardStep,
       CreateStep, RemoveAllStep
       DEF RequestStep
  <1>2. CASE WatchdogStep
    BY <1>0, <1>2, FirstLookStep, LockStep, AbandonStep, SnapshotStep, ClearStep,
       RemovedStep
       DEF WatchdogStep
  <1>3. CASE Tick
    BY <1>3, TickStep
  <1>4. CASE UNCHANGED vars
    <2>1. UNCHANGED store /\ UNCHANGED destinations
      BY <1>4 DEF vars, store
    <2>2. TypeOK' /\ MutualExclusion' /\ RequestsInPlace' /\ AgesInOrder'
      BY <1>4, <2>1, FrameStore
         DEF vars, X1Inv, TypeOK, MutualExclusion, RequestsInPlace, AgesInOrder,
             RefusedUnlocked
    <2>3. LocalIsCurrent' /\ POILag' /\ DestinationAgreement'
      BY <1>4, <2>1, FrameStore, FrameDestinations
         DEF vars, X1Inv, LocalIsCurrent, POILag, DestinationAgreement,
             destinationsInUse
    <2>. QED  BY <2>2, <2>3 DEF X1Inv
  <1>. QED  BY <1>1, <1>2, <1>3, <1>4 DEF Next

(* The initial state satisfies the invariant.                               *)
LEMMA X1InvInit == Init => X1Inv
  <1>. SUFFICES ASSUME Init PROVE X1Inv
    OBVIOUS
  <1>. USE DEF Init, Store!Init
  <1>1. Store!Held = {} /\ Store!Snapshot = {}
    BY DEF Store!Held, Store!Snapshot
  <1>2. TypeOK
    BY X1Assumption, NoLocalType DEF TypeOK, Store!TypeOK, Locations, Age
  <1>3. MutualExclusion /\ RequestsInPlace
    BY X1Assumption DEF MutualExclusion, RequestsInPlace, Holding, Proc
  <1>4. LocalIsCurrent /\ POILag
    BY <1>1 DEF LocalIsCurrent, POILag, Proc
  <1>5. AgesInOrder /\ DestinationAgreement
    BY <1>1 DEF AgesInOrder, DestinationAgreement, Proc
  <1>. QED  BY <1>2, <1>3, <1>4, <1>5 DEF X1Inv

(* The server's variables keep their types, transitionMu admits one holder, *)
(* and what the holder read is still true when it acts on it, for any       *)
(* number of concurrent requests.                                           *)
THEOREM X1Invariant == Spec => []X1Inv
  BY X1InvInit, X1InvStep, PTL DEF Spec

(* The invariant says it of the POI at rest.                                *)
LEMMA AtRest == X1Inv => POIMirrorsStore
  BY X1Assumption DEF X1Inv, POIMirrorsStore, MutualExclusion, POILag, Holding

(* No interception outlives or lacks its task: whenever no transition is in *)
(* progress the POI applies exactly what the store holds, whatever          *)
(* activations, withdrawals and purges have raced.                          *)
THEOREM POIMirrors == Spec => []POIMirrorsStore
  BY AtRest, X1Invariant, PTL

(* Every held task delivers to the destinations its DIDs resolve to now,    *)
(* through every order of activations, CreateDestination and                *)
(* RemoveAllDestinations.                                                   *)
THEOREM DestinationsAgree == Spec => []DestinationAgreement
  <1>1. X1Inv => DestinationAgreement
    BY DEF X1Inv
  <1>. QED  BY <1>1, X1Invariant, PTL

(* The keepalive purge removes no task whose message arrived within the     *)
(* window, for every window.                                                *)
THEOREM LapseSpares == Spec => LapseSparesFreshTasks
  <1>1. X1Inv /\ [Next]_vars =>
          [clearForPurge(Watchdog) => \A x \in Store!Held : taskAge[x] > Timeout]_vars
    BY DEF X1Inv, AgesInOrder, clearForPurge
  <1>. QED  BY <1>1, X1Invariant, PTL DEF Spec, LapseSparesFreshTasks

(* A request's own step that answers ok leaves done what was asked for.     *)
LEMMA AnswerStep ==
  ASSUME X1Inv, POIMirrorsStore', NEW r \in Request, RequestStep(r),
         NEW m, m = req[r], answer[r] # "ok", answer'[r] = "ok"
  PROVE  Done(m)'
  <1>0. /\ r \in Proc /\ r # Watchdog /\ answer \in [Request -> {"none", "ok", "refused"}]
        /\ transitionMu' = NoProc => applied' = Store!Snapshot'
    BY X1Assumption DEF Proc, X1Inv, TypeOK, POIMirrorsStore
  <1>1. CASE applyUnlocked(r)
    <2>1. m.op = "query"
      BY <1>0, <1>1 DEF applyUnlocked, Answer
    <2>. QED  BY <2>1 DEF Done
  <1>2. CASE notifyChanged(r)
    <2>1. /\ m.op \in {"activate", "modify"} /\ m.xid \in XID
          /\ byXID[m.xid] # NoTask
          /\ byXID[m.xid].targets = m.details.targets
          /\ byXID[m.xid].dids = m.details.dids
      BY <1>2 DEF notifyChanged, X1Inv, RequestsInPlace, LocalIsCurrent
    <2>2. byXID' = byXID /\ applied' = Store!Snapshot'
      BY <1>0, <1>2 DEF notifyChanged, Unlock, store
    <2>3. {a \in applied' : a[1] = m.xid} = {<<m.xid, byXID'[m.xid]>>}
      BY <2>1, <2>2 DEF Store!Snapshot, Store!Held
    <2>. QED  BY <2>1, <2>2, <2>3 DEF Done
  <1>3. CASE notifyRemoved(r)
    <2>1. /\ m.op \in {"deactivate", "deactivateAll"}
          /\ IF m.op = "deactivate" THEN byXID[m.xid] = NoTask ELSE Store!Held = {}
      BY <1>3 DEF notifyRemoved, X1Inv, RequestsInPlace, LocalIsCurrent
    <2>2. byXID' = byXID /\ applied' = Store!Snapshot'
      BY <1>0, <1>3 DEF notifyRemoved, Unlock, store
    <2>. QED  BY <2>1, <2>2 DEF Done, Store!Snapshot, Store!Held
  <1>4. CASE createDestination(r)
    <2>1. m.op = "createDestination" /\ m.did \in DID /\ m.dest \in Dest
      BY <1>4, MessageFields
         DEF createDestination, X1Inv, TypeOK, RequestsInPlace, RefusedUnlocked, Holding
    <2>2. destinations' = [destinations EXCEPT ![m.did] = m.dest]
      BY <1>0, <1>4 DEF createDestination, Unlock, Answer
    <2>3. destinations'[m.did] = m.dest /\ m.dest # NoDest
      BY <2>1, <2>2, X1Assumption DEF X1Inv, TypeOK
    <2>. QED  BY <2>1, <2>3 DEF Done, resolve
  <1>5. CASE removeAllDestinations(r)
    <2>1. m.op = "removeAllDestinations" /\ destinations' = [did \in DID |-> NoDest]
      BY <1>0, <1>5 DEF removeAllDestinations, Unlock, Answer
    <2>. QED  BY <2>1 DEF Done
  <1>6. CASE \/ lockTransition(r) \/ applyTaskTransition(r) \/ activate(r) \/ deactivate(r)
             \/ snapshotForPurge(r) \/ clearForPurge(r) \/ guardDestination(r)
    BY <1>0, <1>6
       DEF lockTransition, applyTaskTransition, activate, deactivate, snapshotForPurge,
           clearForPurge, guardDestination, Unlock, Answer
  <1>. QED  BY <1>1, <1>2, <1>3, <1>4, <1>5, <1>6 DEF RequestStep

(* Nobody but the goroutine itself answers ok for it.                       *)
LEMMA OwnAnswer ==
  ASSUME X1Inv, [Next]_vars, NEW r \in Request, answer[r] # "ok", answer'[r] = "ok"
  PROVE  RequestStep(r)
  <1>0. answer \in [Request -> {"none", "ok", "refused"}] /\ Watchdog \notin Request
    BY X1Assumption DEF X1Inv, TypeOK
  <1>1. ASSUME NEW q \in Request, Receive(q) PROVE FALSE
    BY <1>0, <1>1 DEF Receive, applyAuthenticated, refuseUnauthenticated
  <1>2. ASSUME NEW q \in Request, RequestStep(q), q # r PROVE FALSE
    <2>1. \A a : Unlock(q, a) \/ Answer(q, a) => answer'[r] = answer[r]
      BY <1>0, <1>2 DEF Unlock, Answer
    <2>. QED  BY <1>2, <2>1
       DEF RequestStep, applyUnlocked, lockTransition, applyTaskTransition, activate,
           notifyChanged, deactivate, snapshotForPurge, clearForPurge, notifyRemoved,
           guardDestination, createDestination, removeAllDestinations
  <1>3. CASE WatchdogStep
    BY <1>0, <1>3
       DEF WatchdogStep, purgeIfLapsed, lockTransition, abandonPurge, snapshotForPurge,
           clearForPurge, notifyRemoved, Unlock
  <1>4. CASE Tick \/ UNCHANGED vars
    BY <1>4 DEF Tick, vars
  <1>. QED  BY <1>1, <1>2, <1>3, <1>4 DEF Next

(* An acknowledgement is true when it is given, whatever else is running:   *)
(* what the ADMF is told of its warrant holds in the store and at the POI.  *)
THEOREM AcknowledgementsHold == Spec => AcknowledgedIsDone
  <1>1. ASSUME X1Inv, POIMirrorsStore', [Next]_vars, NEW r \in Request, NEW m \in {req[r]},
               answer[r] # "ok", answer'[r] = "ok"
        PROVE  Done(m)'
    BY <1>1, OwnAnswer, AnswerStep
  <1>2. X1Inv /\ POIMirrorsStore' /\ [Next]_vars =>
          [\A r \in Request : \A m \in {req[r]} :
             answer[r] # "ok" /\ answer'[r] = "ok" => Done(m)']_vars
    BY <1>1
  <1>. QED  BY <1>2, X1Invariant, POIMirrors, PTL DEF Spec, AcknowledgedIsDone
-----------------------------------------------------------------------------
(* The store under concurrent requests.                                     *)

(* Every step of a goroutine is a step of the store or leaves it alone; a   *)
(* task that is activated is one the store may hold, under an XID.          *)
LEMMA StoreStep ==
  ASSUME X1Inv, [Next]_vars
  PROVE  [Store!Next]_Store!storeVars
  <1>. USE DEF Store!storeVars
  <1>1. ASSUME NEW r \in Request, activate(r)
        PROVE  Store!Next
    <2>1. req[r].xid \in XID /\ local[r].task \in Task
      BY <1>1 DEF activate, X1Inv, RequestsInPlace, LocalIsCurrent
    <2>2. Store!Activate(req[r].xid, local[r].task)
      BY <1>1 DEF activate
    <2>. QED  BY <2>1, <2>2 DEF Store!Next
  <1>2. ASSUME NEW r \in Request, deactivate(r)
        PROVE  [Store!Next]_Store!storeVars
    <2>1. CASE Store!Deactivate(req[r].xid)
      <3>1. req[r].xid \in XID
        BY <2>1 DEF Store!Deactivate, Store!Held
      <3>. QED  BY <2>1, <3>1 DEF Store!Next
    <2>2. CASE UNCHANGED store
      BY <2>2 DEF store
    <2>. QED  BY <1>2, <2>1, <2>2 DEF deactivate
  <1>3. ASSUME NEW p \in Proc, clearForPurge(p)
        PROVE  Store!Next
    BY <1>3 DEF clearForPurge, Store!Next
  <1>4. ASSUME NEW r \in Request, Receive(r)
        PROVE  UNCHANGED Store!storeVars
    BY <1>4 DEF Receive, applyAuthenticated, refuseUnauthenticated, store
  <1>5. ASSUME NEW r \in Request, RequestStep(r)
        PROVE  [Store!Next]_Store!storeVars
    <2>1. r \in Proc
      BY DEF Proc
    <2>2. CASE \/ applyUnlocked(r) \/ lockTransition(r) \/ applyTaskTransition(r)
               \/ notifyChanged(r) \/ snapshotForPurge(r) \/ notifyRemoved(r)
               \/ guardDestination(r) \/ createDestination(r) \/ removeAllDestinations(r)
      BY <2>2 DEF applyUnlocked, lockTransition, applyTaskTransition, notifyChanged,
                  snapshotForPurge, notifyRemoved, guardDestination, createDestination,
                  removeAllDestinations, store
    <2>. QED  BY <1>1, <1>2, <1>3, <1>5, <2>1, <2>2 DEF RequestStep
  <1>6. CASE WatchdogStep
    <2>1. Watchdog \in Proc
      BY DEF Proc
    <2>2. CASE \/ purgeIfLapsed \/ lockTransition(Watchdog) \/ abandonPurge
               \/ snapshotForPurge(Watchdog) \/ notifyRemoved(Watchdog)
      BY <2>2 DEF purgeIfLapsed, lockTransition, abandonPurge, snapshotForPurge,
                  notifyRemoved, store
    <2>. QED  BY <1>3, <1>6, <2>1, <2>2 DEF WatchdogStep
  <1>7. CASE Tick
    BY <1>7 DEF Tick, store
  <1>8. CASE UNCHANGED vars
    BY <1>8 DEF vars
  <1>. QED  BY <1>4, <1>5, <1>6, <1>7, <1>8 DEF Next

(* Whatever requests, purges and the fail-safe race, the store sees one of  *)
(* its own histories: the server never gives it a task it may not hold or   *)
(* an XID it must refuse, though what is activated was made several steps   *)
(* before it is stored.                                                     *)
THEOREM ServerImplementsStore == Spec => Store!Spec
  <1>1. Init => Store!Init
    BY DEF Init
  <1>2. X1Inv /\ [Next]_vars => [Store!Next]_Store!storeVars
    BY StoreStep
  <1>. QED  BY <1>1, <1>2, X1Invariant, PTL DEF Spec, Store!Spec

(* Every step of the store keeps its index exact.                           *)
LEMMA IndexStep ==
  ASSUME Store!TypeOK, Store!IndexExact, [Store!Next]_Store!storeVars
  PROVE  Store!IndexExact'
  <1>1. ASSUME NEW x \in XID, NEW id \in Target
        PROVE  Store!unindex(x)[id] = byTarget[id] \ {x}
    <2>1. CASE id \in Store!IndexedTargets(x)
      BY <2>1 DEF Store!unindex
    <2>2. CASE id \notin Store!IndexedTargets(x)
      <3>1. x \notin byTarget[id]
        BY <2>2 DEF Store!IndexExact, Store!Held, Store!IndexedTargets
      <3>. QED  BY <2>2, <3>1 DEF Store!unindex
    <2>. QED  BY <2>1, <2>2
  <1>2. ASSUME NEW x \in XID \cup {EmptyXID}, NEW t \in Task, Store!Activate(x, t)
        PROVE  Store!IndexExact'
    <2>1. x \in XID /\ t # NoTask /\ byXID' = [byXID EXCEPT ![x] = t]
      BY <1>2, X1Assumption DEF Store!Activate
    <2>2. \A id \in Target : byTarget'[id] = (byTarget[id] \ {x}) \cup
                                             (IF id \in t.targets THEN {x} ELSE {})
      BY <1>1, <1>2, <2>1 DEF Store!Activate
    <2>3. Store!Held' = Store!Held \cup {x}
      BY <2>1 DEF Store!Held, Store!TypeOK
    <2>4. ASSUME NEW id \in Target
          PROVE  byTarget'[id] = {y \in Store!Held' : id \in byXID'[y].targets}
      <3>1. byTarget[id] = {y \in Store!Held : id \in byXID[y].targets}
        BY DEF Store!IndexExact
      <3>2. \A y \in XID : byXID'[y] = IF y = x THEN t ELSE byXID[y]
        BY <2>1 DEF Store!TypeOK
      <3>3. Store!Held \subseteq XID
        BY DEF Store!Held
      <3>. QED  BY <2>1, <2>2, <2>3, <3>1, <3>2, <3>3
    <2>. QED  BY <2>4 DEF Store!IndexExact
  <1>3. ASSUME NEW x \in XID, Store!Deactivate(x)
        PROVE  Store!IndexExact'
    <2>1. byXID' = [byXID EXCEPT ![x] = NoTask]
      BY <1>3 DEF Store!Deactivate
    <2>2. \A id \in Target : byTarget'[id] = byTarget[id] \ {x}
      BY <1>1, <1>3 DEF Store!Deactivate
    <2>3. \A y \in XID : byXID'[y] = IF y = x THEN NoTask ELSE byXID[y]
      BY <2>1 DEF Store!TypeOK
    <2>. QED  BY <2>2, <2>3 DEF Store!IndexExact, Store!Held
  <1>4. CASE Store!DeactivateAll
    BY <1>4 DEF Store!DeactivateAll, Store!IndexExact, Store!Held
  <1>5. CASE UNCHANGED Store!storeVars
    BY <1>5 DEF Store!storeVars, Store!IndexExact, Store!Held
  <1>. QED  BY <1>2, <1>3, <1>4, <1>5 DEF Store!Next

(* At every step of every transition, also inside one, traffic is matched   *)
(* against exactly the tasks the element holds: a ModifyTask or a purge     *)
(* under way never shows a point of interception the index of one task and  *)
(* the criteria of another.                                                 *)
THEOREM MatchIsExactUnderWay == Spec => []Store!MatchExact
  <1>1. Init => Store!IndexExact
    BY DEF Init, Store!Init, Store!IndexExact, Store!Held
  <1>2. X1Inv => Store!TypeOK
    BY DEF X1Inv, TypeOK
  <1>3. X1Inv /\ Store!IndexExact /\ [Next]_vars => Store!IndexExact'
    BY <1>2, StoreStep, IndexStep
  <1>4. Store!IndexExact => Store!MatchExact
    BY DEF Store!IndexExact, Store!MatchExact, Store!Match, Store!Snapshot, Store!Held
  <1>. QED  BY <1>1, <1>3, <1>4, X1Invariant, PTL DEF Spec
=============================================================================
