----------------------------- MODULE PoolProofs -----------------------------
(***************************************************************************)
(* For any number of addresses, callers, closers and units, and any queue  *)
(* depth and batch size: a pool and its senders never send on a closed     *)
(* channel, account for every unit, close each client once and after the   *)
(* drain, leave no sender without an owner, report success only for a      *)
(* complete teardown, and each sender is a delivery queue.                 *)
(***************************************************************************)
EXTENDS Pool, FiniteSetTheorems, SequenceTheorems, TLAPS

-----------------------------------------------------------------------------
(* The inductive invariant.                                                *)
-----------------------------------------------------------------------------
(* The worker and the teardown of a sender go through their stages in      *)
(* step: the channel closes with the flag, the worker ends on a closed and *)
(* empty channel, and the client is closed after the worker ended.         *)
Lifecycle ==
    \A a \in Addr :
        /\ worker[a] \in {"none", "range", "done"} => batch[a] = <<>>
        /\ worker[a] = "done" => closed[a] /\ queue[a] = <<>>
        /\ closed[a] <=> closeOnce[a] \in {"wait", "done"}
        /\ closeOnce[a] = "done" => worker[a] = "done"
        /\ innerCloses[a] = IF closeOnce[a] = "done" THEN 1 ELSE 0
        /\ \A g \in Goroutine : closing[a][g] = "returned" => closeOnce[a] = "done"

(* Before its Close a pool holds every sender and no closer holds any;     *)
(* after it the map is empty and a sender has one closer, that of the one  *)
(* Close that found the map filled.                                        *)
Ownership ==
    /\ \A p \in Closer : poolClose[p] = "idle" => mine[p] = {}
    /\ ~poolClosed => senders = Built /\ \A p \in Closer : mine[p] = {}
    /\ poolClosed => /\ senders = {}
                     /\ \A a \in Built : \E p \in Closer : a \in mine[p]
    /\ \A a \in Addr : \A p, q \in Closer : a \in mine[p] /\ a \in mine[q] => p = q

(* What a closer has collected was torn down, without an error if the      *)
(* closer has none; a closer that returned without an error collected all. *)
Collected ==
    \A p \in Closer :
        /\ \A a \in collected[p] : /\ closing[a]["pool"] = "returned"
                                   /\ firstErr[p] = "nil" => ~closeErr[a]
        /\ poolClose[p] = "returned" /\ firstErr[p] = "nil" => mine[p] = collected[p]

(* Everything a sender ever accepted, in the order it accepted it.         *)
Trail == [a \in Addr |-> handed[a] \o batch[a] \o queue[a]]

(* The units whose Send has returned.                                      *)
Returned(u) == u[2] <= offered[u[1]] /\ ~(send[u[1]] # Idle /\ u[2] = offered[u[1]])

(* A unit is in at most one place of one trail, and only after its Send    *)
(* returned; it was dropped at most once, and not if it is in a trail; and *)
(* a unit whose Send returned is in one or the other.                      *)
Accounts ==
    /\ \A c \in Caller : send[c] # Idle => send[c].unit = <<c, offered[c]>>
    /\ \A u \in Unit : \A a \in Addr : \A i \in 1..Len(Trail[a]) :
          Trail[a][i] = u => Returned(u) /\ dropped[u] = 0
    /\ \A a, b \in Addr : \A i \in 1..Len(Trail[a]), j \in 1..Len(Trail[b]) :
          Trail[a][i] = Trail[b][j] => a = b /\ i = j
    /\ \A u \in Unit : dropped[u] \in {0, 1} /\ (dropped[u] = 1 => Returned(u))
    /\ \A u \in Unit : Returned(u) /\ dropped[u] = 0 =>
          \E a \in Addr : \E i \in 1..Len(Trail[a]) : Trail[a][i] = u

PoolInv == TypeOK /\ Lifecycle /\ NoSendOnClosedChannel /\ Ownership /\ Collected /\ Accounts

(* A caller's next unit is a unit as long as it may offer one. *)
LEMMA NextUnitIsUnit ==
  ASSUME TypeOK, NEW c \in Caller, offered[c] < MaxOffers
  PROVE  NextUnit(c) \in Unit /\ offered[c] + 1 \in 0..MaxOffers
BY SenderAssumption DEF TypeOK, SenderTypeOK, NextUnit, Unit

(* What a caller inside Send has in hand. *)
LEMMA InSend ==
  ASSUME TypeOK, NEW c \in Caller, send[c].at \in {"offer", "drop"}
  PROVE  /\ send[c] \in [at : {"offer", "drop"}, to : Addr, unit : Unit]
         /\ send[c].to \in Addr /\ send[c].unit \in Unit /\ send[c] # Idle
<1>1. send[c] \in SendState
  BY DEF TypeOK, SenderTypeOK
<1>2. Idle.at = "idle"
  BY DEF Idle
<1>3. send[c] # Idle
  BY <1>2
<1>4. QED
  BY <1>1, <1>3 DEF SendState

-----------------------------------------------------------------------------
(* Types.                                                                  *)
-----------------------------------------------------------------------------
(* Initially every variable has its type. *)
LEMMA InitType == Init => TypeOK
<1> SUFFICES ASSUME Init PROVE TypeOK
  OBVIOUS
<1>1. \A a \in Addr : Len(queue[a]) <= Depth /\ Len(batch[a]) <= MaxBatch
  BY SenderAssumption, EmptySeq DEF Init, SenderInit
<1>2. queue \in [Addr -> Seq(Unit)] /\ batch \in [Addr -> Seq(Unit)]
      /\ handed \in [Addr -> Seq(Unit)]
  BY EmptySeq DEF Init, SenderInit
<1>3. send \in [Caller -> SendState] /\ offered \in [Caller -> 0..MaxOffers]
      /\ dropped \in [Unit -> Nat]
  BY SenderAssumption DEF Init, SenderInit, SendState
<1>4. QED
  BY <1>1, <1>2, <1>3 DEF Init, SenderInit, TypeOK, SenderTypeOK, NoSender

(* The steps of a caller keep the types. *)
LEMMA CallerType ==
  ASSUME TypeOK, NEW c \in Caller, CallerStep(c) \/ SendHeld(c) \/ SendDiscard(c)
  PROVE  TypeOK'
<1>1. CASE enqueue(c) /\ UNCHANGED poolVars
  <2>1. send[c] \in [at : {"offer", "drop"}, to : Addr, unit : Unit] /\ send[c].to \in Addr
    BY <1>1, InSend DEF enqueue
  <2> DEFINE a == send[c].to
  <2>2. CASE Len(queue[a]) < Depth
    <3>1. /\ queue' = [queue EXCEPT ![a] = Append(@, send[c].unit)]
          /\ send' = [send EXCEPT ![c] = Idle]
      BY <1>1, <2>2 DEF enqueue, offer
    <3>2. Append(queue[a], send[c].unit) \in Seq(Unit)
          /\ Len(Append(queue[a], send[c].unit)) <= Depth
      <4>1. queue[a] \in Seq(Unit) /\ send[c].unit \in Unit
        BY <2>1 DEF TypeOK, SenderTypeOK
      <4>2. QED
        BY <2>2, <4>1, AppendProperties, LenProperties, SenderAssumption
    <3> HIDE DEF a
    <3>3. queue' \in [Addr -> Seq(Unit)] /\ \A b \in Addr : Len(queue'[b]) <= Depth
      BY <2>1, <3>1, <3>2 DEF TypeOK, SenderTypeOK, a
    <3>4. send' \in [Caller -> SendState]
      BY <3>1 DEF TypeOK, SenderTypeOK, SendState
    <3>5. QED
      BY <1>1, <3>3, <3>4 DEF TypeOK, SenderTypeOK, enqueue, poolVars, Built
  <2>3. CASE ~(Len(queue[a]) < Depth)
    <3>1. send' = [send EXCEPT ![c].at = "drop"] /\ UNCHANGED queue
      BY <1>1, <2>3 DEF enqueue, offer
    <3>2. [send[c] EXCEPT !.at = "drop"] \in SendState
      BY <2>1 DEF SendState
    <3>3. send' \in [Caller -> SendState]
      BY <3>1, <3>2 DEF TypeOK, SenderTypeOK
    <3>4. QED
      BY <1>1, <3>1, <3>3 DEF TypeOK, SenderTypeOK, enqueue, poolVars
  <2>4. QED
    BY <2>2, <2>3
<1>2. CASE onDrop(c) /\ UNCHANGED poolVars
  <2>1. send[c].unit \in Unit
    BY <1>2, InSend DEF onDrop
  <2>2. send' \in [Caller -> SendState] /\ dropped' \in [Unit -> Nat]
    BY <1>2, <2>1 DEF TypeOK, SenderTypeOK, onDrop, SendState
  <2>3. QED
    BY <1>2, <2>2 DEF TypeOK, SenderTypeOK, onDrop, poolVars
<1>3. CASE SendHeld(c)
  <2>1. ref[c] \in Addr /\ offered[c] < MaxOffers
    BY <1>3 DEF SendHeld, Send
  <2>2. NextUnit(c) \in Unit /\ offered[c] + 1 \in 0..MaxOffers
    BY <2>1, NextUnitIsUnit
  <2>3. [at |-> IF closed[ref[c]] THEN "drop" ELSE "offer", to |-> ref[c],
         unit |-> NextUnit(c)] \in SendState
    BY <2>1, <2>2 DEF SendState
  <2>4. send' \in [Caller -> SendState]
    BY <1>3, <2>3 DEF TypeOK, SenderTypeOK, SendHeld, Send
  <2>5. offered' \in [Caller -> 0..MaxOffers]
    BY <1>3, <2>2 DEF TypeOK, SenderTypeOK, SendHeld, Send
  <2>6. QED
    BY <1>3, <2>4, <2>5 DEF TypeOK, SenderTypeOK, SendHeld, Send, poolVars
<1>4. CASE SendDiscard(c)
  <2>1. NextUnit(c) \in Unit /\ offered[c] + 1 \in 0..MaxOffers
    BY <1>4, NextUnitIsUnit DEF SendDiscard
  <2>2. offered' \in [Caller -> 0..MaxOffers] /\ dropped' \in [Unit -> Nat]
    BY <1>4, <2>1 DEF TypeOK, SenderTypeOK, SendDiscard
  <2>3. QED
    BY <1>4, <2>2 DEF TypeOK, SenderTypeOK, SendDiscard, poolVars
<1>5. QED
  BY <1>1, <1>2, <1>3, <1>4 DEF CallerStep

(* The steps of a worker keep the types: a batch grows up to MaxBatch and  *)
(* only by units.                                                          *)
LEMMA WorkerType ==
  ASSUME TypeOK, NEW a \in Addr, Worker(a), UNCHANGED poolVars
  PROVE  TypeOK'
<1>1. queue[a] \in Seq(Unit) /\ batch[a] \in Seq(Unit) /\ handed[a] \in Seq(Unit)
      /\ Len(queue[a]) <= Depth /\ Len(batch[a]) <= MaxBatch
  BY DEF TypeOK, SenderTypeOK
<1>2. queue[a] # <<>> => /\ Head(queue[a]) \in Unit
                         /\ Tail(queue[a]) \in Seq(Unit)
                         /\ Len(Tail(queue[a])) <= Depth
  BY <1>1, HeadTailProperties, LenProperties, SenderAssumption
<1>3. CASE receive(a)
  <2>1. <<Head(queue[a])>> \in Seq(Unit) /\ Len(<<Head(queue[a])>>) <= MaxBatch
    BY <1>2, <1>3, SenderAssumption DEF receive
  <2>2. batch' \in [Addr -> Seq(Unit)] /\ \A b \in Addr : Len(batch'[b]) <= MaxBatch
    BY <1>3, <2>1 DEF TypeOK, SenderTypeOK, receive
  <2>3. queue' \in [Addr -> Seq(Unit)] /\ \A b \in Addr : Len(queue'[b]) <= Depth
    BY <1>2, <1>3 DEF TypeOK, SenderTypeOK, receive
  <2>4. QED
    BY <1>3, <2>2, <2>3 DEF TypeOK, SenderTypeOK, receive, poolVars
<1>4. CASE drainMore(a)
  <2>1. Append(batch[a], Head(queue[a])) \in Seq(Unit)
        /\ Len(Append(batch[a], Head(queue[a]))) <= MaxBatch
    BY <1>1, <1>2, <1>4, AppendProperties, LenProperties, SenderAssumption
       DEF drainMore, drain
  <2>2. batch' \in [Addr -> Seq(Unit)] /\ \A b \in Addr : Len(batch'[b]) <= MaxBatch
    BY <1>4, <2>1 DEF TypeOK, SenderTypeOK, drainMore, drain
  <2>3. queue' \in [Addr -> Seq(Unit)] /\ \A b \in Addr : Len(queue'[b]) <= Depth
    BY <1>2, <1>4 DEF TypeOK, SenderTypeOK, drainMore, drain
  <2>4. QED
    BY <1>4, <2>2, <2>3 DEF TypeOK, SenderTypeOK, drainMore, poolVars
<1>5. CASE drainEnds(a)
  BY <1>5 DEF TypeOK, SenderTypeOK, drainEnds, poolVars
<1>6. CASE sendBatch(a)
  <2>1. handed[a] \o batch[a] \in Seq(Unit)
    BY <1>1, ConcatProperties
  <2>2. handed' \in [Addr -> Seq(Unit)]
    BY <1>6, <2>1 DEF TypeOK, SenderTypeOK, sendBatch
  <2>3. batch' \in [Addr -> Seq(Unit)] /\ \A b \in Addr : Len(batch'[b]) <= MaxBatch
    BY <1>6, EmptySeq, SenderAssumption DEF TypeOK, SenderTypeOK, sendBatch
  <2>4. QED
    BY <1>6, <2>2, <2>3 DEF TypeOK, SenderTypeOK, sendBatch, poolVars
<1>7. CASE workerDone(a)
  BY <1>7 DEF TypeOK, SenderTypeOK, workerDone, poolVars
<1>8. QED
  BY <1>3, <1>4, <1>5, <1>6, <1>7 DEF Worker

(* The steps of a sender's Close keep the types. *)
LEMMA CloseType ==
  ASSUME TypeOK, NEW a \in Addr,
         Teardown(a) \/ (\E g \in Goroutine : Close(a, g)), UNCHANGED poolVars
  PROVE  TypeOK'
<1>1. CASE closeQueue(a)
  BY <1>1 DEF TypeOK, SenderTypeOK, closeQueue, poolVars
<1>2. CASE closeInner(a)
  BY <1>2 DEF TypeOK, SenderTypeOK, closeInner, poolVars
<1>3. ASSUME NEW g \in Goroutine, CloseReturn(a, g)
      PROVE  TypeOK'
  BY <1>3 DEF TypeOK, SenderTypeOK, CloseReturn, closeReturns, poolVars
<1>4. ASSUME NEW g \in Goroutine, Close(a, g)
      PROVE  TypeOK'
  BY <1>4 DEF TypeOK, SenderTypeOK, Close, poolVars
<1>5. QED
  BY <1>1, <1>2, <1>3, <1>4 DEF Teardown

(* The steps of the pool keep the types. *)
LEMMA ForType ==
  ASSUME TypeOK, NEW c \in Caller, NEW a \in Addr, For(c, a)
  PROVE  TypeOK'
<1>1. ref' \in [Caller -> Addr \union {NoSender, discardSender}] /\ senders' \subseteq Addr
  BY DEF TypeOK, For, buildSender
<1>2. worker' \in [Addr -> {"none", "range", "drain", "send", "done"}]
  BY DEF TypeOK, SenderTypeOK, For, buildSender, NewAsyncSender
<1>3. QED
  BY <1>1, <1>2 DEF TypeOK, SenderTypeOK, For

(* The steps of a pool's Close keep the types. *)
LEMMA CloserType ==
  ASSUME TypeOK, Ownership, NEW p \in Closer, PoolClose(p) \/ CloserStep(p)
  PROVE  TypeOK'
<1>1. CASE PoolClose(p)
  <2>1. \A q \in Closer : collected'[q] \subseteq mine'[q]
    BY <1>1 DEF TypeOK, Ownership, PoolClose, takeSenders
  <2>2. QED
    BY <1>1, <2>1 DEF TypeOK, SenderTypeOK, PoolClose, takeSenders, senderVars
<1>2. CASE PoolCloseReturn(p)
  BY <1>2 DEF TypeOK, SenderTypeOK, PoolCloseReturn, deadline, senderVars
<1>3. ASSUME NEW a \in Addr, Collect(p, a)
      PROVE  TypeOK'
  BY <1>3 DEF TypeOK, SenderTypeOK, Collect, senderVars
<1>4. QED
  BY <1>1, <1>2, <1>3 DEF CloserStep

-----------------------------------------------------------------------------
(* The life of a sender.                                                   *)
-----------------------------------------------------------------------------
(* The steps of a caller keep the stages in step: it adds to a queue only  *)
(* while the channel is open, when the worker has not ended.               *)
LEMMA CallerLifecycle ==
  ASSUME TypeOK, Lifecycle, NoSendOnClosedChannel, NEW c \in Caller,
         CallerStep(c) \/ SendHeld(c) \/ SendDiscard(c)
  PROVE  Lifecycle' /\ NoSendOnClosedChannel'
<1>1. CASE enqueue(c) /\ UNCHANGED poolVars
  <2>1. send[c].to \in Addr /\ ~closed[send[c].to]
    BY <1>1, InSend DEF enqueue, NoSendOnClosedChannel
  <2>2. worker[send[c].to] # "done"
    BY <2>1 DEF Lifecycle
  <2>3. \A a \in Addr : worker[a] = "done" => queue'[a] = queue[a]
    BY <1>1, <2>1, <2>2 DEF enqueue, offer, TypeOK, SenderTypeOK
  <2>4. Lifecycle'
    BY <1>1, <2>3 DEF enqueue, Lifecycle
  <2>5. \A d \in Caller : send'[d].at = "offer" => send[d] = send'[d]
    <3>1. send' = [send EXCEPT ![c] = Idle] \/ send' = [send EXCEPT ![c].at = "drop"]
      BY <1>1 DEF enqueue, offer
    <3>2. send[c] \in [at : {"offer", "drop"}, to : Addr, unit : Unit]
      BY <1>1, InSend DEF enqueue
    <3>3. send'[c].at # "offer"
      BY <3>1, <3>2 DEF TypeOK, SenderTypeOK, Idle
    <3>4. \A d \in Caller : d # c => send'[d] = send[d]
      BY <3>1 DEF TypeOK, SenderTypeOK
    <3>5. QED
      BY <3>3, <3>4
  <2>6. QED
    BY <1>1, <2>4, <2>5 DEF enqueue, NoSendOnClosedChannel
<1>2. CASE onDrop(c) /\ UNCHANGED poolVars
  BY <1>2 DEF onDrop, Lifecycle, NoSendOnClosedChannel, TypeOK, SenderTypeOK, Idle
<1>3. CASE SendHeld(c)
  BY <1>3 DEF SendHeld, Send, Lifecycle, NoSendOnClosedChannel, TypeOK, SenderTypeOK
<1>4. CASE SendDiscard(c)
  BY <1>4 DEF SendDiscard, Lifecycle, NoSendOnClosedChannel
<1>5. QED
  BY <1>1, <1>2, <1>3, <1>4 DEF CallerStep

(* The steps of a worker keep the stages in step: it ends only on a closed *)
(* and empty channel, with nothing in its batch.                           *)
LEMMA WorkerLifecycle ==
  ASSUME TypeOK, Lifecycle, NoSendOnClosedChannel, NEW a \in Addr, Worker(a)
  PROVE  Lifecycle' /\ NoSendOnClosedChannel'
<1>1. CASE receive(a)
  BY <1>1, SMTT(30) DEF receive, Lifecycle, NoSendOnClosedChannel, TypeOK, SenderTypeOK
<1>2. CASE drainMore(a)
  BY <1>2, SMTT(30) DEF drainMore, drain, Lifecycle, NoSendOnClosedChannel, TypeOK, SenderTypeOK
<1>3. CASE drainEnds(a)
  BY <1>3 DEF drainEnds, Lifecycle, NoSendOnClosedChannel, TypeOK, SenderTypeOK
<1>4. CASE sendBatch(a)
  BY <1>4 DEF sendBatch, Lifecycle, NoSendOnClosedChannel, TypeOK, SenderTypeOK
<1>5. CASE workerDone(a)
  BY <1>5 DEF workerDone, Ends, Lifecycle, NoSendOnClosedChannel, TypeOK, SenderTypeOK
<1>6. QED
  BY <1>1, <1>2, <1>3, <1>4, <1>5 DEF Worker

(* The steps of a sender's Close keep the stages in step: the channel      *)
(* closes when no caller is between its check and its send, and the client *)
(* once.                                                                   *)
LEMMA CloseLifecycle ==
  ASSUME TypeOK, Lifecycle, NoSendOnClosedChannel, NEW a \in Addr,
         Teardown(a) \/ (\E g \in Goroutine : Close(a, g))
  PROVE  Lifecycle' /\ NoSendOnClosedChannel'
<1>1. CASE closeQueue(a)
  <2>1. Readers(a) = {} /\ closeOnce[a] = "lock"
    BY <1>1 DEF closeQueue, lockClose
  <2>2. \A c \in Caller : ~(send[c].at = "offer" /\ send[c].to = a)
    BY <2>1 DEF Readers
  <2>3. NoSendOnClosedChannel'
    <3>1. SUFFICES ASSUME NEW c \in Caller, send[c].at = "offer"
                   PROVE  ~closed'[send[c].to]
      BY <1>1 DEF closeQueue, NoSendOnClosedChannel
    <3>2. send[c].to \in Addr /\ send[c].to # a
      BY <2>2, <3>1, InSend
    <3>3. QED
      BY <1>1, <3>1, <3>2 DEF closeQueue, NoSendOnClosedChannel, TypeOK, SenderTypeOK
  <2>4. Lifecycle'
    BY <1>1, <2>1 DEF closeQueue, Lifecycle, TypeOK, SenderTypeOK
  <2>5. QED
    BY <2>3, <2>4
<1>2. CASE closeInner(a)
  <2>1. innerCloses[a] = 0
    BY <1>2 DEF closeInner, Lifecycle
  <2>2. QED
    BY <1>2, <2>1 DEF closeInner, Lifecycle, NoSendOnClosedChannel, TypeOK, SenderTypeOK
<1>3. ASSUME NEW g \in Goroutine, CloseReturn(a, g)
      PROVE  Lifecycle' /\ NoSendOnClosedChannel'
  BY <1>3 DEF CloseReturn, closeReturns, Lifecycle, NoSendOnClosedChannel,
              TypeOK, SenderTypeOK
<1>4. ASSUME NEW g \in Goroutine, Close(a, g)
      PROVE  Lifecycle' /\ NoSendOnClosedChannel'
  BY <1>4 DEF Close, Lifecycle, NoSendOnClosedChannel, TypeOK, SenderTypeOK
<1>5. QED
  BY <1>1, <1>2, <1>3, <1>4 DEF Teardown

(* The steps of the pool start a worker or leave the senders alone.        *)
LEMMA PoolLifecycle ==
  ASSUME TypeOK, Lifecycle, NoSendOnClosedChannel, Ownership,
         \/ \E c \in Caller, a \in Addr : For(c, a)
         \/ \E p \in Closer : PoolClose(p) \/ CloserStep(p)
  PROVE  Lifecycle' /\ NoSendOnClosedChannel'
<1>1. ASSUME NEW c \in Caller, NEW a \in Addr, For(c, a)
      PROVE  Lifecycle' /\ NoSendOnClosedChannel'
  <2>1. \/ UNCHANGED worker
        \/ worker[a] = "none" /\ worker' = [worker EXCEPT ![a] = "range"]
    BY <1>1 DEF For, buildSender, NewAsyncSender, Ownership, Built
  <2>2. QED
    BY <1>1, <2>1 DEF For, Lifecycle, NoSendOnClosedChannel, TypeOK, SenderTypeOK
<1>2. ASSUME NEW p \in Closer, PoolClose(p) \/ CloserStep(p)
      PROVE  UNCHANGED senderVars
  BY <1>2 DEF PoolClose, CloserStep, PoolCloseReturn, Collect
<1>3. CASE UNCHANGED senderVars
  BY <1>3 DEF senderVars, Lifecycle, NoSendOnClosedChannel
<1>4. QED
  BY <1>1, <1>2, <1>3

-----------------------------------------------------------------------------
(* Who owns a sender.                                                      *)
-----------------------------------------------------------------------------
(* A step that leaves the pool's variables alone, and the set of senders   *)
(* that were built, keeps their owners.                                    *)
LEMMA SendersKeepOwners ==
  ASSUME Ownership, UNCHANGED poolVars, Built' = Built
  PROVE  Ownership'
BY DEF Ownership, poolVars

(* No step of a sender builds one or forgets one. *)
LEMMA SenderStepsBuildNone ==
  ASSUME TypeOK, NEW a \in Addr,
         Worker(a) \/ Teardown(a) \/ (\E g \in Goroutine : Close(a, g))
  PROVE  Built' = Built
<1>1. \A b \in Addr : worker'[b] = "none" <=> worker[b] = "none"
  BY DEF Worker, receive, drainMore, drainEnds, sendBatch, workerDone, Teardown,
         closeQueue, closeInner, CloseReturn, Close, TypeOK, SenderTypeOK
<1>2. QED
  BY <1>1 DEF Built

(* For builds a sender only for an open pool, which keeps it. *)
LEMMA ForOwnership ==
  ASSUME TypeOK, Ownership, NEW c \in Caller, NEW a \in Addr, For(c, a)
  PROVE  Ownership'
<1>1. UNCHANGED <<mine, poolClose, poolClosed>>
  BY DEF For
<1>2. CASE UNCHANGED <<worker, senders>>
  BY <1>1, <1>2 DEF Ownership, Built
<1>3. CASE /\ ~poolClosed /\ NewAsyncSender(a)
           /\ senders' = senders \union {a}
  <2>1. Built' = Built \union {a}
    BY <1>3 DEF Built, NewAsyncSender, TypeOK, SenderTypeOK
  <2>2. QED
    BY <1>1, <1>3, <2>1 DEF Ownership
<1>4. QED
  BY <1>2, <1>3 DEF For, buildSender

(* A pool's Close takes over every sender of an open pool; a second one    *)
(* finds none.                                                             *)
LEMMA CloserOwnership ==
  ASSUME TypeOK, Ownership, NEW p \in Closer, PoolClose(p) \/ CloserStep(p)
  PROVE  Ownership'
<1>1. CASE PoolClose(p)
  <2>1. mine' = [mine EXCEPT ![p] = senders] /\ senders' = {} /\ poolClosed' = TRUE
        /\ mine[p] = {} /\ Built' = Built
    BY <1>1 DEF PoolClose, takeSenders, Ownership, Built, senderVars
  <2>2. \A q \in Closer : mine'[q] = IF q = p THEN senders ELSE mine[q]
    BY <2>1 DEF TypeOK
  <2>3. \A q \in Closer : poolClose'[q] = "idle" => q # p /\ poolClose[q] = "idle"
    BY <1>1 DEF PoolClose, TypeOK
  <2>4. CASE poolClosed
    BY <2>1, <2>2, <2>3, <2>4 DEF Ownership
  <2>5. CASE ~poolClosed
    BY <2>1, <2>2, <2>3, <2>5 DEF Ownership
  <2>6. QED
    BY <2>4, <2>5
<1>2. CASE CloserStep(p)
  <2>1. UNCHANGED <<mine, senders, poolClosed>> /\ Built' = Built
    BY <1>2 DEF CloserStep, PoolCloseReturn, Collect, Built, senderVars
  <2>2. \A q \in Closer : poolClose'[q] = "idle" => poolClose[q] = "idle"
    BY <1>2 DEF CloserStep, PoolCloseReturn, Collect, TypeOK
  <2>3. QED
    BY <2>1, <2>2 DEF Ownership
<1>3. QED
  BY <1>1, <1>2

-----------------------------------------------------------------------------
(* What a Close of the pool has collected.                                 *)
-----------------------------------------------------------------------------
(* No step of a sender takes back the return of its Close, nor changes the *)
(* answer of one that has returned.                                        *)
LEMMA SenderCollected ==
  ASSUME TypeOK, Lifecycle, Collected, NEW a \in Addr, UNCHANGED poolVars,
         Worker(a) \/ Teardown(a) \/ (\E g \in Goroutine : Close(a, g))
  PROVE  Collected'
<1>1. ASSUME NEW b \in Addr, closing[b]["pool"] = "returned"
      PROVE  closing'[b]["pool"] = "returned" /\ closeErr'[b] = closeErr[b]
  <2>1. closeOnce[b] = "done"
    BY <1>1 DEF Lifecycle, Goroutine
  <2>2. CASE Worker(a)
    BY <1>1, <2>2 DEF Worker, receive, drainMore, drainEnds, sendBatch, workerDone
  <2>3. CASE closeQueue(a)
    BY <1>1, <2>3 DEF closeQueue
  <2>4. CASE closeInner(a)
    BY <1>1, <2>1, <2>4 DEF closeInner, TypeOK, SenderTypeOK
  <2>5. ASSUME NEW g \in Goroutine, CloseReturn(a, g) \/ Close(a, g)
        PROVE  closing'[b]["pool"] = "returned" /\ closeErr'[b] = closeErr[b]
    <3>1. PICK v \in {"called", "returned"} : closing' = [closing EXCEPT ![a][g] = v]
      BY <2>5 DEF CloseReturn, closeReturns, Close
    <3>2. closing[a][g] # "returned" /\ UNCHANGED closeErr
      BY <2>5 DEF CloseReturn, closeReturns, Close
    <3>3. b # a \/ g # "pool"
      BY <1>1, <3>2
    <3>4. closing[a] \in [Goroutine -> {"no", "called", "returned"}] /\ "pool" \in Goroutine
      BY DEF TypeOK, SenderTypeOK, Goroutine
    <3>5. closing'[b]["pool"] = closing[b]["pool"]
      BY <3>1, <3>3, <3>4 DEF TypeOK, SenderTypeOK
    <3>6. QED
      BY <1>1, <3>2, <3>5
  <2>6. QED
    BY <2>2, <2>3, <2>4, <2>5 DEF Teardown
<1>2. \A p \in Closer : collected[p] \subseteq Addr
  BY DEF TypeOK
<1>3. QED
  BY <1>1, <1>2 DEF Collected, poolVars

(* A Close of the pool keeps the first error, and returns without one only *)
(* when every sender answered.                                             *)
LEMMA CloserCollected ==
  ASSUME TypeOK, Collected, NEW p \in Closer, PoolClose(p) \/ CloserStep(p)
  PROVE  Collected'
<1>1. UNCHANGED <<closing, closeErr>>
  BY DEF PoolClose, CloserStep, PoolCloseReturn, Collect, senderVars
<1>2. CASE PoolClose(p)
  BY <1>1, <1>2 DEF PoolClose, takeSenders, Collected, TypeOK
<1>3. CASE PoolCloseReturn(p)
  BY <1>1, <1>3 DEF PoolCloseReturn, deadline, Collected, TypeOK
<1>4. ASSUME NEW a \in Addr, Collect(p, a)
      PROVE  Collected'
  BY <1>1, <1>4 DEF Collect, Collected, TypeOK
<1>5. QED
  BY <1>2, <1>3, <1>4 DEF CloserStep

-----------------------------------------------------------------------------
(* Where every unit is.                                                    *)
-----------------------------------------------------------------------------
(* The trail of a sender is a sequence of units. *)
LEMMA TrailType ==
  ASSUME TypeOK
  PROVE  Trail \in [Addr -> Seq(Unit)]
<1>1. SUFFICES ASSUME NEW a \in Addr
               PROVE  handed[a] \o batch[a] \o queue[a] \in Seq(Unit)
  BY DEF Trail
<1>2. handed[a] \in Seq(Unit) /\ batch[a] \in Seq(Unit) /\ queue[a] \in Seq(Unit)
  BY DEF TypeOK, SenderTypeOK
<1>3. QED
  BY <1>2, ConcatProperties

(* Taking the oldest of a queue to the end of what precedes it keeps the   *)
(* whole.                                                                  *)
LEMMA MoveHead ==
  ASSUME NEW S, NEW s \in Seq(S), NEW t \in Seq(S), t # <<>>
  PROVE  Append(s, Head(t)) \o Tail(t) = s \o t
<1>1. Head(t) \in S /\ Tail(t) \in Seq(S) /\ Len(Tail(t)) = Len(t) - 1
      /\ \A i \in 1..Len(Tail(t)) : Tail(t)[i] = t[i + 1]
  BY HeadTailProperties
<1>2. Append(s, Head(t)) \in Seq(S) /\ Len(Append(s, Head(t))) = Len(s) + 1
      /\ \A i \in 1..Len(s) : Append(s, Head(t))[i] = s[i]
      /\ Append(s, Head(t))[Len(s) + 1] = Head(t)
  BY <1>1, AppendProperties
<1>3. Len(s) \in Nat /\ Len(t) \in Nat /\ Head(t) = t[1] /\ Len(t) # 0
  BY LenProperties, EmptySeq
<1> DEFINE l == Append(s, Head(t)) \o Tail(t)
           r == s \o t
<1>4. l \in Seq(S) /\ Len(l) = Len(s) + Len(t)
      /\ \A i \in 1..Len(s) + Len(t) :
            l[i] = IF i <= Len(s) + 1 THEN Append(s, Head(t))[i] ELSE Tail(t)[i - (Len(s) + 1)]
  BY <1>1, <1>2, <1>3, ConcatProperties
<1>5. r \in Seq(S) /\ Len(r) = Len(s) + Len(t)
      /\ \A i \in 1..Len(s) + Len(t) : r[i] = IF i <= Len(s) THEN s[i] ELSE t[i - Len(s)]
  BY <1>3, ConcatProperties
<1> HIDE DEF l, r
<1>6. \A i \in 1..Len(s) + Len(t) : l[i] = r[i]
  <2>1. TAKE i \in 1..Len(s) + Len(t)
  <2>2. CASE i <= Len(s)
    BY <1>2, <1>3, <1>4, <1>5, <2>2
  <2>3. CASE i = Len(s) + 1
    BY <1>2, <1>3, <1>4, <1>5, <2>3
  <2>4. CASE i > Len(s) + 1
    <3>1. i - (Len(s) + 1) \in 1..Len(Tail(t)) /\ (i - (Len(s) + 1)) + 1 = i - Len(s)
      BY <1>1, <1>3, <2>4
    <3>2. l[i] = Tail(t)[i - (Len(s) + 1)] /\ r[i] = t[i - Len(s)]
      BY <1>3, <1>4, <1>5, <2>4
    <3>3. QED
      BY <1>1, <3>1, <3>2
  <2>5. QED
    BY <1>3, <2>2, <2>3, <2>4
<1>7. l = r
  BY <1>4, <1>5, <1>6, SeqEqual
<1>8. QED
  BY <1>7 DEF l, r

(* Appending to the last part of a whole appends to the whole. *)
LEMMA AppendLast ==
  ASSUME NEW S, NEW s \in Seq(S), NEW t \in Seq(S), NEW e \in S
  PROVE  s \o Append(t, e) = Append(s \o t, e)
<1>1. <<e>> \in Seq(S) /\ s \o t \in Seq(S)
  BY ConcatProperties
<1>2. Append(t, e) = t \o <<e>> /\ Append(s \o t, e) = (s \o t) \o <<e>>
  BY <1>1, AppendIsConcat
<1>3. QED
  BY <1>1, <1>2, ConcatAssociative

(* A worker moves units along a trail and changes none. *)
LEMMA WorkerTrail ==
  ASSUME TypeOK, Lifecycle, NEW a \in Addr, Worker(a)
  PROVE  Trail' = Trail
<1> DEFINE h == handed[a]
           b == batch[a]
           q == queue[a]
<1>1. h \in Seq(Unit) /\ b \in Seq(Unit) /\ q \in Seq(Unit) /\ h \o b \in Seq(Unit)
  BY ConcatProperties DEF TypeOK, SenderTypeOK
<1>2. SUFFICES /\ \A x \in Addr \ {a} : handed'[x] = handed[x] /\ batch'[x] = batch[x]
                                        /\ queue'[x] = queue[x]
               /\ (handed'[a] \o batch'[a]) \o queue'[a] = (h \o b) \o q
  BY DEF Trail
<1>3. \A x \in Addr \ {a} : handed'[x] = handed[x] /\ batch'[x] = batch[x]
                            /\ queue'[x] = queue[x]
  BY DEF Worker, receive, drainMore, drain, drainEnds, sendBatch, workerDone,
         TypeOK, SenderTypeOK
<1>4. CASE receive(a)
  <2>1. b = <<>> /\ q # <<>>
    BY <1>4 DEF receive, Lifecycle
  <2>2. handed'[a] = h /\ batch'[a] = <<Head(q)>> /\ queue'[a] = Tail(q)
    BY <1>4 DEF receive, TypeOK, SenderTypeOK
  <2>3. Head(q) \in Unit
    BY <1>1, <2>1, HeadTailProperties
  <2>4. h \o <<Head(q)>> = Append(h, Head(q)) /\ h \o b = h
    BY <1>1, <2>1, <2>3, AppendIsConcat, ConcatEmptySeq
  <2>5. Append(h, Head(q)) \o Tail(q) = h \o q
    BY <1>1, <2>1, MoveHead
  <2> HIDE DEF h, b, q
  <2>6. QED
    BY <1>3, <2>2, <2>4, <2>5
<1>5. CASE drainMore(a)
  <2>1. q # <<>>
    BY <1>5 DEF drainMore, drain
  <2>2. handed'[a] = h /\ batch'[a] = Append(b, Head(q)) /\ queue'[a] = Tail(q)
    BY <1>5 DEF drainMore, drain, TypeOK, SenderTypeOK
  <2>3. Head(q) \in Unit
    BY <1>1, <2>1, HeadTailProperties
  <2> HIDE DEF h, b, q
  <2>4. h \o Append(b, Head(q)) = Append(h \o b, Head(q))
    BY <1>1, <2>3, AppendLast
  <2>5. Append(h \o b, Head(q)) \o Tail(q) = (h \o b) \o q
    BY <1>1, <2>1, MoveHead
  <2>6. QED
    BY <1>3, <2>2, <2>4, <2>5
<1>6. CASE sendBatch(a)
  <2>1. handed'[a] = h \o b /\ batch'[a] = <<>> /\ queue'[a] = q
    BY <1>6 DEF sendBatch, TypeOK, SenderTypeOK
  <2>2. (h \o b) \o <<>> = h \o b
    BY <1>1, ConcatEmptySeq
  <2> HIDE DEF h, b, q
  <2>3. QED
    BY <1>3, <2>1, <2>2
<1>7. CASE drainEnds(a) \/ workerDone(a)
  BY <1>3, <1>7 DEF drainEnds, workerDone
<1>8. QED
  BY <1>4, <1>5, <1>6, <1>7 DEF Worker

(* A step that leaves the trails, the callers and the drops alone keeps    *)
(* every unit where it is.                                                 *)
LEMMA AccountsKept ==
  ASSUME Accounts, Trail' = Trail, UNCHANGED <<send, offered, dropped>>
  PROVE  Accounts'
BY DEF Accounts, Returned

(* A caller's unit: in hand until its Send returns, and nowhere else. *)
LEMMA UnitInHand ==
  ASSUME TypeOK, Accounts, NEW c \in Caller, send[c].at \in {"offer", "drop"}
  PROVE  /\ send[c].to \in Addr /\ send[c].unit \in Unit
         /\ send[c].unit = <<c, offered[c]>>
         /\ ~Returned(send[c].unit) /\ dropped[send[c].unit] = 0
<1>1. send[c].to \in Addr /\ send[c].unit \in Unit /\ send[c] # Idle
  BY InSend
<1>2. send[c].unit = <<c, offered[c]>>
  BY <1>1 DEF Accounts
<1>3. ~Returned(send[c].unit)
  BY <1>1, <1>2 DEF Returned
<1>4. QED
  BY <1>1, <1>2, <1>3 DEF Accounts

(* An accepted unit becomes the last of one trail; a refused one stays in  *)
(* its caller's hand until onDrop.                                         *)
LEMMA EnqueueAccounts ==
  ASSUME TypeOK, Accounts, NEW c \in Caller, enqueue(c)
  PROVE  Accounts'
<1> DEFINE a == send[c].to
           u == send[c].unit
<1>1. a \in Addr /\ u \in Unit /\ u = <<c, offered[c]>> /\ ~Returned(u) /\ dropped[u] = 0
  BY UnitInHand DEF enqueue
<1>2. Trail \in [Addr -> Seq(Unit)]
  BY TrailType
<1>3. UNCHANGED <<offered, dropped>>
  BY DEF enqueue
<1>4. CASE Len(queue[a]) < Depth
  <2>1. /\ queue' = [queue EXCEPT ![a] = Append(@, u)]
        /\ send' = [send EXCEPT ![c] = Idle] /\ UNCHANGED <<handed, batch>>
    BY <1>4 DEF enqueue, offer
  <2>2. Trail' = [Trail EXCEPT ![a] = Append(@, u)]
    <3>1. handed[a] \in Seq(Unit) /\ batch[a] \in Seq(Unit) /\ queue[a] \in Seq(Unit)
      BY <1>1 DEF TypeOK, SenderTypeOK
    <3> DEFINE hb == handed[a] \o batch[a]
               q == queue[a]
    <3>2. hb \in Seq(Unit)
      BY <3>1, ConcatProperties
    <3>3. queue'[a] = Append(q, u) /\ \A x \in Addr \ {a} : queue'[x] = queue[x]
      BY <1>1, <2>1 DEF TypeOK, SenderTypeOK
    <3>4. Trail[a] = hb \o q
      BY <1>1 DEF Trail
    <3>5. Trail'[a] = hb \o Append(q, u)
      BY <1>1, <2>1, <3>3 DEF Trail
    <3>6. q \in Seq(Unit)
      BY <3>1
    <3> HIDE DEF a, u, hb, q
    <3>7. hb \o Append(q, u) = Append(hb \o q, u)
      BY <1>1, <3>2, <3>6, AppendLast
    <3>8. \A x \in Addr \ {a} : Trail'[x] = Trail[x]
      <4>1. handed' = handed /\ batch' = batch
        BY <2>1
      <4>2. QED
        BY <3>3, <4>1 DEF Trail
    <3>9. Trail' = [x \in Addr |-> Trail'[x]]
      BY DEF Trail
    <3>10. QED
      BY <1>1, <1>2, <3>4, <3>5, <3>7, <3>8, <3>9
  <2> DEFINE n == Len(Trail[a])
  <2>3. Trail[a] \in Seq(Unit) /\ n \in Nat /\ Append(Trail[a], u) \in Seq(Unit)
        /\ Len(Append(Trail[a], u)) = n + 1
        /\ (\A i \in 1..n : Append(Trail[a], u)[i] = Trail[a][i])
        /\ Append(Trail[a], u)[n + 1] = u
    BY <1>1, <1>2, AppendProperties, LenProperties
  <2> HIDE DEF a, u
  <2>4. Trail'[a] = Append(Trail[a], u) /\ \A x \in Addr \ {a} : Trail'[x] = Trail[x]
    BY <1>1, <1>2, <2>2
  <2> HIDE DEF n
  <2>5. /\ Len(Trail'[a]) = n + 1 /\ Trail'[a][n + 1] = u
        /\ \A i \in 1..n : Trail'[a][i] = Trail[a][i]
    BY <2>3, <2>4
  <2>6. Len(Trail[a]) = n /\ \A i \in 1..n + 1 : i \in 1..n \/ i = n + 1
    BY <2>3 DEF n
  <2>7. \A x \in Addr : \A i \in 1..Len(Trail'[x]) :
          \/ i \in 1..Len(Trail[x]) /\ Trail'[x][i] = Trail[x][i]
          \/ x = a /\ i = n + 1 /\ Trail'[x][i] = u
    BY <2>4, <2>5, <2>6, ZenonT(30)
  <2>8. /\ \A x \in Addr : \A i \in 1..Len(Trail[x]) :
             i \in 1..Len(Trail'[x]) /\ Trail'[x][i] = Trail[x][i]
        /\ n + 1 \in 1..Len(Trail'[a]) /\ Trail'[a][n + 1] = u
    <3>1. \A i \in 1..n : i \in 1..n + 1
      BY <2>3
    <3>2. n + 1 \in 1..n + 1
      BY <2>3
    <3>3. QED
      BY <2>4, <2>5, <2>6, <3>1, <3>2, ZenonT(30)
  <2>9. \A v \in Unit : Returned(v)' <=> Returned(v) \/ v = u
    BY <1>1, <1>3, <2>1 DEF Returned, TypeOK, SenderTypeOK, Unit
  <2>10. \A x \in Addr : \A i \in 1..Len(Trail[x]) : Trail[x][i] # u
    BY <1>1 DEF Accounts
  <2>11. (\A d \in Caller : send[d] # Idle => send[d].unit = <<d, offered[d]>>)'
    BY <1>3, <2>1 DEF Accounts, TypeOK, SenderTypeOK
  <2>12. (\A v \in Unit : \A x \in Addr : \A i \in 1..Len(Trail[x]) :
            Trail[x][i] = v => Returned(v) /\ dropped[v] = 0)'
    BY <1>1, <1>3, <2>7, <2>9, SMTT(30) DEF Accounts
  <2>13. (\A x, y \in Addr : \A i \in 1..Len(Trail[x]), j \in 1..Len(Trail[y]) :
            Trail[x][i] = Trail[y][j] => x = y /\ i = j)'
    BY <2>7, <2>10 DEF Accounts
  <2>14. (\A v \in Unit : dropped[v] \in {0, 1} /\ (dropped[v] = 1 => Returned(v)))'
    BY <1>3, <2>9 DEF Accounts
  <2>15. (\A v \in Unit : Returned(v) /\ dropped[v] = 0 =>
            \E x \in Addr : \E i \in 1..Len(Trail[x]) : Trail[x][i] = v)'
    BY <1>1, <1>3, <2>8, <2>9, SMTT(30) DEF Accounts
  <2>16. QED
    BY <2>11, <2>12, <2>13, <2>14, <2>15 DEF Accounts
<1>5. CASE ~(Len(queue[a]) < Depth)
  <2>1. send' = [send EXCEPT ![c].at = "drop"] /\ UNCHANGED <<queue, handed, batch>>
    BY <1>5 DEF enqueue, offer
  <2>2. Trail' = Trail
    BY <2>1 DEF Trail
  <2>3. send[c] \in [at : {"offer", "drop"}, to : Addr, unit : Unit] /\ send[c] # Idle
    BY InSend DEF enqueue
  <2>4. send'[c].at = "drop" /\ send'[c].unit = u
    BY <2>1, <2>3 DEF TypeOK, SenderTypeOK
  <2>5. send'[c] # Idle
    BY <2>4 DEF Idle
  <2>6. \A d \in Caller \ {c} : send'[d] = send[d]
    BY <2>1 DEF TypeOK, SenderTypeOK
  <2>7. \A d \in Caller : (send'[d] # Idle <=> send[d] # Idle) /\ send'[d].unit = send[d].unit
    BY <2>3, <2>4, <2>5, <2>6
  <2>8. \A v \in Unit : Returned(v)' <=> Returned(v)
    BY <1>3, <2>7 DEF Returned, Unit
  <2>9. QED
    BY <1>3, <2>2, <2>7, <2>8 DEF Accounts
<1>6. QED
  BY <1>4, <1>5

(* onDrop accounts for the unit in its caller's hand. *)
LEMMA OnDropAccounts ==
  ASSUME TypeOK, Accounts, NEW c \in Caller, onDrop(c)
  PROVE  Accounts'
<1> DEFINE u == send[c].unit
<1>1. u \in Unit /\ u = <<c, offered[c]>> /\ ~Returned(u) /\ dropped[u] = 0
  BY UnitInHand DEF onDrop
<1>2. /\ send' = [send EXCEPT ![c] = Idle] /\ dropped' = [dropped EXCEPT ![u] = 1]
      /\ UNCHANGED <<offered, handed, batch, queue>>
  BY <1>1 DEF onDrop
<1>3. Trail' = Trail
  BY <1>2 DEF Trail
<1> HIDE DEF u
<1>4. \A v \in Unit : Returned(v)' <=> Returned(v) \/ v = u
  BY <1>1, <1>2 DEF Returned, TypeOK, SenderTypeOK, Unit
<1>5. \A v \in Unit : dropped'[v] = IF v = u THEN 1 ELSE dropped[v]
  BY <1>1, <1>2 DEF TypeOK, SenderTypeOK
<1>6. \A x \in Addr : \A i \in 1..Len(Trail[x]) : Trail[x][i] # u
  BY <1>1 DEF Accounts
<1>7. (\A d \in Caller : send[d] # Idle => send[d].unit = <<d, offered[d]>>)'
  BY <1>2 DEF Accounts, TypeOK, SenderTypeOK
<1>8. QED
  BY <1>3, <1>4, <1>5, <1>6, <1>7 DEF Accounts

(* A new unit is in its caller's hand. *)
LEMMA SendAccounts ==
  ASSUME TypeOK, Accounts, NEW c \in Caller, NEW a \in Addr, Send(c, a)
  PROVE  Accounts'
<1>1. /\ offered' = [offered EXCEPT ![c] = @ + 1] /\ send[c] = Idle
      /\ UNCHANGED <<dropped, handed, batch, queue>>
  BY DEF Send
<1> DEFINE r == [at |-> IF closed[a] THEN "drop" ELSE "offer", to |-> a, unit |-> NextUnit(c)]
<1>2. send' = [send EXCEPT ![c] = r] /\ r.unit = NextUnit(c)
  BY DEF Send
<1>3. r # Idle
  <2>1. r.at # "idle" /\ Idle.at = "idle"
    BY DEF Idle
  <2>2. QED
    BY <2>1
<1> HIDE DEF r
<1>4. Trail' = Trail
  BY <1>1 DEF Trail
<1>5. offered[c] \in Nat /\ NextUnit(c) = <<c, offered[c] + 1>> /\ offered'[c] = offered[c] + 1
  BY <1>1, SenderAssumption DEF TypeOK, SenderTypeOK, NextUnit
<1>6. \A v \in Unit : Returned(v)' <=> Returned(v)
  <2>1. TAKE v \in Unit
  <2>2. v[1] \in Caller /\ v[2] \in Nat /\ offered[v[1]] \in Nat
    BY SenderAssumption DEF Unit, TypeOK, SenderTypeOK
  <2>3. CASE v[1] = c
    <3>1. Returned(v) <=> v[2] <= offered[c]
      BY <1>1, <2>3 DEF Returned
    <3>2. send'[c] # Idle
      BY <1>2, <1>3 DEF TypeOK, SenderTypeOK
    <3>3. Returned(v)' <=> v[2] <= offered[c] + 1 /\ ~(v[2] = offered[c] + 1)
      BY <1>5, <2>3, <3>2 DEF Returned
    <3>4. QED
      BY <1>5, <2>2, <3>1, <3>3
  <2>4. CASE v[1] # c
    <3>1. offered'[v[1]] = offered[v[1]] /\ send'[v[1]] = send[v[1]]
      BY <1>1, <1>2, <2>2, <2>4 DEF TypeOK, SenderTypeOK
    <3>2. QED
      BY <3>1 DEF Returned
  <2>5. QED
    BY <2>3, <2>4
<1>7. (\A d \in Caller : send[d] # Idle => send[d].unit = <<d, offered[d]>>)'
  <2>1. ASSUME NEW d \in Caller, send'[d] # Idle
        PROVE  send'[d].unit = <<d, offered'[d]>>
    <3>1. CASE d = c
      BY <1>2, <1>5, <3>1 DEF TypeOK, SenderTypeOK
    <3>2. CASE d # c
      <4>1. offered'[d] = offered[d] /\ send'[d] = send[d]
        BY <1>1, <1>2, <3>2 DEF TypeOK, SenderTypeOK
      <4>2. QED
        BY <2>1, <4>1 DEF Accounts
    <3>3. QED
      BY <3>1, <3>2
  <2>2. QED
    BY <2>1
<1>8. QED
  BY <1>1, <1>4, <1>6, <1>7 DEF Accounts

(* A unit offered to a closed pool is dropped at once. *)
LEMMA DiscardAccounts ==
  ASSUME TypeOK, Accounts, NEW c \in Caller, SendDiscard(c)
  PROVE  Accounts'
<1> DEFINE u == NextUnit(c)
<1>1. /\ offered' = [offered EXCEPT ![c] = @ + 1] /\ send[c] = Idle
      /\ UNCHANGED <<send, handed, batch, queue>>
      /\ dropped' = [dropped EXCEPT ![u] = @ + 1]
  BY DEF SendDiscard
<1>2. Trail' = Trail
  BY <1>1 DEF Trail
<1>3. u \in Unit /\ u = <<c, offered[c] + 1>> /\ offered[c] \in Nat
      /\ offered'[c] = offered[c] + 1
  BY <1>1, NextUnitIsUnit, SenderAssumption DEF SendDiscard, TypeOK, SenderTypeOK, NextUnit
<1> HIDE DEF u
<1>4. ~Returned(u)
  BY <1>3 DEF Returned
<1>5. dropped[u] = 0
  BY <1>3, <1>4 DEF Accounts
<1>6. \A v \in Unit : Returned(v)' <=> Returned(v) \/ v = u
  <2>1. TAKE v \in Unit
  <2>2. v[1] \in Caller /\ v[2] \in Nat /\ v = <<v[1], v[2]>> /\ offered[v[1]] \in Nat
    BY SenderAssumption DEF Unit, TypeOK, SenderTypeOK
  <2>3. CASE v[1] = c
    <3>1. Returned(v) <=> v[2] <= offered[c]
      BY <1>1, <2>3 DEF Returned
    <3>2. Returned(v)' <=> v[2] <= offered[c] + 1
      BY <1>1, <1>3, <2>3 DEF Returned
    <3>3. v = u <=> v[2] = offered[c] + 1
      BY <1>3, <2>2, <2>3
    <3>4. QED
      BY <1>3, <2>2, <3>1, <3>2, <3>3
  <2>4. CASE v[1] # c
    <3>1. offered'[v[1]] = offered[v[1]] /\ v # u
      BY <1>1, <1>3, <2>2, <2>4 DEF TypeOK, SenderTypeOK
    <3>2. QED
      BY <1>1, <3>1 DEF Returned
  <2>5. QED
    BY <2>3, <2>4
<1>7. \A v \in Unit : dropped'[v] = IF v = u THEN 1 ELSE dropped[v]
  BY <1>1, <1>3, <1>5 DEF TypeOK, SenderTypeOK
<1>8. \A x \in Addr : \A i \in 1..Len(Trail[x]) : Trail[x][i] # u
  BY <1>3, <1>4 DEF Accounts
<1>9. (\A d \in Caller : send[d] # Idle => send[d].unit = <<d, offered[d]>>)'
  <2>1. \A d \in Caller : send[d] # Idle => offered'[d] = offered[d]
    BY <1>1 DEF TypeOK, SenderTypeOK
  <2>2. QED
    BY <1>1, <2>1 DEF Accounts
<1>10. QED
  BY <1>2, <1>6, <1>7, <1>8, <1>9 DEF Accounts

-----------------------------------------------------------------------------
(* The inductive invariant holds.                                          *)
-----------------------------------------------------------------------------
(* Initially nothing was built, offered or closed. *)
LEMMA InitPool == Init => PoolInv
<1> SUFFICES ASSUME Init PROVE PoolInv
  OBVIOUS
<1>1. TypeOK
  BY InitType
<1>2. Lifecycle
  BY DEF Init, SenderInit, Lifecycle
<1>3. NoSendOnClosedChannel
  BY DEF Init, SenderInit, NoSendOnClosedChannel, Idle
<1>4. Ownership /\ Collected
  BY DEF Init, SenderInit, Ownership, Collected, Built
<1>5. Accounts
  <2>1. \A a \in Addr : Trail[a] = <<>> /\ Len(Trail[a]) = 0
    <3>1. <<>> \in Seq(Unit)
      BY EmptySeq
    <3>2. (<<>> \o <<>>) \o <<>> = <<>>
      BY <3>1, ConcatEmptySeq
    <3>3. QED
      BY <3>2, EmptySeq DEF Init, SenderInit, Trail
  <2>2. \A u \in Unit : ~Returned(u) /\ dropped[u] = 0
    BY SenderAssumption DEF Init, SenderInit, Returned, Unit
  <2>3. \A c \in Caller : send[c] = Idle
    BY DEF Init, SenderInit
  <2>4. QED
    BY <2>1, <2>2, <2>3 DEF Accounts
<1>6. QED
  BY <1>1, <1>2, <1>3, <1>4, <1>5 DEF PoolInv

(* Every step of a caller keeps the invariant. *)
LEMMA CallerPreserves ==
  ASSUME PoolInv, NEW c \in Caller, CallerStep(c) \/ SendHeld(c) \/ SendDiscard(c)
  PROVE  PoolInv'
<1> USE DEF PoolInv
<1>1. TypeOK' /\ Lifecycle' /\ NoSendOnClosedChannel'
  BY CallerType, CallerLifecycle
<1>2. UNCHANGED poolVars /\ UNCHANGED <<worker, closing, closeErr>>
  BY DEF CallerStep, enqueue, onDrop, SendHeld, Send, SendDiscard
<1>3. Ownership'
  BY <1>2, SendersKeepOwners DEF Built
<1>4. Collected'
  BY <1>2 DEF Collected, poolVars
<1>5. Accounts'
  BY EnqueueAccounts, OnDropAccounts, SendAccounts, DiscardAccounts
     DEF CallerStep, SendHeld
<1>6. QED
  BY <1>1, <1>3, <1>4, <1>5

(* Every step of a sender, and every call of its Close, keeps it. *)
LEMMA SenderPreserves ==
  ASSUME PoolInv, NEW a \in Addr, UNCHANGED poolVars,
         Worker(a) \/ Teardown(a) \/ (\E g \in Goroutine : Close(a, g))
  PROVE  PoolInv'
<1> USE DEF PoolInv
<1>1. TypeOK' /\ Lifecycle' /\ NoSendOnClosedChannel'
  BY WorkerType, CloseType, WorkerLifecycle, CloseLifecycle
<1>2. Ownership' /\ Collected'
  BY SendersKeepOwners, SenderStepsBuildNone, SenderCollected
<1>3. Trail' = Trail /\ UNCHANGED <<send, offered, dropped>>
  <2>1. CASE Worker(a)
    BY <2>1, WorkerTrail DEF Worker, receive, drainMore, drainEnds, sendBatch, workerDone
  <2>2. CASE Teardown(a) \/ (\E g \in Goroutine : Close(a, g))
    <3>1. UNCHANGED <<handed, batch, queue, send, offered, dropped>>
      BY <2>2 DEF Teardown, closeQueue, closeInner, CloseReturn, Close
    <3>2. QED
      BY <3>1 DEF Trail
  <2>3. QED
    BY <2>1, <2>2
<1>4. QED
  BY <1>1, <1>2, <1>3, AccountsKept

(* Every step of the pool keeps it. *)
LEMMA PoolPreserves ==
  ASSUME PoolInv,
         \/ \E c \in Caller, a \in Addr : For(c, a)
         \/ \E p \in Closer : PoolClose(p) \/ CloserStep(p)
  PROVE  PoolInv'
<1> USE DEF PoolInv
<1>1. TypeOK' /\ Lifecycle' /\ NoSendOnClosedChannel' /\ Ownership'
  BY ForType, CloserType, PoolLifecycle, ForOwnership, CloserOwnership
<1>2. UNCHANGED <<handed, batch, queue, send, offered, dropped, closing, closeErr>>
  BY DEF For, PoolClose, CloserStep, PoolCloseReturn, Collect, senderVars
<1>3. Collected'
  <2>1. CASE \E c \in Caller, a \in Addr : For(c, a)
    BY <1>2, <2>1 DEF For, Collected
  <2>2. QED
    BY <2>1, CloserCollected
<1>4. Trail' = Trail
  BY <1>2 DEF Trail
<1>5. QED
  BY <1>1, <1>2, <1>3, <1>4, AccountsKept

(* The pool's invariant holds of every behaviour, for any constants.       *)
THEOREM PoolInvariant == Spec => []PoolInv
<1>1. PoolInv /\ [Next]_vars => PoolInv'
  <2> SUFFICES ASSUME PoolInv, [Next]_vars PROVE PoolInv'
    OBVIOUS
  <2>1. ASSUME NEW c \in Caller, CallerStep(c) \/ SendHeld(c) \/ SendDiscard(c)
        PROVE  PoolInv'
    BY <2>1, CallerPreserves
  <2>2. ASSUME NEW a \in Addr, SenderStep(a)
        PROVE  PoolInv'
    BY <2>2, SenderPreserves DEF SenderStep
  <2>3. ASSUME NEW a \in Addr, CloseHeld(a)
        PROVE  PoolInv'
    BY <2>3, SenderPreserves DEF CloseHeld, Goroutine
  <2>4. ASSUME NEW p \in Closer, NEW a \in Addr, CloseSender(p, a)
        PROVE  PoolInv'
    BY <2>4, SenderPreserves DEF CloseSender, Goroutine
  <2>5. CASE \/ \E c \in Caller, a \in Addr : For(c, a)
             \/ \E p \in Closer : PoolClose(p) \/ CloserStep(p)
    BY <2>5, PoolPreserves
  <2>6. CASE UNCHANGED vars
    <3> USE <2>6 DEF vars, senderVars, poolVars, PoolInv
    <3>1. TypeOK'
      BY DEF TypeOK, SenderTypeOK
    <3>2. Lifecycle' /\ NoSendOnClosedChannel'
      BY DEF Lifecycle, NoSendOnClosedChannel
    <3>3. Ownership' /\ Collected'
      BY DEF Ownership, Collected, Built
    <3>4. Trail' = Trail /\ UNCHANGED <<send, offered, dropped>>
      BY DEF Trail
    <3>5. QED
      BY <3>1, <3>2, <3>3, <3>4, AccountsKept
  <2>7. QED
    BY <2>1, <2>2, <2>3, <2>4, <2>5, <2>6 DEF Next
<1>2. QED
  BY <1>1, InitPool, PTL DEF Spec

-----------------------------------------------------------------------------
(* What the invariant says of the pool.                                    *)
-----------------------------------------------------------------------------
(* Every variable has its type: in particular a batch holds only units.    *)
THEOREM PoolTypeCorrect == Spec => []TypeOK
BY PoolInvariant, PTL DEF PoolInv

(* async.go's closeMu does its work: a caller past the check of closed     *)
(* never meets a closed channel.                                           *)
THEOREM NeverSendsOnClosedChannel == Spec => []NoSendOnClosedChannel
BY PoolInvariant, PTL DEF PoolInv

(* Close of a sender closes its client once, after the worker handed over  *)
(* everything, and before any call of Close returns.                       *)
THEOREM ClosesAfterDrain == Spec => []ClosedAfterDrain
<1>1. PoolInv => ClosedAfterDrain
  <2> SUFFICES ASSUME PoolInv, NEW a \in Addr
               PROVE  /\ innerCloses[a] <= 1
                      /\ innerCloses[a] = 1 => /\ closed[a] /\ worker[a] = "done"
                                               /\ batch[a] = <<>> /\ queue[a] = <<>>
                      /\ (\E g \in Goroutine : closing[a][g] = "returned") => innerCloses[a] = 1
    BY DEF ClosedAfterDrain
  <2>1. innerCloses[a] = IF closeOnce[a] = "done" THEN 1 ELSE 0
    BY DEF PoolInv, Lifecycle
  <2>2. closeOnce[a] = "done" => worker[a] = "done"
    BY DEF PoolInv, Lifecycle
  <2>3. worker[a] = "done" => closed[a] /\ batch[a] = <<>> /\ queue[a] = <<>>
    BY DEF PoolInv, Lifecycle
  <2>4. (\E g \in Goroutine : closing[a][g] = "returned") => closeOnce[a] = "done"
    BY DEF PoolInv, Lifecycle
  <2>5. QED
    BY <2>1, <2>2, <2>3, <2>4
<1>2. QED
  BY <1>1, PoolInvariant, PTL

(* Every sender For built is in the open pool's map, or exactly one Close  *)
(* of the pool took it over.                                               *)
THEOREM SendersAreOwned == Spec => []EverySenderIsOwned
<1>1. PoolInv => EverySenderIsOwned
  <2> SUFFICES ASSUME PoolInv PROVE EverySenderIsOwned
    OBVIOUS
  <2>1. ASSUME poolClosed, NEW a \in Built
        PROVE  Cardinality({p \in Closer : a \in mine[p]}) = 1
    <3>1. PICK p \in Closer : a \in mine[p]
      BY <2>1 DEF PoolInv, Ownership
    <3>2. \A q \in Closer : a \in mine[q] => q = p
      BY <3>1 DEF PoolInv, Ownership, Built
    <3>3. {q \in Closer : a \in mine[q]} = {p}
      BY <3>1, <3>2
    <3>4. QED
      BY <3>3, FS_Singleton
  <2>2. QED
    BY <2>1 DEF PoolInv, Ownership, EverySenderIsOwned
<1>2. QED
  BY <1>1, PoolInvariant, PTL

(* A Close of the pool that returns nil has drained and closed every       *)
(* sender it took over, and no client's Close failed.                      *)
THEOREM NilReportsDrained == Spec => []NilMeansDrained
<1>1. PoolInv => NilMeansDrained
  <2> SUFFICES ASSUME PoolInv, NEW p \in Closer, poolClose[p] = "returned",
                      firstErr[p] = "nil", NEW a \in mine[p]
               PROVE  innerCloses[a] = 1 /\ ~closeErr[a]
    BY DEF NilMeansDrained
  <2>1. a \in collected[p] /\ a \in Addr
    BY DEF PoolInv, Collected, TypeOK
  <2>2. closing[a]["pool"] = "returned" /\ ~closeErr[a]
    BY <2>1 DEF PoolInv, Collected
  <2>3. QED
    BY <2>1, <2>2 DEF PoolInv, Lifecycle, Goroutine
<1>2. QED
  BY <1>1, PoolInvariant, PTL

(* How often a unit occurs in a trail: never, or once. *)
LEMMA TrailOccurrences ==
  ASSUME TypeOK, Accounts, NEW a \in Addr, NEW u
  PROVE  /\ (\A i \in 1..Len(Trail[a]) : Trail[a][i] # u) => Occurrences(u, Trail[a]) = 0
         /\ (\E i \in 1..Len(Trail[a]) : Trail[a][i] = u) => Occurrences(u, Trail[a]) = 1
<1> DEFINE s == Trail[a]
<1>1. s \in Seq(Unit) /\ DOMAIN s = 1..Len(s)
  BY TrailType, LenProperties
<1>2. \A i, j \in 1..Len(s) : s[i] = s[j] => i = j
  BY DEF Accounts
<1> HIDE DEF s
<1>3. ASSUME \A i \in 1..Len(s) : s[i] # u
      PROVE  Occurrences(u, s) = 0
  <2>1. {i \in DOMAIN s : s[i] = u} = {}
    BY <1>1, <1>3
  <2>2. QED
    BY <2>1, FS_EmptySet DEF Occurrences
<1>4. ASSUME NEW k \in 1..Len(s), s[k] = u
      PROVE  Occurrences(u, s) = 1
  <2>1. {i \in DOMAIN s : s[i] = u} = {k}
    BY <1>1, <1>2, <1>4
  <2>2. QED
    BY <2>1, FS_Singleton DEF Occurrences
<1>5. QED
  BY <1>3, <1>4 DEF s

(* Every unit whose Send returned waits in one sender, or was handed to    *)
(* one client, or was reported dropped, and only one of these, once.       *)
THEOREM UnitsAreAccounted == Spec => []EveryUnitAccounted
<1>1. PoolInv => EveryUnitAccounted
  <2> SUFFICES ASSUME PoolInv, NEW c \in Caller, NEW k \in 1..offered[c]
               PROVE  LET u == <<c, k>>
                          here(a) == Occurrences(u, handed[a] \o batch[a] \o queue[a])
                          held == {a \in Addr : here(a) > 0}
                      IN  IF send[c] # Idle /\ k = offered[c]
                          THEN held = {} /\ dropped[u] = 0
                          ELSE \/ held = {} /\ dropped[u] = 1
                               \/ /\ dropped[u] = 0
                                  /\ \E a \in Addr : held = {a} /\ here(a) = 1
    BY DEF EveryUnitAccounted
  <2> DEFINE u == <<c, k>>
             here(a) == Occurrences(u, handed[a] \o batch[a] \o queue[a])
             held == {a \in Addr : here(a) > 0}
             In(a) == \E i \in 1..Len(Trail[a]) : Trail[a][i] = u
  <2>1. u \in Unit /\ (Returned(u) <=> ~(send[c] # Idle /\ k = offered[c]))
    BY SenderAssumption DEF PoolInv, TypeOK, SenderTypeOK, Unit, Returned
  <2>2. \A a \in Addr : (In(a) => here(a) = 1) /\ (~In(a) => here(a) = 0)
    <3>1. TAKE a \in Addr
    <3>2. here(a) = Occurrences(u, Trail[a])
      BY DEF Trail
    <3> HIDE DEF here, u
    <3>3. QED
      BY <3>2, TrailOccurrences DEF PoolInv
  <2>3. \A a \in Addr : In(a) => Returned(u) /\ dropped[u] = 0
    BY <2>1 DEF PoolInv, Accounts
  <2>4. \A a, b \in Addr : In(a) /\ In(b) => a = b
    BY DEF PoolInv, Accounts
  <2>5. dropped[u] \in {0, 1} /\ (dropped[u] = 1 => Returned(u))
    BY <2>1 DEF PoolInv, Accounts
  <2>6. Returned(u) /\ dropped[u] = 0 => \E a \in Addr : In(a)
    BY <2>1 DEF PoolInv, Accounts
  <2> HIDE DEF here, In, u
  <2>7. held = {a \in Addr : In(a)}
    BY <2>2
  <2> HIDE DEF held
  <2>8. IF ~Returned(u)
        THEN held = {} /\ dropped[u] = 0
        ELSE \/ held = {} /\ dropped[u] = 1
             \/ dropped[u] = 0 /\ \E a \in Addr : held = {a} /\ here(a) = 1
    BY <2>2, <2>3, <2>4, <2>5, <2>6, <2>7
  <2>9. QED
    BY <2>1, <2>8 DEF here, held, u
<1>2. QED
  BY <1>1, PoolInvariant, PTL

-----------------------------------------------------------------------------
(* A sender is a delivery queue.                                           *)
-----------------------------------------------------------------------------
(* The first part of a whole, and the rest. *)
LEMMA SplitWhole ==
  ASSUME NEW S, NEW s \in Seq(S), NEW t \in Seq(S)
  PROVE  /\ SubSeq(s \o t, 1, Len(s)) = s
         /\ SubSeq(s \o t, Len(s) + 1, Len(s \o t)) = t
<1>1. s \o t \in Seq(S) /\ Len(s \o t) = Len(s) + Len(t) /\ Len(s) \in Nat /\ Len(t) \in Nat
      /\ \A i \in 1..Len(s) + Len(t) : (s \o t)[i] = IF i <= Len(s) THEN s[i] ELSE t[i - Len(s)]
  BY ConcatProperties, LenProperties
<1> DEFINE w == s \o t
           l == SubSeq(w, 1, Len(s))
           r == SubSeq(w, Len(s) + 1, Len(w))
<1>2. \A i \in 1..Len(w) : w[i] \in S
  BY <1>1, ElementOfSeq
<1> HIDE DEF w
<1>3. l \in Seq(S) /\ Len(l) = Len(s) /\ \A i \in 1..Len(s) : l[i] = w[i]
  BY <1>1, <1>2, SubSeqProperties DEF w
<1>4. r \in Seq(S) /\ Len(r) = Len(t) /\ \A i \in 1..Len(t) : r[i] = w[i + Len(s)]
  BY <1>1, <1>2, SubSeqProperties DEF w
<1> HIDE DEF l, r
<1>5. l = s
  <2>1. \A i \in 1..Len(l) : l[i] = s[i]
    BY <1>1, <1>3 DEF w
  <2>2. QED
    BY <1>3, <2>1, SeqEqual
<1>6. r = t
  <2>1. \A i \in 1..Len(r) : r[i] = t[i]
    <3>1. TAKE i \in 1..Len(r)
    <3>2. i + Len(s) \in 1..Len(s) + Len(t) /\ ~(i + Len(s) <= Len(s)) /\ (i + Len(s)) - Len(s) = i
      BY <1>1, <1>4
    <3>3. QED
      BY <1>1, <1>4, <3>2 DEF w
  <2>2. QED
    BY <1>4, <2>1, SeqEqual
<1>7. QED
  BY <1>5, <1>6 DEF l, r, w

(* Whichever sender it is: what waits for it is its worker's batch and its *)
(* channel.                                                                *)
LEMMA PendingKept ==
  ASSUME TypeOK, Lifecycle, NEW a \in Addr,
         receive(a) \/ drainMore(a)
  PROVE  batch'[a] \o queue'[a] = batch[a] \o queue[a]
<1> DEFINE b == batch[a]
           q == queue[a]
<1>1. b \in Seq(Unit) /\ q \in Seq(Unit)
  BY DEF TypeOK, SenderTypeOK
<1>2. q # <<>> /\ queue'[a] = Tail(q)
  BY DEF receive, drainMore, drain, TypeOK, SenderTypeOK
<1>3. Head(q) \in Unit
  BY <1>1, <1>2, HeadTailProperties
<1>4. Append(b, Head(q)) \o Tail(q) = b \o q
  BY <1>1, <1>2, MoveHead
<1>5. batch'[a] = Append(b, Head(q))
  <2>1. CASE receive(a)
    <3>1. b = <<>> /\ batch'[a] = <<Head(q)>>
      BY <2>1 DEF receive, Lifecycle, TypeOK, SenderTypeOK
    <3>2. <<Head(q)>> = Append(<<>>, Head(q))
      OBVIOUS
    <3>3. QED
      BY <3>1, <3>2
  <2>2. CASE drainMore(a)
    BY <2>2 DEF drainMore, drain, TypeOK, SenderTypeOK
  <2>3. QED
    BY <2>1, <2>2
<1> HIDE DEF b, q
<1>6. QED
  BY <1>2, <1>4, <1>5 DEF b, q

(* Any one of the senders, seen as Queue sees AnAddr's. *)
SenderQueue(a) == INSTANCE DeliveryQueue WITH
    Capacity <- Depth + MaxBatch,
    pending  <- batch[a] \o queue[a],
    handed   <- handed[a],
    open     <- ~closed[a],
    finished <- innerCloses[a]

(* A caller's step is one unit accepted by the sender it has in hand, and  *)
(* nothing to any other.                                                   *)
LEMMA CallerQueue ==
  ASSUME PoolInv, NEW a \in Addr, NEW c \in Caller,
         CallerStep(c) \/ SendHeld(c) \/ SendDiscard(c)
  PROVE  [SenderQueue(a)!Next]_(SenderQueue(a)!vars)
<1>1. CASE enqueue(c) /\ Len(queue[send[c].to]) < Depth /\ send[c].to = a
  <2> DEFINE b == batch[a]
             q == queue[a]
             u == send[c].unit
  <2>1. b \in Seq(Unit) /\ q \in Seq(Unit) /\ u \in Unit /\ Len(b) <= MaxBatch
    BY <1>1, InSend DEF enqueue, PoolInv, TypeOK, SenderTypeOK
  <2>2. ~closed[a]
    BY <1>1 DEF enqueue, PoolInv, NoSendOnClosedChannel
  <2>3. queue'[a] = Append(q, u) /\ UNCHANGED <<batch, handed, closed, innerCloses>>
    BY <1>1 DEF enqueue, offer, PoolInv, TypeOK, SenderTypeOK
  <2>4. Len(q) < Depth
    BY <1>1
  <2> HIDE DEF b, q, u
  <2>5. b \o Append(q, u) = Append(b \o q, u)
    BY <2>1, AppendLast
  <2>6. Len(b \o q) < Depth + MaxBatch
    <3>1. Len(b \o q) = Len(b) + Len(q) /\ Len(b) \in Nat /\ Len(q) \in Nat
      BY <2>1, ConcatProperties, LenProperties
    <3>2. QED
      BY <2>1, <2>4, <3>1, SenderAssumption
  <2>7. SenderQueue(a)!Accept(u)
    BY <2>2, <2>3, <2>5, <2>6 DEF SenderQueue!Accept, b, q
  <2>8. QED
    BY <2>1, <2>7 DEF SenderQueue!Next
<1>2. CASE ~(enqueue(c) /\ Len(queue[send[c].to]) < Depth /\ send[c].to = a)
  <2>1. UNCHANGED <<batch, handed, closed, innerCloses>>
    BY DEF CallerStep, enqueue, onDrop, SendHeld, Send, SendDiscard
  <2>2. queue'[a] = queue[a]
    <3>1. CASE enqueue(c)
      <4>1. send[c].to \in Addr
        BY <3>1, InSend DEF enqueue, PoolInv
      <4>2. CASE Len(queue[send[c].to]) < Depth
        <5>1. send[c].to # a
          BY <1>2, <3>1, <4>2
        <5>2. queue' = [queue EXCEPT ![send[c].to] = Append(@, send[c].unit)]
          BY <3>1, <4>2 DEF enqueue, offer
        <5>3. QED
          BY <5>1, <5>2 DEF PoolInv, TypeOK, SenderTypeOK
      <4>3. CASE ~(Len(queue[send[c].to]) < Depth)
        BY <3>1, <4>3 DEF enqueue, offer
      <4>4. QED
        BY <4>2, <4>3
    <3>2. CASE onDrop(c) \/ SendHeld(c) \/ SendDiscard(c)
      BY <3>2 DEF onDrop, SendHeld, Send, SendDiscard
    <3>3. QED
      BY <3>1, <3>2 DEF CallerStep
  <2>3. QED
    BY <2>1, <2>2 DEF SenderQueue!vars
<1>3. QED
  BY <1>1, <1>2

(* A worker's step is a batch handed over, in order, or nothing. *)
LEMMA WorkerQueue ==
  ASSUME PoolInv, NEW a \in Addr, NEW x \in Addr, Worker(x)
  PROVE  [SenderQueue(a)!Next]_(SenderQueue(a)!vars)
<1>1. UNCHANGED <<closed, innerCloses>>
  BY DEF Worker, receive, drainMore, drainEnds, sendBatch, workerDone
<1>2. CASE x # a
  <2>1. batch'[a] = batch[a] /\ queue'[a] = queue[a] /\ handed'[a] = handed[a]
    BY <1>2 DEF Worker, receive, drainMore, drain, drainEnds, sendBatch, workerDone,
                PoolInv, TypeOK, SenderTypeOK
  <2>2. QED
    BY <1>1, <2>1 DEF SenderQueue!vars
<1>3. CASE x = a /\ (receive(x) \/ drainMore(x))
  <2>1. batch'[a] \o queue'[a] = batch[a] \o queue[a]
    BY <1>3, PendingKept DEF PoolInv
  <2>2. handed' = handed
    BY <1>3 DEF receive, drainMore
  <2>3. QED
    BY <1>1, <2>1, <2>2 DEF SenderQueue!vars
<1>4. CASE x = a /\ sendBatch(x)
  <2> DEFINE b == batch[a]
             q == queue[a]
  <2>1. b \in Seq(Unit) /\ q \in Seq(Unit) /\ handed[a] \in Seq(Unit)
    BY DEF PoolInv, TypeOK, SenderTypeOK
  <2>2. handed'[a] = handed[a] \o b /\ batch'[a] = <<>> /\ queue'[a] = q
    BY <1>4 DEF sendBatch, PoolInv, TypeOK, SenderTypeOK
  <2> HIDE DEF b, q
  <2>3. SubSeq(b \o q, 1, Len(b)) = b /\ SubSeq(b \o q, Len(b) + 1, Len(b \o q)) = q
    BY <2>1, SplitWhole
  <2>4. batch'[a] \o queue'[a] = q
    BY <2>1, <2>2, ConcatEmptySeq
  <2>5. CASE b = <<>>
    <3>1. handed[a] \o b = handed[a] /\ b \o q = q
      BY <2>1, <2>5, ConcatEmptySeq
    <3>2. QED
      BY <1>1, <2>2, <2>4, <3>1 DEF SenderQueue!vars, b, q
  <2>6. CASE b # <<>>
    <3>1. Len(b) \in 1..Len(b \o q)
      BY <2>1, <2>6, ConcatProperties, LenProperties, EmptySeq
    <3>2. SenderQueue(a)!Hand(Len(b))
      BY <1>1, <2>2, <2>3, <2>4 DEF SenderQueue!Hand, b, q
    <3>3. QED
      BY <3>1, <3>2 DEF SenderQueue!Next, SenderQueue!HandSome, b, q
  <2>7. QED
    BY <2>5, <2>6
<1>5. CASE x = a /\ (drainEnds(x) \/ workerDone(x))
  BY <1>1, <1>5 DEF drainEnds, workerDone, SenderQueue!vars
<1>6. QED
  BY <1>2, <1>3, <1>4, <1>5 DEF Worker

(* Close shuts the queue and, when nothing waits, finishes it. *)
LEMMA CloseQueue ==
  ASSUME PoolInv, NEW a \in Addr, NEW x \in Addr,
         Teardown(x) \/ (\E g \in Goroutine : Close(x, g))
  PROVE  [SenderQueue(a)!Next]_(SenderQueue(a)!vars)
<1>1. UNCHANGED <<batch, queue, handed>>
  BY DEF Teardown, closeQueue, closeInner, CloseReturn, Close
<1>2. CASE closeQueue(x)
  <2>1. UNCHANGED innerCloses /\ closeOnce[x] = "lock"
    BY <1>2 DEF closeQueue, lockClose
  <2>2. CASE x = a
    <3>1. ~closed[a] /\ closed'[a]
      BY <1>2, <2>1, <2>2 DEF closeQueue, PoolInv, Lifecycle, TypeOK, SenderTypeOK
    <3>2. SenderQueue(a)!Shut
      BY <1>1, <2>1, <3>1 DEF SenderQueue!Shut
    <3>3. QED
      BY <3>2 DEF SenderQueue!Next
  <2>3. CASE x # a
    <3>1. closed'[a] = closed[a]
      BY <1>2, <2>3 DEF closeQueue, PoolInv, TypeOK, SenderTypeOK
    <3>2. QED
      BY <1>1, <2>1, <3>1 DEF SenderQueue!vars
  <2>4. QED
    BY <2>2, <2>3
<1>3. CASE closeInner(x)
  <2>1. UNCHANGED closed
    BY <1>3 DEF closeInner
  <2>2. CASE x = a
    <3>1. closed[a] /\ innerCloses[a] = 0 /\ innerCloses'[a] = 1
          /\ batch[a] = <<>> /\ queue[a] = <<>>
      BY <1>3, <2>2 DEF closeInner, PoolInv, Lifecycle, TypeOK, SenderTypeOK
    <3>2. batch[a] \o queue[a] = <<>>
      BY <3>1
    <3>3. SenderQueue(a)!Finish
      BY <1>1, <2>1, <3>1, <3>2 DEF SenderQueue!Finish
    <3>4. QED
      BY <3>3 DEF SenderQueue!Next
  <2>3. CASE x # a
    <3>1. innerCloses'[a] = innerCloses[a]
      BY <1>3, <2>3 DEF closeInner, PoolInv, TypeOK, SenderTypeOK
    <3>2. QED
      BY <1>1, <2>1, <3>1 DEF SenderQueue!vars
  <2>4. QED
    BY <2>2, <2>3
<1>4. CASE \E g \in Goroutine : CloseReturn(x, g) \/ Close(x, g)
  <2>1. UNCHANGED <<closed, innerCloses>>
    BY <1>4 DEF CloseReturn, closeReturns, Close
  <2>2. QED
    BY <1>1, <2>1 DEF SenderQueue!vars
<1>5. QED
  BY <1>2, <1>3, <1>4 DEF Teardown

(* Every sender of the pool implements the delivery queue's safety: first  *)
(* in first out, nothing left out, bounded by Depth + MaxBatch, nothing    *)
(* accepted after the close, finished once and last.                       *)
THEOREM EverySenderIsAQueue ==
  ASSUME NEW a \in Addr
  PROVE  Spec => SenderQueue(a)!Spec
<1>1. Init => SenderQueue(a)!Init
  BY DEF Init, SenderInit, SenderQueue!Init
<1>2. PoolInv /\ [Next]_vars => [SenderQueue(a)!Next]_(SenderQueue(a)!vars)
  <2> SUFFICES ASSUME PoolInv, [Next]_vars
               PROVE  [SenderQueue(a)!Next]_(SenderQueue(a)!vars)
    OBVIOUS
  <2>1. ASSUME NEW c \in Caller, CallerStep(c) \/ SendHeld(c) \/ SendDiscard(c)
        PROVE  [SenderQueue(a)!Next]_(SenderQueue(a)!vars)
    BY <2>1, CallerQueue
  <2>2. ASSUME NEW x \in Addr, SenderStep(x)
        PROVE  [SenderQueue(a)!Next]_(SenderQueue(a)!vars)
    BY <2>2, WorkerQueue, CloseQueue DEF SenderStep
  <2>3. ASSUME NEW x \in Addr, CloseHeld(x) \/ \E p \in Closer : CloseSender(p, x)
        PROVE  [SenderQueue(a)!Next]_(SenderQueue(a)!vars)
    BY <2>3, CloseQueue DEF CloseHeld, CloseSender, Goroutine
  <2>4. CASE \/ \E c \in Caller, x \in Addr : For(c, x)
             \/ \E p \in Closer : PoolClose(p) \/ CloserStep(p)
             \/ UNCHANGED vars
    <3>1. UNCHANGED <<batch, queue, handed, closed, innerCloses>>
      BY <2>4 DEF For, PoolClose, CloserStep, PoolCloseReturn, Collect, vars, senderVars
    <3>2. QED
      BY <3>1 DEF SenderQueue!vars
  <2>5. QED
    BY <2>1, <2>2, <2>3, <2>4 DEF Next
<1>3. QED
  BY <1>1, <1>2, PoolInvariant, PTL DEF Spec, SenderQueue!Spec
==============================================================================
