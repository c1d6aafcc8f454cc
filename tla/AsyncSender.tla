----------------------------- MODULE AsyncSender -----------------------------
(***************************************************************************)
(* x2x3/async.go: the asynchronous senders.  Each wraps one delivery       *)
(* client, the one for an address, behind a bounded channel that a single  *)
(* worker drains in batches.  Callers are the signalling and data-plane    *)
(* goroutines of the element: they offer a unit under the read side of     *)
(* closeMu and never wait for the worker.  Close takes the write side,     *)
(* closes the channel, waits for the worker to finish what was queued and  *)
(* closes the client, once however many goroutines call it.                *)
(*                                                                         *)
(* The client behind a sender is *Client (the only one Pool.For wraps), so *)
(* send always takes the SendBatch path for a batch of more than one unit. *)
(* A nil unit is refused before anything is touched and is a step that     *)
(* changes nothing.                                                        *)
(***************************************************************************)
EXTENDS Naturals, Sequences, FiniteSets

CONSTANTS
    Addr,       \* delivery addresses, and the senders behind them
    Caller,     \* goroutines that offer product
    Depth,      \* capacity of a sender's channel (defaultQueueDepth)
    MaxBatch,   \* units that share one write (maxDeliveryBatch)
    MaxOffers   \* bound: units one caller offers

ASSUME SenderAssumption == /\ Depth \in Nat \ {0}
                           /\ MaxBatch \in Nat \ {0}
                           /\ MaxOffers \in Nat

VARIABLES
    queue,        \* [Addr -> Seq(Unit)]  the channel's buffer
    batch,        \* [Addr -> Seq(Unit)]  what the worker took and has not sent
    worker,       \* [Addr -> ...]        where the worker is in run
    closed,       \* [Addr -> BOOLEAN]    closed, and the channel closed with it
    closeOnce,    \* [Addr -> ...]        where the one teardown is
    closing,      \* [Addr -> [Goroutine -> ...]]  who called Close
    closeErr,     \* [Addr -> BOOLEAN]    the client's Close returned an error
    innerCloses,  \* [Addr -> Nat]        calls of the client's Close
    handed,       \* [Addr -> Seq(Unit)]  units handed to the client, in order
    offered,      \* [Caller -> Nat]      units each caller has offered
    send,         \* [Caller -> ...]      where each caller is in Send
    dropped       \* bag of units onDrop was called for, as a function

senderVars == <<queue, batch, worker, closed, closeOnce, closing, closeErr,
                innerCloses, handed, offered, send, dropped>>

Unit == Caller \X (1..MaxOffers)

(* Close is called by the pool's teardown goroutine and by whoever else    *)
(* holds the sender.                                                       *)
Goroutine == {"pool", "holder"}

Idle == [at |-> "idle"]

(* Where a caller is in Send, with the sender and the unit it has in hand. *)
SendState == {Idle} \union [at : {"offer", "drop"}, to : Addr, unit : Unit]

SenderInit ==
    /\ queue = [a \in Addr |-> <<>>]
    /\ batch = [a \in Addr |-> <<>>]
    /\ worker = [a \in Addr |-> "none"]
    /\ closed = [a \in Addr |-> FALSE]
    /\ closeOnce = [a \in Addr |-> "none"]
    /\ closing = [a \in Addr |-> [g \in Goroutine |-> "no"]]
    /\ closeErr = [a \in Addr |-> FALSE]
    /\ innerCloses = [a \in Addr |-> 0]
    /\ handed = [a \in Addr |-> <<>>]
    /\ offered = [c \in Caller |-> 0]
    /\ send = [c \in Caller |-> Idle]
    /\ dropped = [u \in Unit |-> 0]

(* The worker of a sender that has just been built. *)
NewAsyncSender(a) == worker' = [worker EXCEPT ![a] = "range"]

(***************************************************************************)
(* Send, on the caller's goroutine.                                        *)
(***************************************************************************)
(* The callers inside enqueue: they hold closeMu for reading. *)
Readers(a) == {c \in Caller : send[c].at = "offer" /\ send[c].to = a}

(* Mutant of lockClose: the flag and the channel close without waiting for *)
(* the callers that have already read the flag.                            *)
lockCloseAtOnce(a) == closeOnce[a] = "lock"

(* closeMu.Lock succeeds when no reader is left. *)
lockClose(a) == closeOnce[a] = "lock" /\ Readers(a) = {}

(* A waiting writer keeps new readers out. *)
rlockClose(a) == closeOnce[a] # "lock"

NextUnit(c) == <<c, offered[c] + 1>>

(* enqueue up to its check of closed, closeMu held for reading. *)
Send(c, a) ==
    /\ send[c] = Idle
    /\ offered[c] < MaxOffers
    /\ rlockClose(a)
    /\ offered' = [offered EXCEPT ![c] = @ + 1]
    /\ send' = [send EXCEPT ![c] =
                  [at |-> IF closed[a] THEN "drop" ELSE "offer",
                   to |-> a, unit |-> NextUnit(c)]]
    /\ UNCHANGED <<queue, batch, worker, closed, closeOnce, closing, closeErr,
                   innerCloses, handed, dropped>>

(* Mutant of offer: a full queue costs the unit and nobody is told. *)
offerSilently(c, a) ==
    /\ queue' = IF Len(queue[a]) < Depth
                THEN [queue EXCEPT ![a] = Append(@, send[c].unit)] ELSE queue
    /\ send' = [send EXCEPT ![c] = Idle]

(* The select: into the channel if it has room, else the unit is dropped. *)
offer(c, a) ==
    IF Len(queue[a]) < Depth
    THEN /\ queue' = [queue EXCEPT ![a] = Append(@, send[c].unit)]
         /\ send' = [send EXCEPT ![c] = Idle]
    ELSE /\ send' = [send EXCEPT ![c].at = "drop"]
         /\ UNCHANGED queue

enqueue(c) ==
    /\ send[c].at = "offer"
    /\ offer(c, send[c].to)
    /\ UNCHANGED <<batch, worker, closed, closeOnce, closing, closeErr,
                   innerCloses, handed, offered, dropped>>

(* onDrop, after closeMu was released, on the caller's goroutine. *)
onDrop(c) ==
    /\ send[c].at = "drop"
    /\ dropped' = [dropped EXCEPT ![send[c].unit] = @ + 1]
    /\ send' = [send EXCEPT ![c] = Idle]
    /\ UNCHANGED <<queue, batch, worker, closed, closeOnce, closing, closeErr,
                   innerCloses, handed, offered>>

(***************************************************************************)
(* run, on the worker's goroutine.                                         *)
(***************************************************************************)
(* The range takes the oldest unit and starts a batch with it. *)
receive(a) ==
    /\ worker[a] = "range"
    /\ queue[a] # <<>>
    /\ batch' = [batch EXCEPT ![a] = <<Head(queue[a])>>]
    /\ queue' = [queue EXCEPT ![a] = Tail(@)]
    /\ worker' = [worker EXCEPT ![a] = "drain"]
    /\ UNCHANGED <<closed, closeOnce, closing, closeErr, innerCloses,
                   handed, offered, send, dropped>>

(* One turn of the drain loop that finds a unit; closed and empty is not one. *)
drain(a) ==
    /\ queue[a] # <<>>
    /\ batch' = [batch EXCEPT ![a] = Append(@, Head(queue[a]))]
    /\ queue' = [queue EXCEPT ![a] = Tail(@)]

drainMore(a) ==
    /\ worker[a] = "drain"
    /\ Len(batch[a]) < MaxBatch
    /\ drain(a)
    /\ UNCHANGED <<worker, closed, closeOnce, closing, closeErr, innerCloses,
                   handed, offered, send, dropped>>

(* The drain ends at a full batch or when nothing is waiting. *)
drainEnds(a) ==
    /\ worker[a] = "drain"
    /\ Len(batch[a]) = MaxBatch \/ queue[a] = <<>>
    /\ worker' = [worker EXCEPT ![a] = "send"]
    /\ UNCHANGED <<queue, batch, closed, closeOnce, closing, closeErr,
                   innerCloses, handed, offered, send, dropped>>

(* send: the batch is handed to the client, which delivers it or returns an *)
(* error; the worker passes the error to onError and goes on either way.    *)
sendBatch(a) ==
    /\ worker[a] = "send"
    /\ handed' = [handed EXCEPT ![a] = @ \o batch[a]]
    /\ batch' = [batch EXCEPT ![a] = <<>>]
    /\ worker' = [worker EXCEPT ![a] = "range"]
    /\ UNCHANGED <<queue, closed, closeOnce, closing, closeErr, innerCloses,
                   offered, send, dropped>>

(* Mutant of Ends: the worker stops at the close and leaves the queue. *)
EndsAtClose(a) == closed[a]

(* The range ends when the channel is closed and empty. *)
Ends(a) == closed[a] /\ queue[a] = <<>>

(* wg.Done *)
workerDone(a) ==
    /\ worker[a] = "range"
    /\ Ends(a)
    /\ worker' = [worker EXCEPT ![a] = "done"]
    /\ UNCHANGED <<queue, batch, closed, closeOnce, closing, closeErr,
                   innerCloses, handed, offered, send, dropped>>

(***************************************************************************)
(* Close.                                                                  *)
(***************************************************************************)
(* A goroutine calls Close; the first one runs the teardown. *)
Close(a, g) ==
    /\ worker[a] # "none"
    /\ closing[a][g] = "no"
    /\ closing' = [closing EXCEPT ![a][g] = "called"]
    /\ closeOnce' = [closeOnce EXCEPT ![a] = IF @ = "none" THEN "lock" ELSE @]
    /\ UNCHANGED <<queue, batch, worker, closed, closeErr, innerCloses,
                   handed, offered, send, dropped>>

(* Under closeMu: no more units, and the channel is closed. *)
closeQueue(a) ==
    /\ lockClose(a)
    /\ closed' = [closed EXCEPT ![a] = TRUE]
    /\ closeOnce' = [closeOnce EXCEPT ![a] = "wait"]
    /\ UNCHANGED <<queue, batch, worker, closing, closeErr, innerCloses,
                   handed, offered, send, dropped>>

(* After wg.Wait, still inside the once: the client is closed. *)
closeInner(a) ==
    /\ closeOnce[a] = "wait"
    /\ worker[a] = "done"
    /\ closeOnce' = [closeOnce EXCEPT ![a] = "done"]
    /\ innerCloses' = [innerCloses EXCEPT ![a] = @ + 1]
    /\ \E err \in BOOLEAN : closeErr' = [closeErr EXCEPT ![a] = err]
    /\ UNCHANGED <<queue, batch, worker, closed, closing, handed,
                   offered, send, dropped>>

(* Mutant of closeReturns: the client's Close is called outside the once. *)
closeReturnsAgain(a, g) ==
    /\ closing[a][g] = "called"
    /\ closeOnce[a] = "done"
    /\ closing' = [closing EXCEPT ![a][g] = "returned"]
    /\ innerCloses' = [innerCloses EXCEPT ![a] = @ + 1]

(* Every caller of Close returns once the teardown is complete. *)
closeReturns(a, g) ==
    /\ closing[a][g] = "called"
    /\ closeOnce[a] = "done"
    /\ closing' = [closing EXCEPT ![a][g] = "returned"]
    /\ UNCHANGED innerCloses

CloseReturn(a, g) ==
    /\ closeReturns(a, g)
    /\ UNCHANGED <<queue, batch, worker, closed, closeOnce, closeErr,
                   handed, offered, send, dropped>>

(* The steps of a sender's own goroutines. *)
Worker(a) == \/ receive(a) \/ drainMore(a) \/ drainEnds(a)
             \/ sendBatch(a) \/ workerDone(a)

Teardown(a) == closeQueue(a) \/ closeInner(a) \/ (\E g \in Goroutine : CloseReturn(a, g))

(***************************************************************************)
(* Properties of the senders.                                              *)
(***************************************************************************)
SenderTypeOK ==
    /\ queue \in [Addr -> Seq(Unit)]
    /\ \A a \in Addr : Len(queue[a]) <= Depth
    /\ batch \in [Addr -> Seq(Unit)]
    /\ \A a \in Addr : Len(batch[a]) <= MaxBatch
    /\ worker \in [Addr -> {"none", "range", "drain", "send", "done"}]
    /\ closed \in [Addr -> BOOLEAN]
    /\ closeOnce \in [Addr -> {"none", "lock", "wait", "done"}]
    /\ closing \in [Addr -> [Goroutine -> {"no", "called", "returned"}]]
    /\ closeErr \in [Addr -> BOOLEAN]
    /\ innerCloses \in [Addr -> Nat]
    /\ handed \in [Addr -> Seq(Unit)]
    /\ offered \in [Caller -> 0..MaxOffers]
    /\ send \in [Caller -> SendState]
    /\ dropped \in [Unit -> Nat]

(* A caller past enqueue's check of closed never meets a closed channel:   *)
(* the send would panic on a signalling goroutine.  closeMu is held for    *)
(* reading across the check and the select for exactly this.               *)
NoSendOnClosedChannel ==
    \A c \in Caller : send[c].at = "offer" => ~closed[send[c].to]

(* The client behind a sender is closed at most once, whoever calls Close  *)
(* and however often, and only after everything accepted was handed to it; *)
(* nobody returns from Close before that.                                  *)
ClosedAfterDrain ==
    \A a \in Addr :
        /\ innerCloses[a] <= 1
        /\ innerCloses[a] = 1 => /\ closed[a] /\ worker[a] = "done"
                                 /\ batch[a] = <<>> /\ queue[a] = <<>>
        /\ (\E g \in Goroutine : closing[a][g] = "returned") => innerCloses[a] = 1

Occurrences(u, s) == Cardinality({i \in DOMAIN s : s[i] = u})

(* Every unit whose Send has returned is accounted for exactly once: it    *)
(* waits in one sender, or was handed to a client, or onDrop was told of   *)
(* it.  None is lost silently and none is both dropped and delivered.      *)
EveryUnitAccounted ==
    \A c \in Caller : \A k \in 1..offered[c] :
        LET u == <<c, k>>
            here(a) == Occurrences(u, handed[a] \o batch[a] \o queue[a])
            held == {a \in Addr : here(a) > 0}
        IN  IF send[c] # Idle /\ k = offered[c]
            THEN held = {} /\ dropped[u] = 0
            ELSE \/ held = {} /\ dropped[u] = 1
                 \/ /\ dropped[u] = 0
                    /\ \E a \in Addr : held = {a} /\ here(a) = 1

(* The senders are alike: one of them stands for all. *)
AnAddr == CHOOSE a \in Addr : TRUE

(* The sender seen as a delivery queue: a batch the worker has not sent    *)
(* yet is still waiting.                                                   *)
Queue == INSTANCE DeliveryQueue WITH
    Capacity <- Depth + MaxBatch,
    pending  <- batch[AnAddr] \o queue[AnAddr],
    handed   <- handed[AnAddr],
    open     <- ~closed[AnAddr],
    finished <- innerCloses[AnAddr]

(* A sender implements the delivery queue, its liveness included: first in *)
(* first out, nothing left out, bounded, finished once and last, and       *)
(* whatever was accepted is handed over in the end.                        *)
SenderIsQueue == Queue!FairSpec
==============================================================================
