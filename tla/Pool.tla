-------------------------------- MODULE Pool --------------------------------
(***************************************************************************)
(* x2x3/pool.go composed with the senders it builds (x2x3/async.go).  A    *)
(* caller asks the pool for the sender of an address and may keep the      *)
(* answer for as long as it likes, across the pool's Close included.       *)
(* Close empties the map, closes every sender it held on a goroutine of    *)
(* its own, and collects their answers until closeTimeout.                 *)
(*                                                                         *)
(* A closed pool builds no sender and an open one never forgets one, so an *)
(* address names at most one sender in the life of a pool.                 *)
(***************************************************************************)
EXTENDS AsyncSender

CONSTANT Closer     \* goroutines that call the pool's Close

VARIABLES
    senders,        \* addresses in the pool's map
    poolClosed,     \* the pool's closed flag
    ref,            \* [Caller -> ...]  the sender a caller was last given
    mine,           \* [Closer -> SUBSET Addr]  the senders a Close took over
    collected,      \* [Closer -> SUBSET Addr]  those that have answered
    firstErr,       \* [Closer -> ...]  the error a Close will return
    poolClose       \* [Closer -> ...]  where a Close is

poolVars == <<senders, poolClosed, ref, mine, collected, firstErr, poolClose>>

vars == <<senderVars, poolVars>>

(* What a caller can hold besides a sender. *)
NoSender == "none"
discardSender == "discard"

Init ==
    /\ SenderInit
    /\ senders = {}
    /\ poolClosed = FALSE
    /\ ref = [c \in Caller |-> NoSender]
    /\ mine = [p \in Closer |-> {}]
    /\ collected = [p \in Closer |-> {}]
    /\ firstErr = [p \in Closer |-> "nil"]
    /\ poolClose = [p \in Closer |-> "idle"]

(* The senders that were ever built: their workers were started. *)
Built == {a \in Addr : worker[a] # "none"}

(***************************************************************************)
(* For, under the pool's mutex.                                            *)
(***************************************************************************)
(* Mutant of buildSender: a closed pool builds like an open one. *)
buildSenderAlways(c, a) ==
    /\ NewAsyncSender(a)
    /\ senders' = senders \union {a}
    /\ ref' = [ref EXCEPT ![c] = a]

(* The address is not in the map: a closed pool hands out a sender that    *)
(* discards, an open one builds one and keeps it.                          *)
buildSender(c, a) ==
    \/ /\ poolClosed
       /\ ref' = [ref EXCEPT ![c] = discardSender]
       /\ UNCHANGED <<worker, senders>>
    \/ /\ ~poolClosed
       /\ NewAsyncSender(a)
       /\ senders' = senders \union {a}
       /\ ref' = [ref EXCEPT ![c] = a]

For(c, a) ==
    /\ send[c] = Idle
    /\ \/ /\ a \in senders
          /\ ref' = [ref EXCEPT ![c] = a]
          /\ UNCHANGED <<worker, senders>>
       \/ /\ a \notin senders
          /\ buildSender(c, a)
    /\ UNCHANGED <<queue, batch, closed, closeOnce, closing, closeErr,
                   innerCloses, handed, offered, send, dropped,
                   poolClosed, mine, collected, firstErr, poolClose>>

(* The caller offers its next unit to the sender it holds. *)
SendHeld(c) ==
    /\ ref[c] \in Addr
    /\ Send(c, ref[c])
    /\ UNCHANGED poolVars

(* discardSender.Send: onDrop, and nothing is dialled or queued. *)
SendDiscard(c) ==
    /\ ref[c] = discardSender
    /\ send[c] = Idle
    /\ offered[c] < MaxOffers
    /\ offered' = [offered EXCEPT ![c] = @ + 1]
    /\ dropped' = [dropped EXCEPT ![NextUnit(c)] = @ + 1]
    /\ UNCHANGED <<queue, batch, worker, closed, closeOnce, closing, closeErr,
                   innerCloses, handed, send>>
    /\ UNCHANGED poolVars

(* A holder of a sender closes it without the pool. *)
CloseHeld(a) ==
    /\ \E c \in Caller : ref[c] = a
    /\ Close(a, "holder")
    /\ UNCHANGED poolVars

(***************************************************************************)
(* Close.                                                                  *)
(***************************************************************************)
(* Mutant of takeSenders: the map is handed over and not emptied. *)
takeSendersKeeps(p) ==
    /\ mine' = [mine EXCEPT ![p] = senders]
    /\ poolClosed' = TRUE
    /\ UNCHANGED senders

(* Under the mutex: the map is taken over and the pool is closed. *)
takeSenders(p) ==
    /\ mine' = [mine EXCEPT ![p] = senders]
    /\ senders' = {}
    /\ poolClosed' = TRUE

PoolClose(p) ==
    /\ poolClose[p] = "idle"
    /\ takeSenders(p)
    /\ poolClose' = [poolClose EXCEPT ![p] = "wait"]
    /\ UNCHANGED <<ref, collected, firstErr>>
    /\ UNCHANGED senderVars

(* The goroutine Close started for a sender calls the sender's Close. *)
CloseSender(p, a) ==
    /\ a \in mine[p]
    /\ Close(a, "pool")
    /\ UNCHANGED poolVars

(* A sender's answer arrives; the first error is kept. *)
Collect(p, a) ==
    /\ poolClose[p] = "wait"
    /\ a \in mine[p] \ collected[p]
    /\ closing[a]["pool"] = "returned"
    /\ collected' = [collected EXCEPT ![p] = @ \union {a}]
    /\ firstErr' = [firstErr EXCEPT ![p] =
                      IF closeErr[a] /\ @ = "nil" THEN "close" ELSE @]
    /\ UNCHANGED <<senders, poolClosed, ref, mine, poolClose>>
    /\ UNCHANGED senderVars

(* Mutant of deadline: the deadline is not an error. *)
deadlineSilent(p) ==
    /\ mine[p] # collected[p]
    /\ UNCHANGED firstErr

(* closeTimeout passes while a sender has not answered. *)
deadline(p) ==
    /\ mine[p] # collected[p]
    /\ firstErr' = [firstErr EXCEPT ![p] = IF @ = "nil" THEN "timedOut" ELSE @]

(* Close returns: every sender has answered, or the deadline passed. *)
PoolCloseReturn(p) ==
    /\ poolClose[p] = "wait"
    /\ \/ mine[p] = collected[p] /\ UNCHANGED firstErr
       \/ deadline(p)
    /\ poolClose' = [poolClose EXCEPT ![p] = "returned"]
    /\ UNCHANGED <<senders, poolClosed, ref, mine, collected>>
    /\ UNCHANGED senderVars

(***************************************************************************)
(* The specification.                                                      *)
(***************************************************************************)
CallerStep(c) == (enqueue(c) \/ onDrop(c)) /\ UNCHANGED poolVars
SenderStep(a) == (Worker(a) \/ Teardown(a)) /\ UNCHANGED poolVars
CloserStep(p) == PoolCloseReturn(p) \/ (\E a \in Addr : Collect(p, a))

Next ==
    \/ \E c \in Caller : CallerStep(c) \/ SendHeld(c) \/ SendDiscard(c)
    \/ \E c \in Caller, a \in Addr : For(c, a)
    \/ \E a \in Addr : SenderStep(a) \/ CloseHeld(a)
    \/ \E p \in Closer : PoolClose(p) \/ CloserStep(p)
    \/ \E p \in Closer, a \in Addr : CloseSender(p, a)

Spec == Init /\ [][Next]_vars

(* Goroutines that can run do: a caller inside Send, a sender's worker     *)
(* (each write it waits for has a deadline) and teardown, and a pool's     *)
(* Close, whose timer fires.  Nobody is obliged to offer product or to     *)
(* close anything.                                                         *)
FairSpec ==
    /\ Spec
    /\ \A c \in Caller : WF_vars(CallerStep(c))
    /\ \A a \in Addr : /\ WF_vars(Worker(a) /\ UNCHANGED poolVars)
                       /\ WF_vars(closeQueue(a) /\ UNCHANGED poolVars)
                       /\ WF_vars(closeInner(a) /\ UNCHANGED poolVars)
                       /\ \A g \in Goroutine :
                             WF_vars(CloseReturn(a, g) /\ UNCHANGED poolVars)
    /\ \A p \in Closer : /\ WF_vars(CloserStep(p))
                         /\ \A a \in Addr : WF_vars(CloseSender(p, a))

(***************************************************************************)
(* Properties.                                                             *)
(***************************************************************************)
(* Every variable has its type.  A batch holds only units: the nil that a  *)
(* closed channel yields never reaches the client.                         *)
TypeOK ==
    /\ SenderTypeOK
    /\ senders \subseteq Addr
    /\ poolClosed \in BOOLEAN
    /\ ref \in [Caller -> Addr \union {NoSender, discardSender}]
    /\ mine \in [Closer -> SUBSET Addr]
    /\ collected \in [Closer -> SUBSET Addr]
    /\ \A p \in Closer : collected[p] \subseteq mine[p]
    /\ firstErr \in [Closer -> {"nil", "close", "timedOut"}]
    /\ poolClose \in [Closer -> {"idle", "wait", "returned"}]

(* No worker outlives the shutdown that was to end it: every sender ever   *)
(* built is in the open pool's map, or was taken over by exactly one Close *)
(* of the closed pool, which tears it down.  A delivery racing Close does  *)
(* not slip a new sender past it.                                          *)
EverySenderIsOwned ==
    IF poolClosed
    THEN /\ senders = {}
         /\ \A a \in Built : Cardinality({p \in Closer : a \in mine[p]}) = 1
    ELSE senders = Built

(* A Close that reports success has drained and closed every sender it     *)
(* took over; one that gave up on its deadline says so.                    *)
NilMeansDrained ==
    \A p \in Closer :
        poolClose[p] = "returned" /\ firstErr[p] = "nil" =>
            \A a \in mine[p] : innerCloses[a] = 1 /\ ~closeErr[a]

(* Every sender the pool built is torn down in the end, its queue drained  *)
(* and its client closed, even when Close stopped waiting for it; a caller *)
(* that asked for a sender while Close ran has not started another.        *)
TeardownCompletes ==
    \A a \in Addr : poolClosed /\ worker[a] # "none" ~> innerCloses[a] = 1
==============================================================================
