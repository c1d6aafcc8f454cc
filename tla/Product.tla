------------------------------- MODULE Product -------------------------------
(****************************************************************************)
(* Numbered product on its way to the mediation functions of a task: a PDU  *)
(* takes its number where it is built (Identity.Attributes), and one copy   *)
(* goes to each destination through that destination's bounded queue, which *)
(* drops what it has no room for.  The queues are what AsyncSender is shown *)
(* to implement, DeliveryQueue; a delivery that fails is lost.              *)
(****************************************************************************)
EXTENDS Sequencer

CONSTANTS
  Addr,      \* the destinations of the tasks
  Capacity   \* units a destination's queue holds

ASSUME ProductAssumption == Capacity \in Nat

VARIABLES
  queue,     \* Addr -> the copies waiting, oldest first
  received,  \* Addr -> the PDUs its mediation function has
  lost       \* Addr -> the PDUs dropped at its queue or failed in delivery

vars == <<seqVars, queue, received, lost>>
downstream == <<queue, received, lost>>

Init ==
  /\ SeqInit
  /\ queue = [a \in Addr |-> <<>>]
  /\ received = [a \in Addr |-> {}]
  /\ lost = [a \in Addr |-> {}]
-----------------------------------------------------------------------------
\* The PDU w has built; its attributes, the number included, are fixed.
Attributes(w) == [pdu |-> call[w].pdu, ctx |-> call[w].ctx, num |-> call[w].num]

\* enqueue, for every destination: into the queue if it has room, else
\* dropped.
Send(w) ==
  LET room == {a \in Addr : Len(queue[a]) < Capacity} IN
  /\ call[w].at = "framed"
  /\ queue' = [a \in Addr |-> IF a \in room THEN Append(queue[a], Attributes(w)) ELSE queue[a]]
  /\ lost' = [a \in Addr |-> IF a \in room THEN lost[a] ELSE lost[a] \cup {Attributes(w)}]
  /\ call' = [call EXCEPT ![w] = Idle]
  /\ UNCHANGED <<counters, cells, matched, tasked, era, drawn, received>>

\* The sender's worker hands the oldest unit to the client, which delivers
\* it or returns an error.
Deliver(a) ==
  /\ queue[a] # <<>>
  /\ queue' = [queue EXCEPT ![a] = Tail(@)]
  /\ \/ received' = [received EXCEPT ![a] = @ \cup {Head(queue[a])}] /\ UNCHANGED lost
     \/ lost' = [lost EXCEPT ![a] = @ \cup {Head(queue[a])}] /\ UNCHANGED received
  /\ UNCHANGED seqVars

Numbering ==
  \/ \E w \in Worker, k \in Context : Match(w, k)
  \/ \E w \in Worker : Lookup(w) \/ addFound(w) \/ create(w)
  \/ \E x \in XID : Forget(x)
  \/ \E k \in Context : ForgetContext(k) \/ Retask(k)

Next ==
  \/ Numbering /\ UNCHANGED downstream
  \/ \E w \in Worker : Send(w)
  \/ \E a \in Addr : Deliver(a)

Spec == Init /\ [][Next]_vars
-----------------------------------------------------------------------------
(* Properties.                                                              *)

ProductTypeOK ==
  /\ SeqTypeOK
  /\ \A a \in Addr : Len(queue[a]) <= Capacity

\* What is still on its way to a, of context k.
Underway(a, k) ==
  \/ \E w \in Worker : call[w].at = "framed" /\ call[w].ctx = k
  \/ \E i \in DOMAIN queue[a] : queue[a][i].ctx = k

NumbersOf(pdus, k) == {p.num : p \in {q \in pdus : q.ctx = k}}

(* Loss is visible to every mediation function on its own: once nothing of  *)
(* a live context is on its way to it, the numbers missing from what it     *)
(* received are exactly those of the units lost on the way to it, and no    *)
(* number stands for both a unit it has and one it has not.                 *)
LossShowsAsGap ==
  \A a \in Addr, k \in Context :
    LET n == Cardinality({d \in drawn : d.ctx = k}) IN
    era[k] = 0 /\ n <= Modulus /\ ~Underway(a, k) =>
      (0 .. n - 1) \ NumbersOf(received[a], k) = NumbersOf(lost[a], k)
=============================================================================
