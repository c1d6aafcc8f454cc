---------------------------- MODULE DeliveryQueue ----------------------------
(***************************************************************************)
(* What an asynchronous sender promises, without its channel, its worker   *)
(* or its locks: product units that were accepted are handed to the        *)
(* delivery client in the order they were accepted, none twice and none    *)
(* left out; at most Capacity of them wait at any time; once the queue is  *)
(* shut nothing more is accepted; and it is finished exactly once, after   *)
(* the last accepted unit was handed over.                                 *)
(***************************************************************************)
EXTENDS Naturals, Sequences

CONSTANTS
    Unit,       \* the product units
    Capacity    \* how many accepted units may be waiting

VARIABLES
    pending,    \* accepted and not yet handed over, oldest first
    handed,     \* handed over, in order
    open,       \* whether units are still accepted
    finished    \* how often the client behind the queue was closed

vars == <<pending, handed, open, finished>>

Init == pending = <<>> /\ handed = <<>> /\ open = TRUE /\ finished = 0

Accept(u) ==
    /\ open
    /\ Len(pending) < Capacity
    /\ pending' = Append(pending, u)
    /\ UNCHANGED <<handed, open, finished>>

Hand(n) ==
    /\ handed' = handed \o SubSeq(pending, 1, n)
    /\ pending' = SubSeq(pending, n + 1, Len(pending))
    /\ UNCHANGED <<open, finished>>

Shut ==
    /\ open
    /\ open' = FALSE
    /\ UNCHANGED <<pending, handed, finished>>

Finish ==
    /\ ~open /\ pending = <<>> /\ finished = 0
    /\ finished' = 1
    /\ UNCHANGED <<pending, handed, open>>

HandSome == \E n \in 1..Len(pending) : Hand(n)

Next == (\E u \in Unit : Accept(u)) \/ HandSome \/ Shut \/ Finish

Spec == Init /\ [][Next]_vars

(* Whatever waits is handed over in the end, and a shut queue is finished. *)
FairSpec == Spec /\ WF_vars(HandSome) /\ WF_vars(Finish)
==============================================================================
