------------------------------ MODULE TaskStore ------------------------------
(****************************************************************************)
(* store.Store: the interception tasks a network function holds, and the    *)
(* index by target identifier its points of interception match traffic      *)
(* against.  Every method runs under the store's own RWMutex, so each is    *)
(* one step.                                                                *)
(*                                                                          *)
(* A Go map is a total function here: an absent XID maps to NoTask and an   *)
(* absent target to the empty set.  The code deletes a target whose set     *)
(* became empty, and Match answers the two alike.                           *)
(****************************************************************************)
CONSTANTS XID,       \* the task identifiers
          EmptyXID,  \* the identifier "", which no task may have
          Target,    \* the target identifiers
          Task,      \* what a task may be: records with a field "targets"
          NoTask     \* the value of an XID no task is held under

(* A task names some of the target identifiers; the absent task and the     *)
(* empty identifier are values of their own.                                *)
ASSUME StoreAssumption ==
  /\ \A t \in Task : t.targets \in SUBSET Target
  /\ NoTask \notin Task
  /\ EmptyXID \notin XID

VARIABLES byXID,     \* XID -> the task held under it, or NoTask
          byTarget   \* Target -> the XIDs indexed under it

storeVars == <<byXID, byTarget>>

TypeOK ==
  /\ byXID \in [XID -> Task \cup {NoTask}]
  /\ byTarget \in [Target -> SUBSET XID]

Init ==
  /\ byXID = [x \in XID |-> NoTask]
  /\ byTarget = [id \in Target |-> {}]
-----------------------------------------------------------------------------
(* The read methods.                                                        *)

Held == {x \in XID : byXID[x] # NoTask}

Get(x) == byXID[x]

Snapshot == {<<x, byXID[x]>> : x \in Held}

Match(id) == {<<x, byXID[x]>> : x \in byTarget[id]}
-----------------------------------------------------------------------------
(* The targets the stored task names, which are the entries unindex drops.  *)
IndexedTargets(x) == IF byXID[x] = NoTask THEN {} ELSE byXID[x].targets

\* Mutant of unindex: a modified task stays under its old targets.
unindexNothing(x) == byTarget

unindex(x) ==
  [id \in Target |->
     IF id \in IndexedTargets(x) THEN byTarget[id] \ {x} ELSE byTarget[id]]

Activate(x, t) ==
  /\ x # EmptyXID
  /\ byXID' = [byXID EXCEPT ![x] = t]
  /\ byTarget' = [id \in Target |->
                    IF id \in t.targets THEN unindex(x)[id] \cup {x}
                                        ELSE unindex(x)[id]]

\* Mutant of Deactivate: the task goes and its index entries stay.
DeactivateKeepsIndex(x) ==
  /\ x \in Held
  /\ byXID' = [byXID EXCEPT ![x] = NoTask]
  /\ UNCHANGED byTarget

Deactivate(x) ==
  /\ x \in Held
  /\ byTarget' = unindex(x)
  /\ byXID' = [byXID EXCEPT ![x] = NoTask]

DeactivateAll ==
  /\ byXID' = [x \in XID |-> NoTask]
  /\ byTarget' = [id \in Target |-> {}]

Next ==
  \/ \E x \in XID \cup {EmptyXID}, t \in Task : Activate(x, t)
  \/ \E x \in XID : Deactivate(x)
  \/ DeactivateAll

Spec == Init /\ [][Next]_storeVars
-----------------------------------------------------------------------------
(* What the index must be for Match to be right: under each identifier the  *)
(* XIDs of exactly the held tasks that name it.                             *)
IndexExact ==
  \A id \in Target :
    byTarget[id] = {x \in Held : id \in byXID[x].targets}

(* The inductive invariant: the store's types together with its index.      *)
StoreInv == TypeOK /\ IndexExact

(* Match answers with the tasks that name the identifier now and with no    *)
(* other.  An entry left behind by a ModifyTask would keep interception     *)
(* running on superseded criteria, or hand the caller the empty task of a   *)
(* withdrawn warrant; one that is missing would intercept less than was     *)
(* ordered.                                                                 *)
MatchExact ==
  \A id \in Target :
    Match(id) = {s \in Snapshot : id \in s[2].targets}
=============================================================================
