------------------------------- MODULE Reporter -------------------------------
(****************************************************************************)
(* x1.Reporter and x1.DestinationWatcher: how an element tells its ADMF     *)
(* that something is wrong, and that it is right again.                     *)
(*                                                                          *)
(* A report is decided under the reporter's mutex, sent with the mutex      *)
(* released, and recorded under the mutex once its outcome is known; the    *)
(* key of the condition is reserved in between.  Callers are the watcher's  *)
(* goroutine, which samples reachability and owns both edges of it, and     *)
(* report sites, which announce an event once and never retract it.         *)
(*                                                                          *)
(* The ADMF and the network between are external: a report may be accepted, *)
(* may fail without being accepted, or may fail at the sender (the client's *)
(* timeout, an answer lost or not attributable) and be accepted all the     *)
(* same, then or later.                                                     *)
(****************************************************************************)
EXTENDS Naturals, FiniteSets

CONSTANTS
  Site,            \* goroutines that report events: NotifyAsync and the like
  Watcher,         \* the DestinationWatcher goroutine
  Address,         \* what delivery is made to
  NoDID,           \* the empty identifier of an endpoint provisioning never named
  Entry,           \* what the element may deliver to: [did, address]
  MDFUnreachable,  \* the condition the watcher reports under
  EventKey,        \* the keys sites report under
  reportThrottle,  \* the throttle window, in units of Tick
  LateRequests,    \* may the ADMF accept a report whose sender saw an error?
  Retasking        \* may the set of destinations in use change?

Proc == Site \cup {Watcher}

\* reportKey
destinationKey(did) == [scope |-> "destination", id |-> did, condition |-> MDFUnreachable]
elementKey == [scope |-> "element", id |-> NoDID, condition |-> MDFUnreachable]

Named == {e \in Entry : e.did # NoDID}
Key == EventKey \cup {elementKey} \cup {destinationKey(e.did) : e \in Named}

(* An identifier is delivered to at one address: X1Server's                 *)
(* DestinationAgreement.                                                    *)
ASSUME ReporterAssumption ==
  /\ Watcher \notin Site
  /\ \A e \in Entry : e.address \in Address
  /\ \A e, f \in Named : e.did = f.did => e = f
  /\ reportThrottle \in Nat \ {0}
  /\ LateRequests \in BOOLEAN
  /\ Retasking \in BOOLEAN

VARIABLES
  down,      \* the addresses delivery is failing to
  inUse,     \* the entries DestinationHealthOf joins from the tasks held
  lastSent,  \* Key -> time since it was last recorded as sent, at most the throttle
  sending,   \* the keys reserved
  reported,  \* the keys announced and not retracted
  attempt,   \* Proc -> the report it is sending
  todo,      \* what the watcher's current sample has left to act on
  held,      \* external: the faults the ADMF has on its list
  late,      \* external: reports still on their way that their sender gave up on
  told       \* history: announcements accepted and not recorded as retracted

vars == <<down, inUse, lastSent, sending, reported, attempt, todo, held, late, told>>
record == <<lastSent, sending, reported>>
admf == <<held, late, told>>

Kind == {"fault", "clear"}

NoAttempt == [key |-> elementKey, kind |-> "fault", result |-> "none"]

Attempting(p) == attempt[p].result # "none"

Start(p, k, kind) ==
  attempt' = [attempt EXCEPT ![p] = [key |-> k, kind |-> kind, result |-> "sent"]]
-----------------------------------------------------------------------------
(* The reservation.                                                         *)

Throttled(k) == lastSent[k] < reportThrottle

\* Mutants of Reservable: a report under way is not looked for; a condition
\* is announced once and for all.
ReservableTwice(k) == ~Throttled(k)
ReservableOnce(k) == k \notin sending /\ ~Throttled(k) /\ k \notin reported

Reservable(k) == k \notin sending /\ ~Throttled(k)

\* Mutant of Retractable: the record is not asked.
RetractableUnreported(k) == k \notin sending

Retractable(k) == k \notin sending /\ k \in reported

reserve(p, k) ==
  /\ Reservable(k)
  /\ sending' = sending \cup {k}
  /\ Start(p, k, "fault")
  /\ UNCHANGED <<lastSent, reported>>

\* Mutant of clearing: the fault is forgotten before its retraction is sent.
clearingForgets(p, k) ==
  /\ Retractable(k)
  /\ sending' = sending \cup {k}
  /\ reported' = reported \ {k}
  /\ Start(p, k, "clear")
  /\ UNCHANGED lastSent

\* The throttle is not consulted: an ending is not a repetition.
clearing(p, k) ==
  /\ Retractable(k)
  /\ sending' = sending \cup {k}
  /\ Start(p, k, "clear")
  /\ UNCHANGED <<lastSent, reported>>

\* Mutant of commit: only the throttle is recorded.
commitUnreported(k) ==
  /\ sending' = sending \ {k}
  /\ lastSent' = [lastSent EXCEPT ![k] = 0]
  /\ UNCHANGED <<reported, told>>

commit(k) ==
  /\ sending' = sending \ {k}
  /\ lastSent' = [lastSent EXCEPT ![k] = 0]
  /\ reported' = reported \cup {k}
  /\ UNCHANGED told

\* Mutant of commitClear: the throttle window outlives the fault.
commitClearThrottled(k) ==
  /\ sending' = sending \ {k}
  /\ reported' = reported \ {k}
  /\ told' = told \ {k}
  /\ UNCHANGED lastSent

commitClear(k) ==
  /\ sending' = sending \ {k}
  /\ reported' = reported \ {k}
  /\ lastSent' = [lastSent EXCEPT ![k] = reportThrottle]
  /\ told' = told \ {k}

release(k) ==
  /\ sending' = sending \ {k}
  /\ UNCHANGED <<lastSent, reported, told>>

\* Mutant of settle: a report is recorded as made whatever came of it.
settleUnasked(p) ==
  LET a == attempt[p] IN
  /\ a.result \in {"accepted", "failed"}
  /\ IF a.kind = "fault" THEN commit(a.key) ELSE commitClear(a.key)
  /\ attempt' = [attempt EXCEPT ![p] = NoAttempt]
  /\ UNCHANGED <<down, inUse, todo, held, late>>

\* settle and settleClear: what is not known delivered was not delivered.
settle(p) ==
  LET a == attempt[p] IN
  /\ a.result \in {"accepted", "failed"}
  /\ CASE a.result = "failed" -> release(a.key)
       [] a.result = "accepted" /\ a.kind = "fault" -> commit(a.key)
       [] a.result = "accepted" /\ a.kind = "clear" -> commitClear(a.key)
  /\ attempt' = [attempt EXCEPT ![p] = NoAttempt]
  /\ UNCHANGED <<down, inUse, todo, held, late>>
-----------------------------------------------------------------------------
(* Callers.                                                                 *)

\* ReportNEIssue, NotifyAsync, NotifyTaskAsync: an event at its own key.
notify(p, k) ==
  /\ ~Attempting(p)
  /\ reserve(p, k)
  /\ UNCHANGED <<down, inUse, todo, admf>>

(* What one look at the health of the destinations comes to.  The endpoints *)
(* without an identifier are one state of the element: a fault while any of *)
(* them is unreachable.                                                     *)
DestinationHealth ==
  {[key |-> destinationKey(e.did), unreachable |-> e.address \in down] :
     e \in inUse \cap Named}

ElementHealth ==
  IF inUse \ Named = {} THEN {}
  ELSE {[key |-> elementKey,
         unreachable |-> \E e \in inUse \ Named : e.address \in down]}

sample ==
  /\ ~Attempting(Watcher)
  /\ todo = {}
  /\ todo' = DestinationHealth \cup ElementHealth
  /\ UNCHANGED <<down, inUse, record, attempt, admf>>

\* One entry of the sample, the element's own last; nothing is sent for a
\* fault that is reserved or throttled, or a clear that has no fault.
watch(h) ==
  /\ ~Attempting(Watcher)
  /\ h \in todo
  /\ h.key = elementKey => todo = {h}
  /\ todo' = todo \ {h}
  /\ IF h.unreachable
     THEN \/ reserve(Watcher, h.key)
          \/ ~Reservable(h.key) /\ UNCHANGED <<record, attempt>>
     ELSE \/ clearing(Watcher, h.key)
          \/ ~Retractable(h.key) /\ UNCHANGED <<record, attempt>>
  /\ UNCHANGED <<down, inUse, admf>>
-----------------------------------------------------------------------------
(* The exchange with the ADMF.                                              *)

\* What the ADMF's list becomes when it accepts a report.
Accept(k, kind) ==
  IF kind = "fault"
  THEN held' = held \cup {k} /\ told' = told \cup {k}
  ELSE held' = held \ {k} /\ UNCHANGED told

Conclude(p, result) == attempt' = [attempt EXCEPT ![p].result = result]

\* A bound answer with no error in it reaches the element.
answered(p) ==
  /\ attempt[p].result = "sent"
  /\ Accept(attempt[p].key, attempt[p].kind)
  /\ Conclude(p, "accepted")
  /\ UNCHANGED <<down, inUse, record, todo, late>>

\* The report did not arrive, or the ADMF answered with an error.
rejected(p) ==
  /\ attempt[p].result = "sent"
  /\ Conclude(p, "failed")
  /\ UNCHANGED <<down, inUse, record, todo, admf>>

\* The element gives up on a report that is still on its way.
timedOut(p) ==
  /\ LateRequests
  /\ attempt[p].result = "sent"
  /\ Conclude(p, "failed")
  /\ late' = late \cup {[key |-> attempt[p].key, kind |-> attempt[p].kind]}
  /\ UNCHANGED <<down, inUse, record, todo, held, told>>

arriveLate(q) ==
  /\ q \in late
  /\ late' = late \ {q}
  /\ \/ Accept(q.key, q.kind)
     \/ UNCHANGED <<held, told>>
  /\ UNCHANGED <<down, inUse, record, attempt, todo>>
-----------------------------------------------------------------------------
(* The environment: endpoints fail and recover, tasks come and go, time     *)
(* passes.                                                                  *)

Endpoints ==
  /\ \E a \in Address : down' \in {down \cup {a}, down \ {a}}
  /\ UNCHANGED <<inUse, record, attempt, todo, admf>>

Retask ==
  /\ Retasking
  /\ inUse' \in SUBSET Entry
  /\ UNCHANGED <<down, record, attempt, todo, admf>>

Tick ==
  /\ lastSent' = [k \in Key |-> IF Throttled(k) THEN lastSent[k] + 1 ELSE lastSent[k]]
  /\ UNCHANGED <<down, inUse, sending, reported, attempt, todo, admf>>

Init ==
  /\ down = {}
  /\ inUse \in SUBSET Entry
  /\ lastSent = [k \in Key |-> reportThrottle]
  /\ sending = {}
  /\ reported = {}
  /\ attempt = [p \in Proc |-> NoAttempt]
  /\ todo = {}
  /\ held = {}
  /\ late = {}
  /\ told = {}

Exchange(p) == answered(p) \/ rejected(p) \/ timedOut(p)

WatcherStep ==
  \/ sample
  \/ \E h \in todo : watch(h)
  \/ Exchange(Watcher)
  \/ settle(Watcher)

Next ==
  \/ \E p \in Site : Exchange(p) \/ settle(p) \/ \E k \in EventKey : notify(p, k)
  \/ WatcherStep
  \/ \E q \in late : arriveLate(q)
  \/ Endpoints
  \/ Retask
  \/ Tick

Spec == Init /\ [][Next]_vars

(* The watcher's goroutine runs and its ticker fires, every attempt ends    *)
(* (the HTTP client has a timeout), time passes, and no report stays on its *)
(* way for ever.  An ADMF that is sent a report of one key again and again  *)
(* accepts one in the end.                                                  *)
FairSpec ==
  /\ Spec
  /\ WF_vars(WatcherStep)
  /\ \A k \in Key : SF_vars(answered(Watcher) /\ attempt[Watcher].key = k)
  /\ WF_vars(\E q \in late : arriveLate(q))
  /\ WF_vars(Tick)
-----------------------------------------------------------------------------
Result == {"none", "sent", "accepted", "failed"}

TypeOK ==
  /\ down \in SUBSET Address
  /\ inUse \in SUBSET Entry
  /\ lastSent \in [Key -> 0 .. reportThrottle]
  /\ sending \in SUBSET Key
  /\ reported \in SUBSET Key
  /\ attempt \in [Proc -> [key : Key, kind : Kind, result : Result]]
  /\ todo \in SUBSET [key : Key, unreachable : BOOLEAN]
  /\ held \in SUBSET Key
  /\ late \in SUBSET [key : Key, kind : Kind]
  /\ told \in SUBSET Key

(* One condition costs one attempt at a time, however many goroutines and   *)
(* however fast it recurs; an announcement and its retraction are never on  *)
(* their way together, where they could be taken in the wrong order.        *)
OneAttempt ==
  \A p, q \in Proc :
    Attempting(p) /\ Attempting(q) /\ attempt[p].key = attempt[q].key => p = q

(* No retraction refers to a fault the ADMF was never told of, whatever     *)
(* was lost and whoever else reports under the same key.                    *)
RetractsWhatWasTold ==
  \A p \in Proc :
    Attempting(p) /\ attempt[p].kind = "clear" => attempt[p].key \in told

(* When every report the ADMF accepted is known to be accepted, the         *)
(* element's record and the ADMF's list agree between reports: a failed     *)
(* report is not taken for made, nor a failed retraction for done.          *)
RecordIsADMFs ==
  ~LateRequests => \A k \in Key \ sending : k \in reported <=> k \in held

(* Rate limiting never applies across a state change: a report it holds     *)
(* back repeats one the ADMF still has on its list.                         *)
SuppressesOnlyRepeats ==
  \A k \in Key \ sending : Throttled(k) => k \in held

(* A destination in use that stays unreachable is on the ADMF's list in the *)
(* end, for good, whatever reports and retractions were lost or arrived     *)
(* late on the way; so is the element itself for an endpoint without an     *)
(* identifier.                                                              *)
StandingFaultIsHeld ==
  \A e \in Entry :
    <>[](e \in inUse /\ e.address \in down) =>
      <>[]((IF e \in Named THEN destinationKey(e.did) ELSE elementKey) \in held)

(* A fault that ends is reported as having ended: a destination in use that *)
(* stays reachable is off the ADMF's list in the end, for good; so is the   *)
(* element when every endpoint without an identifier is reachable and no    *)
(* site reports under the same key.                                         *)
EndedFaultIsRetracted ==
  /\ \A e \in Named :
       <>[](e \in inUse /\ e.address \notin down) => <>[](destinationKey(e.did) \notin held)
  /\ <>[](/\ inUse \ Named # {}
          /\ \A e \in inUse \ Named : e.address \notin down
          /\ \A p \in Site : Attempting(p) => attempt[p].key # elementKey)
     => <>[](elementKey \notin held)
-----------------------------------------------------------------------------
(* The inductive invariant.                                                 *)

\* A key is reserved exactly while some caller is attempting it.
ReservedIsAttempted == sending = {attempt[p].key : p \in {q \in Proc : Attempting(q)}}

\* What is recorded as announced was accepted, and not recorded as retracted.
RecordedWasTold ==
  /\ reported \subseteq told
  /\ \A p \in Proc : attempt[p].result = "accepted" => attempt[p].key \in told
  /\ \A p \in Proc :
       Attempting(p) /\ attempt[p].kind = "clear" => attempt[p].key \in reported

\* The throttle window is open only after a recorded announcement.
ThrottledIsReported == \A k \in Key : Throttled(k) => k \in reported

\* The ADMF's list is ahead of the record only by the attempt it accepted.
RecordLag ==
  ~LateRequests =>
    /\ late = {}
    /\ \A k \in Key \ sending : k \in reported <=> k \in held
    /\ \A p \in Proc : LET a == attempt[p] IN
         /\ a.result \in {"sent", "failed"} => (a.key \in reported <=> a.key \in held)
         /\ a.result = "accepted" => (a.key \in held <=> a.kind = "fault")

(* The inductive invariant: a key is reserved by one attempt from reserve   *)
(* or clearing to settle, and the record of what was announced is right up  *)
(* to that attempt.                                                         *)
ReporterInv ==
  /\ TypeOK
  /\ OneAttempt
  /\ ReservedIsAttempted
  /\ RecordedWasTold
  /\ ThrottledIsReported
  /\ RecordLag
=============================================================================
