---------------------------- MODULE ReporterProofs ----------------------------
(* Proofs about Reporter, for any number of callers, destinations and keys  *)
(* and any throttle window.                                                 *)
EXTENDS Reporter, TLAPS

(* The keys of the watcher's own reports are keys.                          *)
LEMMA WatcherKeys ==
  /\ elementKey \in Key
  /\ \A e \in Named : destinationKey(e.did) \in Key
  /\ NoAttempt \in [key : Key, kind : Kind, result : Result]
  /\ NoAttempt.result = "none"
BY DEF Key, NoAttempt, Kind, Result

(* A sample asks for reports under keys only.                               *)
LEMMA SampleType ==
  DestinationHealth \cup ElementHealth \in SUBSET [key : Key, unreachable : BOOLEAN]
<1>1. ASSUME NEW k \in Key, NEW b \in BOOLEAN
      PROVE  [key |-> k, unreachable |-> b] \in [key : Key, unreachable : BOOLEAN]
  BY <1>1, Zenon
<1>2. ASSUME NEW e \in inUse \cap Named
      PROVE  [key |-> destinationKey(e.did), unreachable |-> e.address \in down]
               \in [key : Key, unreachable : BOOLEAN]
  <2>1. destinationKey(e.did) \in Key
    BY WatcherKeys
  <2>2. (e.address \in down) \in BOOLEAN
    OBVIOUS
  <2> QED
    BY <2>1, <2>2, <1>1, Zenon
<1>3. [key |-> elementKey, unreachable |-> \E e \in inUse \ Named : e.address \in down]
        \in [key : Key, unreachable : BOOLEAN]
  <2>1. (\E e \in inUse \ Named : e.address \in down) \in BOOLEAN
    BY Zenon
  <2> QED
    BY <2>1, <1>1, WatcherKeys, Zenon
<1>4. DestinationHealth \in SUBSET [key : Key, unreachable : BOOLEAN]
  BY <1>2, Zenon DEF DestinationHealth
<1>5. ElementHealth \in SUBSET [key : Key, unreachable : BOOLEAN]
  BY <1>3, Zenon DEF ElementHealth
<1> QED
  BY <1>4, <1>5, Zenon

(* The initial state satisfies the invariant.                               *)
LEMMA ReporterInvInit == Init => ReporterInv
<1> SUFFICES ASSUME Init PROVE ReporterInv
  OBVIOUS
<1>1. TypeOK
  BY WatcherKeys, ReporterAssumption DEF Init, TypeOK
<1>2. \A p \in Proc : attempt[p] = NoAttempt
  BY DEF Init
<1> QED
  BY <1>1, <1>2, WatcherKeys, ReporterAssumption
     DEF Init, ReporterInv, OneAttempt, ReservedIsAttempted, RecordedWasTold,
         ThrottledIsReported, Throttled, RecordLag, Attempting

(* A key taken by a caller that is not attempting anything: reserve and     *)
(* clearing alike, the latter only for a key recorded as announced.         *)
LEMMA ReserveStep ==
  ASSUME ReporterInv, NEW p \in Proc, NEW k \in Key, NEW kind \in Kind,
         ~Attempting(p), k \notin sending,
         kind = "clear" => k \in reported,
         sending' = sending \cup {k},
         Start(p, k, kind),
         UNCHANGED <<lastSent, reported, down, inUse, admf>>,
         todo' \in SUBSET [key : Key, unreachable : BOOLEAN]
  PROVE  ReporterInv'
<1> DEFINE a == [key |-> k, kind |-> kind, result |-> "sent"]
<1>1. /\ attempt' = [attempt EXCEPT ![p] = a]
      /\ a \in [key : Key, kind : Kind, result : Result]
      /\ attempt \in [Proc -> [key : Key, kind : Kind, result : Result]]
  BY DEF Start, ReporterInv, TypeOK, Result
<1>2. attempt'[p] = a /\ \A q \in Proc \ {p} : attempt'[q] = attempt[q]
  BY <1>1
<1> HIDE DEF a
<1>a. a.key = k /\ a.kind = kind /\ a.result = "sent"
  BY DEF a
<1>3. TypeOK'
  BY <1>1 DEF ReporterInv, TypeOK, admf
<1>4. \A q \in Proc : Attempting(q) => attempt[q].key # k
  BY DEF ReporterInv, ReservedIsAttempted
<1>5. OneAttempt'
  BY <1>2, <1>a, <1>4 DEF ReporterInv, OneAttempt, Attempting
<1>6. ReservedIsAttempted'
  <2>1. {q \in Proc : Attempting(q)}' = {q \in Proc : Attempting(q)} \cup {p}
    BY <1>2, <1>a DEF Attempting
  <2>2. \A q \in Proc : Attempting(q) => attempt'[q] = attempt[q]
    BY <1>2
  <2> QED
    BY <2>1, <2>2, <1>2, <1>a DEF ReporterInv, ReservedIsAttempted
<1>7. RecordedWasTold'
  BY <1>2, <1>a DEF ReporterInv, RecordedWasTold, Attempting, admf
<1>8. ThrottledIsReported'
  BY DEF ReporterInv, ThrottledIsReported, Throttled
<1>9. RecordLag'
  BY <1>2, <1>a DEF ReporterInv, RecordLag, admf
<1> QED
  BY <1>3, <1>5, <1>6, <1>7, <1>8, <1>9 DEF ReporterInv

(* A caller learns the outcome of its attempt.  The ADMF's list changes     *)
(* only by an accepted report, and only in the attempt's own key.           *)
LEMMA ConcludeStep ==
  ASSUME ReporterInv, NEW p \in Proc, Exchange(p)
  PROVE  ReporterInv'
<1> DEFINE a == attempt[p]
<1>1. /\ a.result = "sent" /\ a.key \in Key /\ a.kind \in Kind
      /\ attempt \in [Proc -> [key : Key, kind : Kind, result : Result]]
      /\ UNCHANGED <<down, inUse, record, todo>>
  BY DEF Exchange, answered, rejected, timedOut, ReporterInv, TypeOK
<1>2. PICK res \in {"accepted", "failed"} :
        /\ Conclude(p, res)
        /\ res = "accepted" => Accept(a.key, a.kind) /\ UNCHANGED late
        /\ res = "failed" => /\ UNCHANGED <<held, told>>
                             /\ \/ UNCHANGED late
                                \/ LateRequests /\ late' = late \cup {[key |-> a.key, kind |-> a.kind]}
  BY DEF Exchange, answered, rejected, timedOut, admf
<1>3. /\ attempt'[p].key = a.key /\ attempt'[p].kind = a.kind /\ attempt'[p].result = res
      /\ \A q \in Proc \ {p} : attempt'[q] = attempt[q]
      /\ attempt' \in [Proc -> [key : Key, kind : Kind, result : Result]]
  BY <1>1, <1>2 DEF Conclude, Result
<1>4. /\ held' \in SUBSET Key /\ told' \in SUBSET Key /\ told \subseteq told'
      /\ res = "accepted" /\ a.kind = "fault" =>
           held' = held \cup {a.key} /\ told' = told \cup {a.key}
      /\ res = "accepted" /\ a.kind = "clear" => held' = held \ {a.key} /\ told' = told
  BY <1>1, <1>2 DEF Accept, ReporterInv, TypeOK, Kind
<1>5. TypeOK'
  BY <1>1, <1>2, <1>3, <1>4 DEF ReporterInv, TypeOK, record
<1>6. OneAttempt'
  BY <1>1, <1>2, <1>3 DEF ReporterInv, OneAttempt, Attempting
<1>7. ReservedIsAttempted'
  <2>1. \A q \in Proc : (Attempting(q)' <=> Attempting(q)) /\ attempt'[q].key = attempt[q].key
    BY <1>1, <1>2, <1>3 DEF Attempting
  <2>2. {q \in Proc : Attempting(q)}' = {q \in Proc : Attempting(q)}
    BY <2>1
  <2> QED
    BY <2>1, <2>2, <1>1 DEF ReporterInv, ReservedIsAttempted, record
<1>8. RecordedWasTold'
  BY <1>1, <1>2, <1>3, <1>4 DEF ReporterInv, RecordedWasTold, Attempting, record, Kind
<1>9. ThrottledIsReported'
  BY <1>1 DEF ReporterInv, ThrottledIsReported, Throttled, record
<1>10. RecordLag'
  <2> SUFFICES ASSUME ~LateRequests PROVE RecordLag'
    BY DEF RecordLag
  <2>1. late' = {}
    BY <1>2 DEF ReporterInv, RecordLag
  <2>2. a.key \in sending
    BY <1>1 DEF ReporterInv, ReservedIsAttempted, Attempting
  <2>3. \A k \in Key \ sending' : k \in reported' <=> k \in held'
    BY <2>2, <1>1, <1>2, <1>4 DEF ReporterInv, RecordLag, record, Kind
  <2>4. \A q \in Proc \ {p} : Attempting(q) => attempt[q].key # a.key
    BY <1>1 DEF ReporterInv, OneAttempt, Attempting
  <2>5. \A k \in Key \ {a.key} : k \in held' <=> k \in held
    BY <1>1, <1>2, <1>4 DEF Kind
  <2>6. ASSUME NEW q \in Proc
        PROVE  /\ attempt'[q].result \in {"sent", "failed"} =>
                    (attempt'[q].key \in reported' <=> attempt'[q].key \in held')
               /\ attempt'[q].result = "accepted" =>
                    (attempt'[q].key \in held' <=> attempt'[q].kind = "fault")
    <3>1. CASE q = p
      BY <3>1, <1>1, <1>2, <1>3, <1>4 DEF ReporterInv, RecordLag, record, Kind
    <3>2. CASE q # p
      <4>1. attempt'[q] = attempt[q] /\ attempt[q].key \in Key
        BY <3>2, <1>3, <1>1
      <4>2. Attempting(q) =>
              (attempt[q].key \in held' <=> attempt[q].key \in held)
        BY <3>2, <4>1, <2>4, <2>5
      <4> QED
        BY <4>1, <4>2, <1>1 DEF ReporterInv, RecordLag, Attempting, record
    <3> QED
      BY <3>1, <3>2
  <2> QED
    BY <2>1, <2>3, <2>6 DEF RecordLag
<1> QED
  BY <1>5, <1>6, <1>7, <1>8, <1>9, <1>10 DEF ReporterInv

(* The reservation ends, with what the attempt established on record.       *)
LEMMA SettleStep ==
  ASSUME ReporterInv, NEW p \in Proc, settle(p)
  PROVE  ReporterInv'
<1> DEFINE a == attempt[p]
<1>1. /\ a.result \in {"accepted", "failed"} /\ a.key \in Key /\ a.kind \in Kind
      /\ attempt \in [Proc -> [key : Key, kind : Kind, result : Result]]
      /\ attempt' = [attempt EXCEPT ![p] = NoAttempt]
      /\ sending' = sending \ {a.key}
      /\ UNCHANGED <<down, inUse, todo, held, late>>
  BY DEF settle, ReporterInv, TypeOK, release, commit, commitClear, Kind
<1>2. /\ attempt'[p].result = "none" /\ attempt' \in [Proc -> [key : Key, kind : Kind, result : Result]]
      /\ \A q \in Proc \ {p} : attempt'[q] = attempt[q]
  BY <1>1, WatcherKeys
<1>3. \/ a.result = "failed" /\ UNCHANGED <<lastSent, reported, told>>
      \/ /\ a.result = "accepted" /\ a.kind = "fault"
         /\ lastSent' = [lastSent EXCEPT ![a.key] = 0]
         /\ reported' = reported \cup {a.key} /\ told' = told
      \/ /\ a.result = "accepted" /\ a.kind = "clear"
         /\ lastSent' = [lastSent EXCEPT ![a.key] = reportThrottle]
         /\ reported' = reported \ {a.key} /\ told' = told \ {a.key}
  BY <1>1 DEF settle, release, commit, commitClear, Kind
<1>4. \A q \in Proc \ {p} : Attempting(q) => attempt[q].key # a.key
  BY <1>1 DEF ReporterInv, OneAttempt, Attempting
<1>5. TypeOK'
  BY <1>1, <1>2, <1>3, ReporterAssumption DEF ReporterInv, TypeOK
<1>6. OneAttempt'
  BY <1>2 DEF ReporterInv, OneAttempt, Attempting
<1>7. ReservedIsAttempted'
  <2>1. {q \in Proc : Attempting(q)}' = {q \in Proc : Attempting(q)} \ {p}
    BY <1>1, <1>2 DEF Attempting
  <2>2. \A q \in Proc \ {p} : attempt'[q].key = attempt[q].key
    BY <1>2
  <2> QED
    BY <2>1, <2>2, <1>1, <1>4 DEF ReporterInv, ReservedIsAttempted, Attempting
<1>8. RecordedWasTold'
  <2>1. reported' \subseteq told'
    BY <1>1, <1>3 DEF ReporterInv, RecordedWasTold
  <2>2. \A q \in Proc : attempt'[q].result = "accepted" => attempt'[q].key \in told'
    BY <1>2, <1>3, <1>4 DEF ReporterInv, RecordedWasTold, Attempting
  <2>3. \A q \in Proc : attempt'[q].result # "none" /\ attempt'[q].kind = "clear" =>
                          attempt'[q].key \in reported'
    BY <1>2, <1>3, <1>4 DEF ReporterInv, RecordedWasTold, Attempting
  <2> QED
    BY <2>1, <2>2, <2>3 DEF RecordedWasTold, Attempting
<1>9. ThrottledIsReported'
  <2> SUFFICES ASSUME NEW k \in Key, lastSent'[k] < reportThrottle PROVE k \in reported'
    BY DEF ThrottledIsReported, Throttled
  <2>1. lastSent \in [Key -> 0 .. reportThrottle]
    BY DEF ReporterInv, TypeOK
  <2>2. CASE k = a.key
    BY <2>1, <2>2, <1>1, <1>3, ReporterAssumption DEF ReporterInv, ThrottledIsReported, Throttled
  <2>3. CASE k # a.key
    BY <2>1, <2>3, <1>1, <1>3 DEF ReporterInv, ThrottledIsReported, Throttled
  <2> QED
    BY <2>2, <2>3
<1>10. RecordLag'
  <2> SUFFICES ASSUME ~LateRequests PROVE RecordLag'
    BY DEF RecordLag
  <2>1. late' = {}
    BY <1>1 DEF ReporterInv, RecordLag
  <2>2. a.key \in reported' <=> a.key \in held'
    BY <1>1, <1>3 DEF ReporterInv, RecordLag, Kind
  <2>3. \A k \in Key \ {a.key} : k \in reported' <=> k \in reported
    BY <1>3
  <2>4. \A k \in Key \ sending' : k \in reported' <=> k \in held'
    BY <2>2, <2>3, <1>1 DEF ReporterInv, RecordLag
  <2>5. ASSUME NEW q \in Proc
        PROVE  /\ attempt'[q].result \in {"sent", "failed"} =>
                    (attempt'[q].key \in reported' <=> attempt'[q].key \in held')
               /\ attempt'[q].result = "accepted" =>
                    (attempt'[q].key \in held' <=> attempt'[q].kind = "fault")
    <3>1. CASE q = p
      BY <3>1, <1>2
    <3>2. CASE q # p
      <4>1. attempt'[q] = attempt[q] /\ attempt[q].key \in Key
        BY <3>2, <1>2, <1>1
      <4>2. Attempting(q) => (attempt[q].key \in reported' <=> attempt[q].key \in reported)
        BY <3>2, <4>1, <1>4, <2>3
      <4> QED
        BY <4>1, <4>2, <1>1 DEF ReporterInv, RecordLag, Attempting
    <3> QED
      BY <3>1, <3>2
  <2> QED
    BY <2>1, <2>4, <2>5 DEF RecordLag
<1> QED
  BY <1>5, <1>6, <1>7, <1>8, <1>9, <1>10 DEF ReporterInv

(* A report that was given up on arrives: only possible where the record    *)
(* and the ADMF's list are not claimed to agree.                            *)
LEMMA LateStep ==
  ASSUME ReporterInv, NEW q \in late, arriveLate(q)
  PROVE  ReporterInv'
<1>1. LateRequests
  BY DEF ReporterInv, RecordLag
<1>2. q.key \in Key /\ q.kind \in Kind
  BY DEF ReporterInv, TypeOK
<1>3. /\ UNCHANGED <<down, inUse, record, attempt, todo>>
      /\ late' = late \ {q}
      /\ held' \in SUBSET Key /\ told' \in SUBSET Key /\ told \subseteq told'
  BY <1>2 DEF arriveLate, Accept, ReporterInv, TypeOK
<1> QED
  BY <1>1, <1>3
     DEF ReporterInv, TypeOK, OneAttempt, ReservedIsAttempted, RecordedWasTold,
         ThrottledIsReported, Throttled, RecordLag, Attempting, record

(* Steps that leave the record, the attempts and the ADMF alone.            *)
LEMMA QuietStep ==
  ASSUME ReporterInv,
         UNCHANGED <<sending, reported, attempt, admf>>,
         lastSent' \in [Key -> 0 .. reportThrottle],
         \A k \in Key : Throttled(k)' => Throttled(k),
         down' \in SUBSET Address, inUse' \in SUBSET Entry,
         todo' \in SUBSET [key : Key, unreachable : BOOLEAN]
  PROVE  ReporterInv'
BY DEF ReporterInv, TypeOK, OneAttempt, ReservedIsAttempted, RecordedWasTold,
       ThrottledIsReported, RecordLag, Attempting, admf

(* The throttle window only runs down.                                      *)
LEMMA TickStep ==
  ASSUME ReporterInv, Tick
  PROVE  ReporterInv'
<1>1. /\ lastSent \in [Key -> 0 .. reportThrottle]
      /\ lastSent' = [k \in Key |-> IF lastSent[k] < reportThrottle
                                    THEN lastSent[k] + 1 ELSE lastSent[k]]
  BY DEF ReporterInv, TypeOK, Tick, Throttled
<1>2. /\ lastSent' \in [Key -> 0 .. reportThrottle]
      /\ \A k \in Key : lastSent'[k] < reportThrottle => lastSent[k] < reportThrottle
  BY <1>1, ReporterAssumption
<1> QED
  BY <1>2, QuietStep DEF Tick, ReporterInv, TypeOK, Throttled

(* The watcher acts on one entry of its sample.                             *)
LEMMA WatchStep ==
  ASSUME ReporterInv, NEW h \in todo, watch(h)
  PROVE  ReporterInv'
<1>1. /\ h.key \in Key /\ ~Attempting(Watcher) /\ Watcher \in Proc
      /\ todo' \in SUBSET [key : Key, unreachable : BOOLEAN]
      /\ UNCHANGED <<down, inUse, admf>>
  BY DEF watch, ReporterInv, TypeOK, Proc
<1>2. CASE reserve(Watcher, h.key)
  BY <1>1, <1>2, ReserveStep DEF reserve, Reservable, Kind
<1>3. CASE clearing(Watcher, h.key)
  BY <1>1, <1>3, ReserveStep DEF clearing, Retractable, Kind
<1>4. CASE UNCHANGED <<record, attempt>>
  BY <1>1, <1>4, QuietStep DEF record, ReporterInv, TypeOK, Throttled
<1> QED
  BY <1>2, <1>3, <1>4 DEF watch

(* Every step preserves the invariant.                                      *)
LEMMA ReporterInvStep == ReporterInv /\ [Next]_vars => ReporterInv'
<1> SUFFICES ASSUME ReporterInv, [Next]_vars PROVE ReporterInv'
  OBVIOUS
<1> USE DEF Proc
<1>1. ASSUME NEW p \in Proc, Exchange(p) PROVE ReporterInv'
  BY <1>1, ConcludeStep
<1>2. ASSUME NEW p \in Proc, settle(p) PROVE ReporterInv'
  BY <1>2, SettleStep
<1>3. ASSUME NEW p \in Site, NEW k \in EventKey, notify(p, k) PROVE ReporterInv'
  <2>1. k \in Key
    BY DEF Key
  <2> QED
    BY <2>1, <1>3, ReserveStep DEF notify, reserve, Reservable, Kind, ReporterInv, TypeOK
<1>4. CASE sample
  <2>1. todo' \in SUBSET [key : Key, unreachable : BOOLEAN]
    BY <1>4, SampleType DEF sample
  <2> QED
    BY <2>1, <1>4, QuietStep DEF sample, record, ReporterInv, TypeOK, Throttled
<1>5. ASSUME NEW h \in todo, watch(h) PROVE ReporterInv'
  BY <1>5, WatchStep
<1>6. ASSUME NEW q \in late, arriveLate(q) PROVE ReporterInv'
  BY <1>6, LateStep
<1>7. CASE Endpoints
  <2>1. down' \in SUBSET Address
    BY <1>7 DEF Endpoints, ReporterInv, TypeOK
  <2> QED
    BY <2>1, <1>7, QuietStep DEF Endpoints, record, ReporterInv, TypeOK, Throttled
<1>8. CASE Retask
  BY <1>8, QuietStep DEF Retask, record, ReporterInv, TypeOK, Throttled
<1>9. CASE Tick
  BY <1>9, TickStep
<1>10. CASE UNCHANGED vars
  BY <1>10, QuietStep DEF vars, admf, ReporterInv, TypeOK, Throttled
<1> QED
  BY <1>1, <1>2, <1>3, <1>4, <1>5, <1>6, <1>7, <1>8, <1>9, <1>10
     DEF Next, WatcherStep

(* The reservation, the record and the ADMF's list stay in step in every    *)
(* interleaving of reserve, clearing and settle.                            *)
THEOREM ReporterInvariant == Spec => []ReporterInv
BY ReporterInvInit, ReporterInvStep, PTL DEF Spec

(* Reservations keep one condition to one attempt: sending is held from the *)
(* decision until the outcome is recorded.                                  *)
THEOREM AttemptsAreSingle == Spec => []OneAttempt
<1>1. ReporterInv => OneAttempt
  BY DEF ReporterInv
<1> QED
  BY <1>1, ReporterInvariant, PTL

(* clearing never lets out a retraction of a fault the ADMF did not accept, *)
(* whatever was lost before.                                                *)
THEOREM NoPhantomRetraction == Spec => []RetractsWhatWasTold
<1>1. ReporterInv => RetractsWhatWasTold
  BY DEF ReporterInv, RecordedWasTold, RetractsWhatWasTold
<1> QED
  BY <1>1, ReporterInvariant, PTL

(* Without lost answers, settle and settleClear keep the element's record   *)
(* equal to the ADMF's list.                                                *)
THEOREM RecordAgrees == Spec => []RecordIsADMFs
<1>1. ReporterInv => RecordIsADMFs
  BY DEF ReporterInv, RecordLag, RecordIsADMFs
<1> QED
  BY <1>1, ReporterInvariant, PTL

(* Without lost answers, what reserve holds back repeats a fault the ADMF   *)
(* still has: the throttle never swallows a change of state.                *)
THEOREM ThrottleSpansNoChange == Spec => [](~LateRequests => SuppressesOnlyRepeats)
<1>1. ReporterInv => (~LateRequests => SuppressesOnlyRepeats)
  BY DEF ReporterInv, RecordLag, ThrottledIsReported, SuppressesOnlyRepeats
<1> QED
  BY <1>1, ReporterInvariant, PTL
=============================================================================
