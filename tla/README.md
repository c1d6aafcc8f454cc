# A TLA+ model of the lawful-interception library `li`

The library gives a network function the LI interfaces of ETSI TS 103 221 and
3GPP TS 33.128: it takes tasking from an administration function (ADMF) over X1,
tells the point of interception (POI) what to intercept, delivers product to
mediation functions (MDF) over X2/X3, reports faults back to the ADMF, and, in a
triggering function, tasks other elements in turn.  This directory holds TLA+
modules for the parts of it whose correctness depends on *order* (concurrent
requests, goroutines that outlive what started them, answers that are lost or
late, shutdown under load) and for the parts where a case among many decides
(what a target identifier is mapped to, how octets are cut into PDUs, which
members a record is written with).  TLC checks them on small instances; TLAPS
proves every safety property of the runs for all values of the constants.

Paths below are relative to `src/`.

## 1. Inventory

| Component | State | Operations | Interacts with | What is hard, and what makes it correct |
|---|---|---|---|---|
| Task store, `store/store.go` | `byXID`, index `byTarget` | Activate, Deactivate, DeactivateAll, Get, Match, Snapshot, Len | called by the X1 server and by data-plane lookups | replacing a task must undo the old index entries: a match is exactly the held tasks naming the target |
| X1 server, `x1/x1.go`, `x1/auth.go` | destinations, `lastSeen`, `transitionMu`, `mu` | one goroutine per request; Activate/Modify/DeactivateTask, DeactivateAllTasks, CreateDestination, RemoveAllDestinations, Keepalive, Get*/List*; `WatchKeepalive` | store; POI through `OnTaskChange`/`OnPurge`; ADMF | interleaved transitions, purge racing activation, check-then-act on destinations, a fail-safe that decides and then acts: POI, store and answers must agree |
| Reporter, `x1/report.go` | `lastSent`, `sending`, `reported` per key | Notify*, Report*Issue, fault and clear edges | ADMF over X1; called from any goroutine | decide under a lock, send without it, record under it again; the send may fail after it was accepted |
| Destination watcher, `x1/faultwatch.go` | none of its own (the reporter's record) | sample on tick or nudge | pool's reachability, X1 server's tasking, reporter | both edges of each fault, aggregate scope, destinations leaving the tasking |
| Delivery client, `x2x3/client.go`, `x2x3/keepalive.go` | `live`, `closed`, `unreachable`, per connection: counter, stop, deadline | Send, SendBatch, Close; keepalive loop, read loop, expiry | TLS connection to an MDF; async sender | partial writes, one redial, goroutines of dropped connections, TIME_P2, Close waiting for goroutines that need its lock |
| Async sender, `x2x3/async.go` | bounded channel, `closed`, `closeOnce` | Send, run, Close | callers on signalling paths; the delivery client | send racing close of a channel, drop accounting, drain before close |
| Pool, `x2x3/pool.go` | `senders`, `closed` | For, Close, UnreachableAt/Among | async senders | For racing Close, bounded shutdown |
| Requester, `x1/trigger.go` | none between calls | CreateDestination, Activate/Modify/DeactivateTask, Keepalive, ReportedTasks | X1 servers of other elements | misrouted, late or crossed answers must not be believed |
| Sequencer, `x2x3/sequencer.go`, `x2x3/attributes.go` | counter per (XID, correlation) | Next, Forget, ForgetContext, Attributes | framing goroutines; the senders' queues | Next racing Forget and itself; the number is taken before the queue that may drop: loss must show as a gap, and only loss |
| Target mapping, `x1/x1.go`, `x1/messages.go`, `types/` | none | malformedTaskIdentifiers, unhonourableTaskFields, mapTarget, targetXML | X1 server, store, triggering function | choices misused, lists mapped in part, reports that read back differently: what is intercepted is what was ordered |
| PDU codec and framing, `x2x3/x2x3.go`, `x2x3/keepalive.go` | the reader's buffer | Marshal, Unmarshal, readLoop | delivery client; MDF | reads that cut PDUs anywhere, lengths that are the peer's claim, a sum that overflows |
| IRI encoding, `iri/` | none | EncodeXIRI | POIs; carried in X2 PDUs | a zero is absent in one record and wrong in another: what is written conforms to its definition |
| Responses and interrogation, `x1/response.go` | none | rendering, Get*/List* | reads store and destinations | torn reads across two locks |
| Certificate binding (`x1/auth.go`) | none | parsing of subjects and URIs | X1 server, requester | verdicts per message |
| Listener, mTLS (`x1/listener.go`, `mtls/`) | none | configuration | net/http | – |

`PROJECT.json` lists the hazards of this code line by line, each with the
property that would catch it going wrong.

## 2. Modules

```
TaskStore ──instance──> X1Server            Reporter (with the watcher)
    └────extends────> Tasking               Requester
DeliveryQueue <──refines── AsyncSender <──extends── Pool
Sequencer <──extends── Product              DeliveryClient
PDU, XIRI <──extends── Wire
```

`XxxProofs` holds the theorems about `Xxx` and the modules it extends, `MCXxx` the
instances for TLC.

**TaskStore.**  `byXID` and `byTarget` are the two maps.  Each operation runs
under the store's own lock, so it is one action; `X1Server` uses the same
operators as the steps of its request goroutines.  A task is anything with a
`targets` field.

**Tasking.**  The store under the messages that provision it.  A target
identifier is the plain arms it populates and at most one extension with a list
of LI_T3 criteria, so that a message can misuse the choice as `encoding/xml`
lets it.  The operators are the code's functions: `malformedTargetValue`,
`ambiguous` (`populatedArms`, `populatedLIT3Arms`), `unhonourableTaskFields`,
`mapUPFLIT3Identifier`, `mapExtensionTarget`, `mapTarget`, `taskFromDetails`, and
for the report `XMLElement`, `addressArm`, `extensionTargetArm`, `targetXML`.
Texts are the few the checks tell apart (an address that is one and one that is
not, hexadecimal in either case).  Numbers are texts too, because the code holds
them as such: an extension's are read into 32 or 64 bits and written again
(`Readable`, `numeral`), where "007" becomes "7" and 4294967296 is too large for a
TEID and fails the message (`unreadable`), while a plain `gtpuTunnelId` is kept as it
came and `cut` at an `@`.  What a message asks for is said a second time without the
mapping: `Orders` are its targets, each as the criteria that would fulfil it, and
`InterceptsAsOrdered` compares the two.  `WellFormed` is what XML can hold at all: arms
that there are, one extension at most.  `Provision` is an accepted Activate or
ModifyTask; `ordered` remembers the message in force and is history.  Identifiers
that are not well formed at all, refusal codes and the concurrency of requests are
X1Server's `check` and `pc`.

**X1Server.**  Each goroutine has a location `pc`; a step is what the code does
between two points where another goroutine can see it: taking `transitionMu`, a
call of the store, a section under `mu`, a callback of the POI.  So an activation
is `applyAuthenticated` (authentication, `recordActivity`), `lockTransition`,
`applyTaskTransition` (read, checks in the order of the code's switch),
`activate` (store), `notifyChanged` (POI, unless it is an exact replay), unlock
and answer; a purge is snapshot, clear, one callback after another.  Nothing
makes steps under the lock atomic except the lock.  What parsing and validation
conclude about a message is a field `check` of it; what a DID resolves to, and
the copying of endpoints into a task, is modelled in full (`resolve`,
`endpoints`, `hasDelivery`).  Time is the age of things, up to `Timeout + 1`.
`quiet`, `arrived` and `taskAge` are history variables.

**Reporter.**  `sending`, `reported` and `lastSent` (as an age) are the fields of
the same name.  A caller reserves a key, sends, and settles; the watcher samples
all destinations in use and then acts on one entry after another, the
element-scoped aggregate last.  The ADMF's list `held` is external.  A report ends as
accepted, refused, or unanswered; with `LateRequests` an unanswered one may have
been accepted, or be accepted later.  `told` is history.

**DeliveryClient.**  A connection has a state of its own (`conn[c]`), because its
keepalive loop and reader go on after it is replaced.  `mu` is held from
`deliver`'s lock to its return, and each dial and each write in between is a
step; `sendBytes` records reachability after the lock is released, as the code
does.  A message is the offsets at which its units end, so a write stops at any
offset and `resumeAt` is the code's function.  The MDF answers, is silent (it accepts
connections and acknowledges nothing, the peer of keepalive.go:192) or is gone:
TIME_P2 runs out against the last two, a dial fails only against them.  What the peer reads is tracked as
the number of whole units and whether the last one was torn.

**AsyncSender, DeliveryQueue, Pool.**  A sender per address: `enqueue` is split
at the check of `closed` and the `select`, the worker at each receive, `Close`
at the lock, the wait and the inner close.  The once and the wait group are
`closeOnce` and the worker's `done`.  `Pool` adds the map, callers that keep the
sender they were given across `Close`, and `Close`'s goroutines, result channel
and deadline.  `DeliveryQueue` is what a sender promises: a FIFO queue of bounded
length that is shut once, hands over everything accepted, and is finished once
and last.

**Sequencer, Product.**  The map `counters` points into `cells`, as the code's map
holds pointers: a goroutine that found a counter under the read lock adds to it
after the lock is released, whether or not the entry is still there.  `Next` is
therefore `Lookup`, then `addFound` or `create` with its second look.  Numbers
wrap at `Modulus`.  Matching and tasking are external; `era` and `drawn` are
history.  `Product` adds what happens to a numbered PDU: one copy to each
destination's queue, which drops what it has no room for, and a delivery that
succeeds or fails.  The queue is the abstract one `AsyncSender` is shown to
implement.

**PDU, XIRI, Wire.**  `PDU` is the octet layout: `Marshal`, `Unmarshal`,
`parseTLVs`, `validate`, over sequences of numbers below `Radix`.  `XIRI` is
`EncodeXIRI`: the seventeen records as sequences of members (tag, type,
mandatory or optional), the two validations and the emitters.  A member's value is
one of six classes (absent, empty, hollow, legal, illegal, foreign), the finest
distinction any test in the encoder makes.  Reference operators (`ZeroIsLegal`,
`Conforms`) say what the published definitions allow; `Unchecked` lists what the
encoder does not look at, so that nothing else may join it unnoticed.  `Wire` has
the two directions of a connection: octets from the MDF read in pieces by
`readLoop` and decoded, and an event encoded, carried and decoded by the MDF.  A
unit comes with its fate, and `Fated` says what each fate means of its octets: one
that is handled or stops the reader decodes, one that is refused does not, or
declares more than the limit and is followed by enough octets to be refused.

**Requester.**  A call posts one request, and any answer that was ever given to
anybody may arrive on it, from the element, from another one, or from an endpoint
that is no element and answers in an element's name under its own certificate.
`validateBound` and `bindsResponderCert` are the code's checks.  In the
certificate-less mode (`authenticated = FALSE`) the second one accepts anybody,
and the two safety properties claim nothing.  Whether an answer's type is that of an
error and whether it carries errorInformation are two things, as in trigger.go:646.
Elements are reduced to the tasks they hold; `served` records what they really did.

## 3. Runs

| Run | Instance | Checks | States |
|---|---|---|---|
| `tasking` | 2 XIDs, 78 messages over all arms, 48 of them acceptable | `StoreInv`, `MatchExact`, `InterceptsAsOrdered`, `ReportsWhatIsHeld` | 2,401 |
| `x1` | 2 requests, watchdog, 1 XID, 2 targets, 2 DIDs (one configured), 2 addresses, window 0 | `X1Inv`, `POIMirrorsStore`, `DestinationAgreement`, `AcknowledgedIsDone`, `LapseSparesFreshTasks`, `SilenceEndsInterception` | 454,970 |
| `reporter` | watcher, 1 site, a named and two unnamed destinations at 2 addresses, retasking | `ReporterInv`, `OneAttempt`, `RecordIsADMFs`, `SuppressesOnlyRepeats`, `EndedFaultIsRetracted` | 101,088 |
| `reporter_lossy` | watcher, same destinations, answers lost | `RetractsWhatWasTold`, `StandingFaultIsHeld` | 157,124 |
| `client` | 1 sender, 1 closer, 2 connections, a unit of 2 bytes and a batch of 3 units | `NeverTwice`, `OkIsDelivered`, `PeersReadWholeUnits`, `ClosedHoldsNothing` | 1,857,306 |
| `client_liveness` | same, one-byte unit, no keepalive traffic | `CloseReturns`, `DeadMDFIsNoticed`, `RecoveryIsNoticed` | 36,696 |
| `pool` | 1 address, 2 callers × 2 units, channel of 1, batch of 2, 2 closers and a holder | `NoSendOnClosedChannel`, `EveryUnitAccounted`, `ClosedAfterDrain`, `EverySenderIsOwned`, `NilMeansDrained`, `SenderIsQueue`, `TeardownCompletes` | 333,367 |
| `requester` | 2 elements and a stranger, 2 callers, 2 requests | `RequesterInv`, `AnswersAreTheElements`, `InventoryIsCurrent` | 721,040 |
| `product` | 2 goroutines, 2 sessions of one XID and 1 of another, 3 PDUs, numbers modulo 2, queue of 1 | `ContextNumbering`, `CountersFollowTasking`, `LossShowsAsGap` | 1,219,680 |
| `wire` | lists of ≤ 2 of 17 kinds of unit, reads of 1, 12, 30 or 56 octets, limit 60; 15,400 events | `FramingIsExact`, `BufferBounded`, `RecordsConform` | 77,122 |
| `reporter_answer_lost` | as `reporter_lossy`, one unnamed destination | `EndedFaultIsRetracted`: violated | – |
| `tasking_round_trip` | as `tasking` | `RoundTrips`: violated | – |

**Why the bounds are enough to meet the interesting cases.**  Two requests and
the watchdog are the fewest that give every pairing of transition, bulk
operation and purge; a single XID makes them collide.  Two XIDs in `tasking`
let two tasks share a criterion while one of them is replaced or withdrawn; its
messages populate each arm alone, two at once, and lists with and without a
member that cannot be used, and tunnel identifiers that are no canonical uint32.
With a window of 0 a message is inside it until the next tick, which is one boundary
to be on either side of, as is one tick of throttle.  Two unnamed endpoints let one be
down while the other is up, which the element's one report has to be about.  Two
connections are a live one and a replaced one whose goroutines still run; a dial while both are occupied
fails (the bound on `Conn`), which the code may also see from the network.  A
channel of one unit is full after one offer, and a batch of two lets a drain be
cut short by a close.  Two requests let an answer be late, crossed or misrouted.
With
numbers modulo 2 three PDUs wrap; two goroutines meet in the creation of a counter
and around a Forget; a queue of one overflows.  In `wire` an octet has four bits
and the identifiers one octet, so that lengths of four octets stay small enough to
meet both the limit and the overflow of their sum; the pieces cut a PDU in its
sizing octets, in its header and in its attributes, and 56 octets hold two PDUs and
part of a third.  Any one or two members of a record take every
class of value their types have, from a record with all its members and one with
only the mandatory ones: a member's fate depends on its record and on itself.
The proofs of section 6 remove the bounds of the safety properties they cover.

**Notes on the instances.**  `MaxKeepalive` bounds numbered keepalives per
connection and is 0 in the liveness run: TIME_P2 is then the only evidence of a
dead peer, which is the case of interest.  `receiveForeign` happens only
while the peer is not a working MDF, and TIME_P2 runs out only on a connection
whose peer is silent or gone or that was dropped: a working MDF answers keepalives.  A nil
PDU is refused before anything is touched and is a stutter.  `Pool` builds only
`*Client` senders, which batch, so `AsyncSender.send`'s loop for other senders
is not reached.  An address names one sender per pool, because an open pool
forgets none and a closed one builds none.

`CHECK_DEADLOCK FALSE` is set where the bound on offers, PDUs, units or requests,
a stopped reader or a completed shutdown really ends the run.

## 4. Fairness

* `X1Server`: goroutines run (net/http starts them and the lock is a
  `sync.Mutex`, which starves nobody) and the watchdog's ticker ticks.  Nothing
  is assumed of the ADMF or of time: `SilenceEndsInterception` has the silence as
  its premise.
* `Reporter`: the watcher samples and acts, a send ends (the HTTP client has a
  timeout), no report stays on its way for ever, time passes, and an ADMF to which reports are made again and again takes one
  in the end.  Without the last no property about its list could hold.
* `DeliveryClient`: strong fairness for the steps that take `mu`, for the same
  reason, weak for the rest; TIME_P2 passes.  Outages, what is sent and what the
  peer sends are unconstrained; the two reachability properties assume in
  their statement that the element keeps sending.
* `Pool`: workers run because each write has a deadline, the pool's timer fires.
  Nobody is obliged to offer or close.
* `Requester`, `Sequencer`, `Product`, `Tasking` and `Wire` state safety only.

## 5. Findings

**The answer of an accepted report is lost** (`reporter_answer_lost`).  `settle`
treats every error as "not delivered".  An announcement the ADMF accepted but
whose answer was lost is therefore not in `reported`; when the fault ends before
it is announced again, `clearing` finds nothing to retract and the ADMF keeps
the fault.  README.md:137 promises that a fault that ends is reported as having
ended.  The comment on `settle` trades a duplicate against a lost fault and does
not consider this outcome.  With a reliable answer (`reporter`) the property
holds, and in both cases nothing is retracted that was not announced.

**A tunnel identifier does not round-trip** (`tasking_round_trip`).  A plain
`gtpuTunnelId` is held as the text it came as (x1.go:1849); no check looks at it.  It
is reported as `ext:TEID`, which is read into a uint32 (messages.go:380) and formatted
(x1.go:1948).  The vendored schema (x1/testdata/schemas/TS_103_221_01.xsd:223) allows
any integer up to 4294967296, leading zeros included.  So "007" is held and reads back
as "7", another criterion, and 4294967296 is held and makes the report undecodable;
x1.go:1741 says that what `targetXML` emits is parsed back to the same identifier.
`ReportsWhatIsHeld` has it for identifiers written as a uint32 is (`Canonical`).

Smaller observations, without a run of their own:

* `ErrUnitDropped` may stand for several units: its comment (client.go:206) says
  delivery succeeded except for one product unit; `deliver` returns it whenever the
  resend fails after something landed, and the resend carries every unit after the
  partial one too.  The destination is then recorded as reachable.
* `expire` and `protocolError` set `unreachable` before they compare `st` with
  `c.live`, so a late timer of a replaced connection can mark a working client
  unreachable until the next send; client.go:299 says nothing such a goroutine
  does can touch the client.  `RecoveryIsNoticed` shows that it does not last.
* A mediation function that accepts and never acknowledges is not reported
  unreachable for good: `expire` redials it with success (keepalive.go:608) and the
  next delivery stores false (client.go:109), until TIME_P2 runs out again.  The fault
  is announced and retracted in turn.  `DeadMDFIsNoticed` says of such a one that it
  is noticed again and again, and of one that is gone that it stays so; with
  `<>[]unreachable` for both TLC finds the alternation.
* A second concurrent `Pool.Close` finds an empty map and returns nil while the
  first still drains (pool.go:221).  `NilMeansDrained` is therefore about the
  senders that call took over.
* A bound ErrorResponse without errorInformation is an empty inventory to
  `ReportedTasks` (trigger.go:646), not an error: a triggering function would read
  "holds nothing".  `InventoryIsCurrent` names this as the one inventory that is not
  the element's.
* An FTEID with both addresses is matched at the IPv4 one only (x1.go:1949).  `Fulfils`
  allows it: the two are addresses of one tunnel end, and a criterion at either fulfils
  the order.  Traffic of that tunnel over IPv6 is then not matched.
* async.go:39 says both callbacks run on the worker; `onDrop` runs on the caller.
* When the answer to an accepted *retraction* is lost, `lastSent` survives it and
  the same fault beginning again may be throttled; README.md:137 says rate limiting
  never applies across a state change.  `SuppressesOnlyRepeats` is stated, and
  proved, for answers that arrive.
* A destination that leaves the tasking while its fault stands is in no later
  sample, so its fault is not retracted.
* `Close` waits for the goroutines of the held connection only, not for those of
  connections dropped before.
* A PDU matched before `Forget` and numbered after it puts a counter of the ended
  task back into the map, where it stays until the XID is forgotten again, and may
  take the zero of the next sequence.  `CountersFollowTasking` and
  `ContextNumbering` say that nothing else does.
* The encoder writes restricted strings without content: a mandatory UEPolicy,
  LCSCorrelationID, MCC, MNC or TAC that is empty, an optional octet string that is
  not nil and empty.  constraints.go leaves a mandatory absent field to the codec;
  emit.go refuses a missing CHOICE only.  RATType is in no constraint table.
* validateEvent says both records that carry ueEndpoint are checked;
  SMFPDUSessionModification and SMFUnsuccessfulProcedure carry it too, and an
  endpoint list that is not nil and empty is written there.  These and the previous
  are the members `Unchecked` exempts in `RecordsConform`.
* An optional integer whose value is 0 cannot be told from an absent one, and is not
  written.  `EncodeXIRI(nil)` panics in validateConstraints before emit's own refusal
  of it is reached.
* A criterion reported by `targetXML` comes under one arm per type: a supiNAI,
  peiImeisv or e164Number is reported as supiimsi, peiImei or gpsiMsisdn, with the same
  criterion when read back.  A tunnel address that is not in the schema's form (a
  compressed or IPv4-mapped IPv6 address) is reported in that form, so it reads back
  as another text; `ReportsWhatIsHeld` is stated for addresses in the schema's form
  (`ConformantAddress`).

## 6. Proofs

Each theorem is for arbitrary sets of processes, identifiers, messages and
addresses and for every bound, from the `ASSUME` of its module, which TLC evaluates
in the runs.  The invariants `StoreInv`, `X1Inv`, `ReporterInv` and
`RequesterInv` are also checked by runs; the others are stated where they are
proved, at the head of their proof module.

* **TaskingProofs.**  Of the store, `StoreInvariant` and `MatchIsExact`: `StoreInv`
  is types and `IndexExact`, an index entry is exactly the held tasks naming the
  target.  Of the messages over it, `OrdersAreIntercepted` and
  `ReportsAreFaithful`, from `TaskingInv`: every held task is the one made of the
  message that set it last, and that message was accepted.  The properties follow by
  cases on the arms: `AcceptedIsNamed` (what an accepted message maps to fulfils its
  orders, because a second arm, an unreadable or unusable member or an unhonourable
  field was refused before) and `ProperReadsBack` (rendering a criterion and mapping
  it again gives it back, where its tunnel number and address are in the forms the
  report writes; the premises are the property's, and the finding shows why).  `TaskingImplementsStore` is the refinement that joins the two:
  whatever messages are accepted, refused and withdrawn, the store they drive
  behaves as `TaskStore` says, because what `activate` stores is a task it may hold;
  `MessagesMatchExactly` carries `MatchExact` over it.  `TaskingAssumption` asks that
  messages are `WellFormed` and that `Task` holds what they map to.
* **X1ServerProofs.**  `X1Invariant`, and from it `POIMirrors`, `DestinationsAgree`,
  `LapseSpares`, `AcknowledgementsHold`.  `POIMirrorsStore` is not inductive: it
  says nothing about the middle of a transition.  `X1Inv` adds `MutualExclusion`
  (locations under the lock), `RequestsInPlace` (a location is reached with a
  message that leads there), `LocalIsCurrent` (what the holder read under the
  lock still holds), `POILag` (what the POI may be missing, and where) and
  `AgesInOrder` (no task is younger than the last message).  The proof has one
  lemma per action and a step per conjunct.  `ServerImplementsStore` is a refinement
  too: the server's steps are steps of the store's specification or stutters, which
  needs `X1Inv`, since the task that `activate` stores was built in an earlier step
  and nothing but `LocalIsCurrent` says it is still one.  `MatchIsExactUnderWay`
  follows: `IndexExact` and so `MatchExact` hold in every state of the server, inside
  transitions as well, where `POIMirrorsStore` claims nothing.
* **ReporterProofs.**  `ReporterInvariant`, and from it `AttemptsAreSingle`,
  `NoPhantomRetraction`, `RecordAgrees`, `ThrottleSpansNoChange`.  `ReporterInv`
  ties the reservation to the attempt that holds it and bounds by that attempt
  how far record and ADMF may differ.
* **RequesterProofs.**  `RequesterInvariant`, `AnswersBound`, `InventoriesCurrent`.
  An answer is bound to its request by a transaction identifier no other request
  carries, and to its element by the certificate; that holds of an error without
  errorInformation too, so the empty inventory it is read as is at least this
  element's answer to this question.
* **PoolProofs.**  About `Pool` and the `AsyncSender` it extends: `PoolInvariant`, and
  from it `NeverSendsOnClosedChannel`, `ClosesAfterDrain`, `UnitsAreAccounted`,
  `SendersAreOwned`, `NilReportsDrained`.  `PoolInv` adds `Lifecycle` (the stages of
  worker and teardown, so that an ended worker means an empty closed channel),
  `Ownership` (one Close finds the map filled, and a sender has one closer),
  `Collected` (what a closer has collected was torn down) and `Accounts` (the
  units handed over, in the batch and in the queue are one sequence without
  repetition, disjoint from those dropped and from the other senders').
  `EverySenderIsAQueue` is the refinement: for each address, `Init` maps to the
  abstract queue's, and every step of the pool to a step of the queue or a stutter.
* **DeliveryClientProofs.**  `ClientInvariant`, and from it `RetryNeverDuplicates`,
  `NoErrorMeansDelivered`, `StreamsAreWhole`, `NothingHeldOnceClosed`.  What a
  delivery has achieved can only be told at each of its locations: `Progress` counts
  the units written whole before the first write, between the two writes (exactly
  those before the resume point) and at the end.  `MutexHeld` says who holds `mu`,
  and that nobody does and no connection is held once Close began; `StreamWhole`
  that the connection held was never torn.  The step from the first write to the
  second rests on `ResumeIsExact`, about the code's `resumeAt` for every message
  and every offset at which a write stops.
* **ProductProofs.**  About `Product` and the `Sequencer` it extends:
  `ProductInvariant`, and from it `ContextsAreNumbered`, `CountersEndWithTasking`,
  `LossIsVisible`.  `ContextNumbering` counts how often a number occurs, which no
  step can be argued from; `NumbersRanked` gives each PDU of an era a place of its
  own in a sequence from zero, with the counter at its end modulo the width, and
  the counts follow.  `CellsOwned` and `ErasFollow` say whose counter a goroutine
  holds across a Forget, `PlacedOnce` that a numbered PDU is, for each destination,
  in exactly one of framing, queue, received and lost.
* **WireProofs.**  `WireInvariant` and `ReaderIsBounded`: the bound is not inductive
  without saying that the claim which was checked is the one the buffer begins
  with (`Agreed`), and that a waiting reader holds a part of one PDU (`Part`).
  `FramingInvariant` and `PiecesDoNotMatter`: for some n the first n units were
  handed on and the rest is, octet for octet, in the buffer and in transit.  The
  argument needs that `Unmarshal` looks at no octet behind the PDU
  (`UnmarshalOfFront`), that of two strings that begin the same one begins with
  the other (`OneBegins`), and what `FlattenSeq` computes; its recursion is
  reasoned about by the least length at which the claim would fail (`LeastNatural`).

  `RoundTrip` says that `Unmarshal` inverts `Marshal` for every PDU that `Marshal`
  accepts and whose parts fit their fields (`Transmittable`): numbers below the
  radix's second and fourth power survive their octets, each part of the layout
  stands where the header's lengths say (`MarshalLayout`), and `parseTLVs`, walking
  the attributes' octets, finds the attributes again.  That function is recursive over
  the offset from the back; its existence and the walk are shown by the least
  counterexample (`TLVsRoundTrip`).  It also gives what `Fated` asks of a unit whose
  octets are those of a PDU the MDF marshalled.

  `RecordInvariant` and `RecordsReachTheMDF` follow an event to the MDF.  `RecordInv`
  is the inductive part: the octets written are those of the event's X2 PDU, and what
  is received is what `Unmarshal` reads of them, so the round trip gives
  `received = X2(EncodeXIRI(event))`.  The rest is about the encoder: the tables of
  the seventeen records are evaluated once (`MembersTabled`, `ValuesOfTypes`), then
  `ConformingIsAccepted` and `AcceptedConforms` decide each class of value a member's
  type has against the constraint tables, and `EmitWrites` says which members
  `emit` leaves in the payload.

  `WireAssumption` asks that units are `Fated`, that a read yields at most
  `maxInboundPDU` octets (the code's buffer has 512), that an event is one of the
  seventeen records with a value for each member of its type (`IsEvent`, what Go's
  types give), and that an X2 header's length fits two octets (48 does).

Model-checked only is liveness, which under fairness is out of the prover's reach:
`SilenceEndsInterception`, `EndedFaultIsRetracted`, `StandingFaultIsHeld`,
`CloseReturns`, `DeadMDFIsNoticed`, `RecoveryIsNoticed`, `TeardownCompletes`, and the
fairness in `SenderIsQueue`, of which `EverySenderIsAQueue` proves the safety.

## 7. Not modelled

Interrogations other than the report of a task's criteria, and the templates of
responses: they change nothing, and no document promises a consistent snapshot.
`NotifyTask` and `ReportTaskIssue` called directly (report.go:731, 777), by a
triggering function's own loops: they take no reservation and record nothing, so they
change no state of the reporter, and the throttle and the record promise nothing about
what is sent that way.  `NotifyTaskAsync`, which reserves, is modelled.
How certificates and XML are parsed, and identifiers outside their syntax: only the
verdicts enter the models, but for the numbers of Tasking.  The 32-bit wrap of the keepalive number, which at one per
minute takes thousands of years.  DER: a payload is the members written, under their
tags.  The one value inside CauseRadioNetwork's range that its enumeration skips,
which constraints.go admits knowingly, and the constants of causevalues.go.  The
nesting of structures: a structure's members count as one value with it.
Configuration, TLS and sockets.

## 8. Plan

1. *(done)* TaskStore, X1Server; Reporter with the watcher; DeliveryClient;
   AsyncSender with its abstract queue, Pool; Requester; proofs of the first, second,
   third and last.
2. *(done)* Sequencer and its composition with the delivery queues; target mapping and
   its report; PDU codec, read-loop framing and IRI encoding.
3. *(done)* Proofs for the other modules, of all safety properties and of the queue
   refinement.
4. *(done)* The round trip of a PDU through `Marshal` and `Unmarshal`, and with it
   `RecordsConform`; the refinement of the task store by the messages and by the
   concurrent server.
5. Open: the composition of Requester with X1Server, a triggering function reconciling
   what an element reports against what it ordered.
