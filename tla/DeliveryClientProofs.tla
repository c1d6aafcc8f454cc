------------------------ MODULE DeliveryClientProofs ------------------------
(***************************************************************************)
(* For any number of goroutines and connections, any messages and any      *)
(* place at which a write stops: a client that was closed holds no         *)
(* connection, no peer reads a partial unit or a misnumbered Keepalive, no *)
(* unit is delivered twice, and a delivery without an error delivered all. *)
(***************************************************************************)
EXTENDS DeliveryClient, SequenceTheorems, WellFoundedInduction, TLAPS

-----------------------------------------------------------------------------
(* The inductive invariant.                                                *)
-----------------------------------------------------------------------------
(* mu is held by the caller inside deliver, which has a connection when it *)
(* writes; nobody holds it, and no connection is held, once Close began.   *)
MutexHeld ==
  /\ \A s \in Sender : mu = s <=> pc[s] \in Holding
  /\ \A s \in Sender : pc[s] \in {"write", "rewrite"} => live # NoConn
  /\ closed => mu = NoProc /\ live = NoConn

(* The connection that is held was never torn, and its peer has had every  *)
(* Keepalive that was numbered for it.                                     *)
StreamWhole ==
  /\ live # NoConn => ~conn[live].torn /\ conn[live].seen = conn[live].issued
  /\ ~misread

(* How far a delivery has come that is at `at` with message m, rest r,     *)
(* answer a and the units k written whole: none before the first write;    *)
(* between the two writes exactly the units before the resume point, which *)
(* is the start of one; none twice at the end, and each once if it         *)
(* returned no error.                                                      *)
ProgressAt(at, m, r, a, k) ==
  /\ at # "idle" => m \in Message
  /\ at # "record" => a = "none"
  /\ at \in {"idle", "deliver", "dial", "write"} => \A i \in Units(m) : k[i] = 0
  /\ at \in {"redial", "rewrite"} =>
       /\ r.from \in 0 .. m.total
       /\ AtUnitStart(m, r.from)
       /\ \A i \in Units(m) : k[i] = IF Ends(m)[i] <= r.from THEN 1 ELSE 0
  /\ at = "record" => \A i \in Units(m) : k[i] <= 1 /\ (a = "ok" => k[i] = 1)

Progress == \A s \in Sender : ProgressAt(pc[s], sending[s], rest[s], answer[s], taken[s])

ClientInv == TypeOK /\ MutexHeld /\ StreamWhole /\ Progress

-----------------------------------------------------------------------------
(* Units and bytes.                                                        *)
-----------------------------------------------------------------------------
(* A set of naturals that is not empty has a least member. *)
LEMMA LeastNatural ==
  ASSUME NEW T \in SUBSET Nat, T # {}
  PROVE  \E x \in T : \A y \in T : x <= y
<1>1. PICK x \in T : \A y \in T : ~(<<y, x>> \in OpToRel(<, Nat))
  BY NatLessThanWellFounded, WFMin
<1>2. \A y \in T : ~(y < x)
  BY <1>1 DEF OpToRel
<1>3. QED
  BY <1>2

(* Offsets that grow from each to the next grow throughout. *)
LEMMA Increasing ==
  ASSUME NEW n \in Nat, NEW f \in [1..n -> Nat], \A i \in 1..n - 1 : f[i] < f[i + 1]
  PROVE  \A i, j \in 1..n : i < j => f[i] < f[j]
<1>1. SUFFICES ASSUME NEW i \in 1..n, NEW k \in 1..n, i < k, ~(f[i] < f[k])
               PROVE  FALSE
  OBVIOUS
<1> DEFINE T == {j \in 1..n : i < j /\ ~(f[i] < f[j])}
<1>2. k \in T /\ \A j \in T : j \in Nat
  BY <1>1
<1>3. PICK j \in T : \A y \in T : j <= y
  <2> HIDE DEF T
  <2>1. T \in SUBSET Nat /\ T # {}
    BY <1>2
  <2>2. QED
    BY <2>1, LeastNatural
<1>4. f[j - 1] < f[j] /\ j - 1 \in 1..n /\ i <= j - 1
  OBVIOUS
<1>5. j - 1 \notin T
  BY <1>3
<1>6. f[i] <= f[j - 1]
  BY <1>4, <1>5
<1>7. QED
  BY <1>4, <1>6

(* The units of a message end at growing offsets, the last at its end.     *)
LEMMA EndsOfMessage ==
  ASSUME NEW m \in Message
  PROVE  /\ m.total \in Nat \ {0}
         /\ Len(Ends(m)) \in Nat \ {0}
         /\ \A i \in Units(m) : Ends(m)[i] \in 1..m.total
         /\ \A i, j \in Units(m) : i < j => Ends(m)[i] < Ends(m)[j]
         /\ Len(Ends(m)) \in Units(m) /\ Ends(m)[Len(Ends(m))] = m.total
<1> DEFINE b == m.boundaries
<1>1. m.total \in Nat \ {0} /\ b \in Seq(1..m.total)
      /\ (\A i \in 1..Len(b) - 1 : b[i] < b[i + 1])
      /\ (b # <<>> => b[Len(b)] = m.total)
  BY ClientAssumption
<1>2. CASE b = <<>>
  <2>1. Ends(m) = <<m.total>> /\ Len(<<m.total>>) = 1 /\ <<m.total>>[1] = m.total
    BY <1>2 DEF Ends
  <2>2. QED
    BY <1>1, <2>1 DEF Units
<1>3. CASE b # <<>>
  <2>1. Ends(m) = b
    BY <1>3 DEF Ends
  <2> HIDE DEF b
  <2>2. Len(b) \in Nat \ {0} /\ b \in [1..Len(b) -> 1..m.total]
    BY <1>1, <1>3, LenProperties, EmptySeq
  <2>3. b \in [1..Len(b) -> Nat]
    BY <1>1, <2>2
  <2>4. \A i, j \in 1..Len(b) : i < j => b[i] < b[j]
    BY <1>1, <2>2, <2>3, Increasing
  <2>5. QED
    BY <1>1, <1>3, <2>1, <2>2, <2>4 DEF Units
<1>4. QED
  BY <1>2, <1>3

(* A unit starts before it ends, and after every earlier one has ended.    *)
LEMMA StartsOfMessage ==
  ASSUME NEW m \in Message
  PROVE  /\ 1 \in Units(m) /\ StartOf(m, 1) = 0
         /\ \A i \in Units(m) : /\ StartOf(m, i) \in 0..m.total
                                /\ StartOf(m, i) < Ends(m)[i]
         /\ \A i, j \in Units(m) : i < j => Ends(m)[i] <= StartOf(m, j)
<1>1. 1 \in Units(m) /\ StartOf(m, 1) = 0
  BY EndsOfMessage DEF Units, StartOf
<1>2. ASSUME NEW i \in Units(m)
      PROVE  StartOf(m, i) \in 0..m.total /\ StartOf(m, i) < Ends(m)[i]
  <2>1. CASE i = 1
    BY <1>1, <2>1, EndsOfMessage
  <2>2. CASE i # 1
    <3>1. i - 1 \in Units(m) /\ i - 1 < i /\ StartOf(m, i) = Ends(m)[i - 1]
      BY <2>2, EndsOfMessage DEF Units, StartOf
    <3>2. QED
      BY <3>1, EndsOfMessage
  <2>3. QED
    BY <2>1, <2>2
<1>3. ASSUME NEW i \in Units(m), NEW j \in Units(m), i < j
      PROVE  Ends(m)[i] <= StartOf(m, j)
  <2>1. i \in Nat /\ j \in Nat /\ j # 1 /\ j - 1 \in Units(m)
    BY <1>3, EndsOfMessage DEF Units
  <2>2. StartOf(m, j) = Ends(m)[j - 1]
    BY <2>1 DEF StartOf
  <2>3. i = j - 1 \/ i < j - 1
    BY <1>3, <2>1
  <2>4. Ends(m)[i] \in Nat /\ Ends(m)[j - 1] \in Nat
    BY <2>1, EndsOfMessage
  <2>5. QED
    BY <2>1, <2>2, <2>3, <2>4, EndsOfMessage
<1>4. QED
  BY <1>1, <1>2, <1>3

(* An offset at which a unit starts, or the end, splits the units: each    *)
(* has ended there or starts there or later.                               *)
LEMMA StartSplitsUnits ==
  ASSUME NEW m \in Message, NEW offset \in Nat, AtUnitStart(m, offset)
  PROVE  \A i \in Units(m) : offset <= StartOf(m, i) <=> ~(Ends(m)[i] <= offset)
<1>1. SUFFICES ASSUME NEW i \in Units(m)
               PROVE  offset <= StartOf(m, i) <=> ~(Ends(m)[i] <= offset)
  OBVIOUS
<1>2. Ends(m)[i] \in Nat /\ StartOf(m, i) \in Nat /\ StartOf(m, i) < Ends(m)[i]
      /\ Ends(m)[i] <= m.total /\ m.total \in Nat /\ i \in Nat
  BY EndsOfMessage, StartsOfMessage DEF Units
<1>3. CASE offset = m.total
  BY <1>2, <1>3
<1>4. ASSUME NEW j \in Units(m), offset = StartOf(m, j)
      PROVE  offset <= StartOf(m, i) <=> ~(Ends(m)[i] <= offset)
  <2>1. j \in Nat /\ StartOf(m, j) \in Nat /\ Ends(m)[j] \in Nat /\ StartOf(m, j) < Ends(m)[j]
    BY EndsOfMessage, StartsOfMessage DEF Units
  <2>2. CASE i < j
    BY <1>2, <1>4, <2>1, <2>2, StartsOfMessage
  <2>3. CASE i = j
    BY <1>2, <1>4, <2>3
  <2>4. CASE j < i
    <3>1. Ends(m)[j] <= StartOf(m, i)
      BY <2>4, StartsOfMessage
    <3>2. QED
      BY <1>2, <1>4, <2>1, <3>1
  <2>5. QED
    BY <1>2, <2>1, <2>2, <2>3, <2>4
<1>5. QED
  BY <1>3, <1>4 DEF AtUnitStart

(* resumeAt, wherever the write stopped, resumes at the start of a unit,   *)
(* past exactly the units that were written whole.                         *)
THEOREM ResumeIsExact ==
  ASSUME NEW m \in Message, NEW n \in 0..m.total
  PROVE  LET r == resumeAt(m, n)
         IN  /\ r \in [from : Nat, resuming : BOOLEAN]
             /\ r.from \in 0..m.total
             /\ AtUnitStart(m, r.from)
             /\ \A i \in Units(m) : Ends(m)[i] <= n <=> Ends(m)[i] <= r.from
<1> DEFINE r == resumeAt(m, n)
           ends == m.boundaries
           First(i) == ends[i] >= n /\ \A j \in 1..i - 1 : ends[j] < n
           next == CHOOSE i \in 1..Len(ends) : First(i)
<1>1. n \in Nat /\ m.total \in Nat \ {0} /\ \A i \in Units(m) : Ends(m)[i] \in 1..m.total
  BY EndsOfMessage
<1>2. AtUnitStart(m, 0) /\ AtUnitStart(m, m.total)
  BY StartsOfMessage DEF AtUnitStart
<1>3. CASE n <= 0
  <2>1. r = [from |-> 0, resuming |-> FALSE]
    BY <1>1, <1>3 DEF resumeAt
  <2>2. n = 0
    BY <1>1, <1>3
  <2>3. QED
    BY <1>1, <1>2, <2>1, <2>2
<1>4. CASE n > 0 /\ n >= m.total
  <2>1. r = [from |-> m.total, resuming |-> FALSE]
    BY <1>1, <1>4 DEF resumeAt
  <2>2. n = m.total
    BY <1>1, <1>4
  <2>3. QED
    BY <1>1, <1>2, <2>1, <2>2
<1>5. CASE n > 0 /\ n < m.total /\ ends = <<>>
  <2>1. r = [from |-> 0, resuming |-> TRUE]
    BY <1>1, <1>5 DEF resumeAt
  <2>2. Ends(m) = <<m.total>>
    BY <1>5 DEF Ends
  <2>3. \A i \in Units(m) : Ends(m)[i] = m.total
    BY <2>2 DEF Units
  <2>4. QED
    BY <1>1, <1>2, <1>5, <2>1, <2>3
<1>6. CASE n > 0 /\ n < m.total /\ ends # <<>>
  <2>1. Ends(m) = ends /\ Units(m) = 1..Len(ends) /\ Len(ends) \in Nat \ {0}
    BY <1>6, EndsOfMessage DEF Ends, Units
  <2>2. r = IF ends[next] = n THEN [from |-> n, resuming |-> FALSE]
            ELSE [from |-> StartOf(m, next), resuming |-> TRUE]
    BY <1>1, <1>6 DEF resumeAt
  <2>3. \E i \in 1..Len(ends) : First(i)
    <3> DEFINE T == {i \in 1..Len(ends) : ends[i] >= n}
    <3>1. Len(ends) \in T
      BY <1>1, <1>6, <2>1, EndsOfMessage
    <3>2. \A i \in T : i \in Nat
      BY <2>1
    <3>3. PICK i \in T : \A y \in T : i <= y
      <4> HIDE DEF T
      <4>1. T \in SUBSET Nat /\ T # {}
        BY <3>1, <3>2
      <4>2. QED
        BY <4>1, LeastNatural
    <3>4. \A j \in 1..i - 1 : j \in 1..Len(ends) /\ j \notin T
      BY <2>1, <3>3
    <3>5. \A j \in 1..i - 1 : ends[j] < n
      BY <1>1, <2>1, <3>4
    <3>6. QED
      BY <3>3, <3>5
  <2> HIDE DEF r, ends
  <2>4. next \in 1..Len(ends) /\ First(next)
    <3> HIDE DEF First
    <3>1. QED
      BY <2>3
  <2> HIDE DEF next
  <2>5. next \in Nat /\ ends[next] \in Nat /\ ends[next] >= n
        /\ \A j \in Units(m) : j < next => ends[j] < n
    BY <1>1, <2>1, <2>4
  <2>6. \A i \in Units(m) : i \in Nat /\ ends[i] \in Nat /\ StartOf(m, i) \in Nat
                            /\ (next < i => ends[next] < ends[i])
    BY <2>1, <2>4, EndsOfMessage, StartsOfMessage
  <2>7. CASE ends[next] = n
    <3>1. r.from = n /\ r \in [from : Nat, resuming : BOOLEAN]
      BY <1>1, <2>2, <2>7
    <3>2. AtUnitStart(m, n)
      <4>1. next # Len(ends)
        BY <1>6, <2>1, <2>7, EndsOfMessage
      <4>2. next + 1 \in Units(m) /\ StartOf(m, next + 1) = n
        BY <2>1, <2>4, <2>7, <4>1 DEF StartOf
      <4>3. QED
        BY <4>2 DEF AtUnitStart
    <3>3. QED
      BY <3>1, <3>2 DEF r
  <2>8. CASE ends[next] # n
    <3>1. r.from = StartOf(m, next) /\ r \in [from : Nat, resuming : BOOLEAN]
      BY <2>1, <2>2, <2>4, <2>6, <2>8
    <3>2. StartOf(m, next) \in 0..m.total /\ AtUnitStart(m, StartOf(m, next))
      BY <2>1, <2>4, StartsOfMessage DEF AtUnitStart
    <3>3. ASSUME NEW i \in Units(m)
          PROVE  Ends(m)[i] <= n <=> Ends(m)[i] <= StartOf(m, next)
      <4>1. CASE i < next
        <5>1. Ends(m)[i] < n
          BY <2>1, <2>5, <4>1
        <5>2. Ends(m)[i] <= StartOf(m, next)
          BY <2>1, <2>4, <4>1, StartsOfMessage
        <5>3. QED
          BY <1>1, <2>1, <2>6, <5>1, <5>2
      <4>2. CASE i >= next
        <5>1. ends[next] <= ends[i] /\ StartOf(m, next) < ends[next] /\ n < ends[next]
          BY <1>1, <2>1, <2>4, <2>5, <2>6, <2>8, <4>2, StartsOfMessage
        <5>2. QED
          BY <1>1, <2>1, <2>4, <2>6, <5>1
      <4>3. QED
        BY <2>5, <2>6, <4>1, <4>2
    <3>4. QED
      BY <3>1, <3>2, <3>3 DEF r
  <2>9. QED
    BY <2>7, <2>8
<1>7. QED
  BY <1>1, <1>3, <1>4, <1>5, <1>6

-----------------------------------------------------------------------------
(* Connections.                                                            *)
-----------------------------------------------------------------------------
(* A connection whose peer has read whole units and its own Keepalives.    *)
Whole(r) == ~r.torn /\ r.seen = r.issued

(* A connection that was just dialled is whole, and so is an unused one.   *)
LEMMA FreshIsWhole ==
  /\ Unused \in ConnState /\ Whole(Unused)
  /\ Fresh \in ConnState /\ Whole(Fresh)
<1>1. Unused \in ConnState /\ Whole(Unused)
  BY ClientAssumption DEF Unused, ConnState, Whole
<1>2. /\ Fresh.loop \in {"off", "select"} /\ Fresh.reader \in {"off", "read"}
      /\ Fresh = [Unused EXCEPT !.loop = Fresh.loop, !.reader = Fresh.reader,
                                !.stop = FALSE, !.sound = TRUE]
  BY DEF Fresh, Unused
<1>3. QED
  BY <1>1, <1>2 DEF ConnState, Whole

(* What the goroutines, the timer and the network change of a connection   *)
(* keeps its type and what its peer has read.                              *)
LEMMA ConnectionEdits ==
  ASSUME NEW r \in ConnState
  PROVE  /\ LET q == [r EXCEPT !.acks = FALSE, !.overdue = FALSE]
            IN  q \in ConnState /\ (Whole(r) => Whole(q))
         /\ LET q == [r EXCEPT !.overdue = TRUE]
            IN  q \in ConnState /\ (Whole(r) => Whole(q))
         /\ LET q == [r EXCEPT !.loop = "off", !.stop = TRUE, !.sound = FALSE]
            IN  q \in ConnState
         /\ \A v \in BOOLEAN : LET q == [r EXCEPT !.sound = v]
                               IN  q \in ConnState /\ (Whole(r) => Whole(q))
         /\ \A seq \in 0..MaxKeepalive :
              LET q == [r EXCEPT !.highest = seq, !.acks = TRUE]
              IN  q \in ConnState /\ (Whole(r) => Whole(q))
<1>1. \A v \in BOOLEAN : LET q == [r EXCEPT !.sound = v]
                         IN  q \in ConnState /\ (Whole(r) => Whole(q))
  BY DEF ConnState, Whole
<1>2. \A seq \in 0..MaxKeepalive :
        LET q == [r EXCEPT !.highest = seq, !.acks = TRUE]
        IN  q \in ConnState /\ (Whole(r) => Whole(q))
  <2>1. TAKE seq \in 0..MaxKeepalive
  <2>2. seq \in -1..MaxKeepalive
    BY ClientAssumption
  <2>3. QED
    BY <2>2 DEF ConnState, Whole
<1>3. LET q == [r EXCEPT !.acks = FALSE, !.overdue = FALSE]
      IN  q \in ConnState /\ (Whole(r) => Whole(q))
  BY DEF ConnState, Whole
<1>4. LET q == [r EXCEPT !.overdue = TRUE]
      IN  q \in ConnState /\ (Whole(r) => Whole(q))
  BY DEF ConnState, Whole
<1>5. [r EXCEPT !.loop = "off", !.stop = TRUE, !.sound = FALSE] \in ConnState
  BY DEF ConnState
<1>6. QED
  BY <1>1, <1>2, <1>3, <1>4, <1>5

(* A dial that succeeds leaves a whole connection held. *)
LEMMA DialSucceeds ==
  ASSUME NEW cs \in [Conn -> ConnState], dialSucceeds(cs)
  PROVE  conn' \in [Conn -> ConnState] /\ live' \in Conn /\ Whole(conn'[live'])
<1>1. PICK c \in Free : conn' = [cs EXCEPT ![c] = Fresh] /\ live' = c
  BY DEF dialSucceeds
<1>2. c \in Conn
  BY DEF Free
<1>3. conn' \in [Conn -> ConnState]
  BY <1>1, <1>2, FreshIsWhole
<1>4. conn'[c] = Fresh
  BY <1>1, <1>2
<1>5. QED
  BY <1>1, <1>2, <1>3, <1>4, FreshIsWhole

(* dropLocked leaves none held. *)
LEMMA DropLocked ==
  ASSUME NEW cs \in [Conn -> ConnState], live \in Conn, dropLocked(cs)
  PROVE  conn' \in [Conn -> ConnState] /\ live' = NoConn
<1>1. [cs[live] EXCEPT !.stop = TRUE, !.sound = FALSE] \in ConnState
  <2>1. PICK r \in ConnState : r = cs[live]
    OBVIOUS
  <2>2. [r EXCEPT !.stop = TRUE, !.sound = FALSE] \in ConnState
    BY DEF ConnState
  <2>3. QED
    BY <2>1, <2>2, Zenon
<1>2. conn' = [cs EXCEPT ![live] = [cs[live] EXCEPT !.stop = TRUE, !.sound = FALSE]]
  BY DEF dropLocked
<1>3. QED
  BY <1>1, <1>2 DEF dropLocked

(* A goroutine of a connection that moves on, or ends, keeps the types and *)
(* what the peers have read.                                               *)
LEMMA GoroutineMoves ==
  ASSUME conn \in [Conn -> ConnState], NEW c \in Conn,
         \/ \E at \in {"off", "select", "unwritten", "expired"} : Loop(c, at)
         \/ \E at \in {"off", "read", "protocolError"} : Reader(c, at)
  PROVE  /\ conn' \in [Conn -> ConnState]
         /\ \A d \in Conn : Whole(conn[d]) => Whole(conn'[d])
<1>1. PICK r \in ConnState : conn' = [conn EXCEPT ![c] = r] /\ (Whole(conn[c]) => Whole(r))
  <2>1. ASSUME NEW at \in {"off", "select", "unwritten", "expired"}, Loop(c, at)
        PROVE  \E r \in ConnState : conn' = [conn EXCEPT ![c] = r]
                                    /\ (Whole(conn[c]) => Whole(r))
    <3> DEFINE q == [conn[c] EXCEPT !.loop = at]
    <3>1. q \in ConnState /\ (Whole(conn[c]) => Whole(q))
      BY DEF ConnState, Whole
    <3>2. conn' = [conn EXCEPT ![c] = Unused] \/ conn' = [conn EXCEPT ![c] = q]
      BY <2>1 DEF Loop
    <3> HIDE DEF q
    <3>3. QED
      BY <3>1, <3>2, FreshIsWhole
  <2>2. ASSUME NEW at \in {"off", "read", "protocolError"}, Reader(c, at)
        PROVE  \E r \in ConnState : conn' = [conn EXCEPT ![c] = r]
                                    /\ (Whole(conn[c]) => Whole(r))
    <3> DEFINE q == [conn[c] EXCEPT !.reader = at]
    <3>1. q \in ConnState /\ (Whole(conn[c]) => Whole(q))
      BY DEF ConnState, Whole
    <3>2. conn' = [conn EXCEPT ![c] = Unused] \/ conn' = [conn EXCEPT ![c] = q]
      BY <2>2 DEF Reader
    <3> HIDE DEF q
    <3>3. QED
      BY <3>1, <3>2, FreshIsWhole
  <2>3. QED
    BY <2>1, <2>2
<1>2. QED
  BY <1>1

(* What a step of the keepalive goroutines, a timer or the network may do  *)
(* to the client: they touch the connection that is held only with mu      *)
(* free, never put one where there was none, and leave the callers alone.  *)
ConnectionStep ==
  /\ mdf' \in MDF /\ unreachable' \in BOOLEAN /\ misread' \in BOOLEAN
  /\ conn' \in [Conn -> ConnState]
  /\ live' \in Conn \cup {NoConn}
  /\ live = NoConn => live' = NoConn
  /\ mu # NoProc => live' = live
  /\ UNCHANGED <<mu, closed, callers>>
  /\ StreamWhole'

(* A step that changes neither the connection held nor whether one is      *)
(* whole, nor what peers have misread, is such a step.                     *)
LEMMA LiveKept ==
  ASSUME TypeOK, StreamWhole, UNCHANGED <<mu, closed, callers, live, misread>>,
         mdf' \in MDF, unreachable' \in BOOLEAN, conn' \in [Conn -> ConnState],
         \A d \in Conn : Whole(conn[d]) => Whole(conn'[d])
  PROVE  ConnectionStep
BY DEF TypeOK, StreamWhole, ConnectionStep, Whole

(* So is one that leaves none held. *)
LEMMA LiveDropped ==
  ASSUME TypeOK, StreamWhole, UNCHANGED <<mu, closed, callers>>, mu = NoProc,
         mdf' \in MDF, unreachable' \in BOOLEAN, conn' \in [Conn -> ConnState],
         live' = NoConn, misread' = misread
  PROVE  ConnectionStep
BY DEF TypeOK, StreamWhole, ConnectionStep

(* The keepalive loop of a connection.  A Keepalive is written to the      *)
(* connection it was numbered for or not at all.                           *)
LEMMA LoopConnection ==
  ASSUME TypeOK, StreamWhole, NEW c \in Conn, LoopStep(c)
  PROVE  ConnectionStep
<1> USE DEF TypeOK
<1>1. CASE keepaliveLoop(c)
  <2>1. UNCHANGED <<mdf, mu, live, closed, unreachable, callers, misread>>
    BY <1>1 DEF keepaliveLoop
  <2>2. CASE Loop(c, "off")
    BY <2>1, <2>2, GoroutineMoves, LiveKept
  <2>3. CASE conn' = [conn EXCEPT ![c].acks = FALSE, ![c].overdue = FALSE]
    <3> DEFINE r == [conn[c] EXCEPT !.acks = FALSE, !.overdue = FALSE]
    <3>1. r \in ConnState /\ (Whole(conn[c]) => Whole(r))
      BY ConnectionEdits
    <3>2. conn' = [conn EXCEPT ![c] = r]
      BY <2>3
    <3> HIDE DEF r
    <3>3. conn' \in [Conn -> ConnState] /\ \A d \in Conn : Whole(conn[d]) => Whole(conn'[d])
      BY <3>1, <3>2
    <3>4. QED
      BY <2>1, <3>3, LiveKept
  <2>4. QED
    BY <1>1, <2>2, <2>3 DEF keepaliveLoop
<1>2. CASE sendKeepalive(c)
  <2>1. UNCHANGED <<mdf, mu, closed, unreachable, callers>> /\ mu = NoProc
    BY <1>2 DEF sendKeepalive
  <2> DEFINE taking == [conn EXCEPT ![c].issued = @ + 1]
             r == [conn[c] EXCEPT !.issued = @ + 1]
  <2>2. r \in ConnState /\ r.seen = conn[c].seen /\ r.torn = conn[c].torn
        /\ r.issued = conn[c].issued + 1 /\ taking = [conn EXCEPT ![c] = r]
    <3>1. conn[c] \in ConnState /\ conn[c].issued + 1 \in 0..MaxKeepalive
      BY <1>2, ClientAssumption DEF sendKeepalive, ConnState
    <3>2. QED
      BY <3>1 DEF ConnState
  <2>3. CASE Stale(c) /\ Loop(c, "off") /\ UNCHANGED <<live, misread>>
    BY <2>1, <2>3, GoroutineMoves, LiveKept
  <2>4. CASE /\ ~Stale(c)
             /\ conn' = [taking EXCEPT ![live].seen = @ + 1]
             /\ misread' = (misread \/ conn[live].torn \/ conn[live].seen # conn[c].issued)
             /\ UNCHANGED live
    <3>1. live = c /\ live # NoConn
      BY <2>4, ClientAssumption DEF Stale
    <3>2. Whole(conn[c]) /\ ~misread'
      BY <2>4, <3>1 DEF StreamWhole, Whole
    <3> DEFINE q == [r EXCEPT !.seen = @ + 1]
    <3>3. r.seen + 1 = r.issued /\ r.torn = FALSE
      BY <2>2, <3>2 DEF Whole, ConnState
    <3>4. conn' = [conn EXCEPT ![c] = q]
      <4> HIDE DEF r, taking
      <4>1. conn' = [taking EXCEPT ![c] = [taking[c] EXCEPT !.seen = @ + 1]]
        BY <2>4, <3>1
      <4>2. taking[c] = r
        BY <2>2
      <4>3. conn' = [taking EXCEPT ![c] = q]
        BY <4>1, <4>2
      <4> HIDE DEF q
      <4>4. QED
        BY <2>2, <4>3
    <3>5. q \in ConnState /\ Whole(q)
      <4> HIDE DEF r
      <4>1. QED
        BY <2>2, <3>3 DEF ConnState, Whole
    <3> HIDE DEF q
    <3>6. conn' \in [Conn -> ConnState] /\ Whole(conn'[c])
      BY <3>4, <3>5
    <3>7. QED
      BY <2>1, <2>4, <3>1, <3>2, <3>6 DEF ConnectionStep, StreamWhole, Whole
  <2>5. CASE /\ ~Stale(c)
             /\ dropLocked([taking EXCEPT ![c].loop = "unwritten"])
             /\ UNCHANGED misread
    <3>1. live = c
      BY <2>5 DEF Stale
    <3> DEFINE q == [r EXCEPT !.loop = "unwritten"]
               cs == [conn EXCEPT ![c] = q]
    <3>2. q \in ConnState
      <4> HIDE DEF r
      <4>1. QED
        BY <2>2 DEF ConnState
    <3>3. [taking EXCEPT ![c].loop = "unwritten"] = cs
      <4> HIDE DEF r
      <4>1. QED
        BY <2>2
    <3> HIDE DEF q
    <3>4. cs \in [Conn -> ConnState]
      BY <3>2
    <3> HIDE DEF cs, taking
    <3>5. dropLocked(cs)
      BY <2>5, <3>3
    <3>6. conn' \in [Conn -> ConnState] /\ live' = NoConn
      BY <3>1, <3>4, <3>5, DropLocked
    <3>7. QED
      BY <2>1, <2>5, <3>6, LiveDropped DEF StreamWhole
  <2>6. QED
    BY <1>2, <2>3, <2>4, <2>5 DEF sendKeepalive
<1>3. CASE keepaliveFailed(c)
  BY <1>3, GoroutineMoves, LiveKept DEF keepaliveFailed
<1>4. CASE expiry(c)
  BY <1>4, GoroutineMoves, LiveKept DEF expiry
<1>5. CASE expire(c)
  <2>1. UNCHANGED <<mdf, mu, closed, unreachable, callers, misread>> /\ mu = NoProc
    BY <1>5 DEF expire
  <2>2. CASE Stale(c)
    BY <1>5, <2>1, <2>2, GoroutineMoves, LiveKept DEF expire
  <2>3. CASE ~Stale(c)
    <3> DEFINE r == [conn[c] EXCEPT !.loop = "off", !.stop = TRUE, !.sound = FALSE]
               cs == [conn EXCEPT ![c] = r]
    <3>1. r \in ConnState
      BY ConnectionEdits
    <3>2. [conn EXCEPT ![c].loop = "off", ![c].stop = TRUE, ![c].sound = FALSE] = cs
      OBVIOUS
    <3> HIDE DEF r
    <3>3. cs \in [Conn -> ConnState]
      BY <3>1
    <3> HIDE DEF cs
    <3>4. dialSucceeds(cs) \/ dialFails(cs)
      BY <1>5, <2>3, <3>2 DEF expire
    <3>5. CASE dialSucceeds(cs)
      <4>1. conn' \in [Conn -> ConnState] /\ live' \in Conn /\ Whole(conn'[live'])
        BY <3>3, <3>5, DialSucceeds
      <4>2. live # NoConn
        BY <2>3, ClientAssumption DEF Stale
      <4>3. QED
        BY <2>1, <4>1, <4>2 DEF ConnectionStep, StreamWhole, Whole
    <3>6. CASE dialFails(cs)
      BY <2>1, <3>3, <3>6, LiveDropped DEF dialFails, StreamWhole
    <3>7. QED
      BY <3>4, <3>5, <3>6
  <2>4. QED
    BY <2>2, <2>3
<1>6. QED
  BY <1>1, <1>2, <1>3, <1>4, <1>5 DEF LoopStep

(* The read loop of a connection. *)
LEMMA ReaderConnection ==
  ASSUME TypeOK, StreamWhole, NEW c \in Conn, ReaderStep(c)
  PROVE  ConnectionStep
<1> USE DEF TypeOK
<1>1. CASE readLoopEnds(c)
  BY <1>1, GoroutineMoves, LiveKept DEF readLoopEnds
<1>2. CASE handleInbound(c)
  <2>1. PICK seq \in 0..MaxKeepalive :
          conn' = [conn EXCEPT ![c].highest = seq, ![c].acks = TRUE]
    BY <1>2 DEF handleInbound
  <2> DEFINE r == [conn[c] EXCEPT !.highest = seq, !.acks = TRUE]
  <2>2. r \in ConnState /\ (Whole(conn[c]) => Whole(r))
    BY ConnectionEdits
  <2>3. conn' = [conn EXCEPT ![c] = r]
    BY <2>1
  <2> HIDE DEF r
  <2>4. conn' \in [Conn -> ConnState] /\ \A d \in Conn : Whole(conn[d]) => Whole(conn'[d])
    BY <2>2, <2>3
  <2>5. UNCHANGED <<mdf, mu, live, closed, callers, misread>> /\ unreachable' \in BOOLEAN
    BY <1>2 DEF handleInbound
  <2>6. QED
    BY <2>4, <2>5, LiveKept
<1>3. CASE answerKeepalive(c)
  <2>1. UNCHANGED <<mdf, mu, closed, unreachable, callers>> /\ mu = NoProc
    BY <1>3 DEF answerKeepalive
  <2>2. CASE Stale(c) /\ Reader(c, "off") /\ UNCHANGED <<live, misread>>
    BY <2>1, <2>2, GoroutineMoves, LiveKept
  <2>3. CASE ~Stale(c) /\ misread' = (misread \/ conn[live].torn) /\ UNCHANGED <<conn, live>>
    <3>1. live # NoConn
      BY <2>3, ClientAssumption DEF Stale
    <3>2. misread' = misread
      BY <2>3, <3>1 DEF StreamWhole
    <3>3. QED
      BY <2>1, <2>3, <3>2, LiveKept
  <2>4. CASE ~Stale(c) /\ dropLocked([conn EXCEPT ![c].reader = "off"]) /\ UNCHANGED misread
    <3> DEFINE r == [conn[c] EXCEPT !.reader = "off"]
               cs == [conn EXCEPT ![c] = r]
    <3>1. r \in ConnState
      BY DEF ConnState
    <3>2. dropLocked(cs)
      BY <2>4
    <3> HIDE DEF r
    <3>3. cs \in [Conn -> ConnState]
      BY <3>1
    <3> HIDE DEF cs
    <3>4. conn' \in [Conn -> ConnState] /\ live' = NoConn
      BY <2>4, <3>2, <3>3, DropLocked DEF Stale
    <3>5. QED
      BY <2>1, <2>4, <3>4, LiveDropped DEF StreamWhole
  <2>5. QED
    BY <1>3, <2>2, <2>3, <2>4 DEF answerKeepalive
<1>4. CASE receiveForeign(c)
  BY <1>4, GoroutineMoves, LiveKept DEF receiveForeign
<1>5. CASE protocolError(c)
  <2>1. UNCHANGED <<mdf, mu, closed, unreachable, callers, misread>> /\ mu = NoProc
    BY <1>5 DEF protocolError
  <2>2. CASE Stale(c)
    BY <1>5, <2>1, <2>2, GoroutineMoves, LiveKept DEF protocolError
  <2>3. CASE ~Stale(c)
    <3> DEFINE r == [conn[c] EXCEPT !.reader = "off"]
               cs == [conn EXCEPT ![c] = r]
    <3>1. r \in ConnState
      BY DEF ConnState
    <3>2. dropLocked(cs)
      BY <1>5, <2>3 DEF protocolError
    <3> HIDE DEF r
    <3>3. cs \in [Conn -> ConnState]
      BY <3>1
    <3> HIDE DEF cs
    <3>4. conn' \in [Conn -> ConnState] /\ live' = NoConn
      BY <2>3, <3>2, <3>3, DropLocked DEF Stale
    <3>5. QED
      BY <2>1, <3>4, LiveDropped DEF StreamWhole
  <2>4. QED
    BY <2>2, <2>3
<1>6. QED
  BY <1>1, <1>2, <1>3, <1>4, <1>5 DEF ReaderStep

(* The timer and the network. *)
LEMMA OutsideConnection ==
  ASSUME TypeOK, StreamWhole, Outage \/ \E c \in Conn : TimeP2(c)
  PROVE  ConnectionStep
<1> USE DEF TypeOK
<1>1. CASE Outage
  <2>1. \A c \in Conn : LET r == [conn[c] EXCEPT !.sound = @ /\ mdf' = "answers"]
                        IN  r \in ConnState /\ (Whole(conn[c]) => Whole(r))
    <3>1. TAKE c \in Conn
    <3>2. conn[c] \in ConnState /\ (conn[c].sound /\ mdf' = "answers") \in BOOLEAN
      OBVIOUS
    <3>3. QED
      BY <3>2, ConnectionEdits
  <2>2. conn' = [c \in Conn |-> [conn[c] EXCEPT !.sound = @ /\ mdf' = "answers"]]
        /\ mdf' \in MDF /\ UNCHANGED <<mu, live, closed, unreachable, callers, misread>>
    BY <1>1 DEF Outage
  <2>3. QED
    BY <2>1, <2>2, LiveKept
<1>2. ASSUME NEW c \in Conn, TimeP2(c)
      PROVE  ConnectionStep
  <2> DEFINE r == [conn[c] EXCEPT !.overdue = TRUE]
  <2>1. r \in ConnState /\ (Whole(conn[c]) => Whole(r))
    BY ConnectionEdits
  <2>2. conn' = [conn EXCEPT ![c] = r]
        /\ UNCHANGED <<mdf, mu, live, closed, unreachable, callers, misread>>
    BY <1>2 DEF TimeP2
  <2> HIDE DEF r
  <2>3. conn' \in [Conn -> ConnState] /\ \A d \in Conn : Whole(conn[d]) => Whole(conn'[d])
    BY <2>1, <2>2
  <2>4. QED
    BY <2>2, <2>3, LiveKept
<1>3. QED
  BY <1>1, <1>2

(* Such steps keep the invariant. *)
LEMMA ConnectionPreserves ==
  ASSUME ClientInv, ConnectionStep
  PROVE  ClientInv'
<1> USE DEF ClientInv, ConnectionStep, callers
<1>1. TypeOK'
  <2>1. misread' \in BOOLEAN /\ closed' \in BOOLEAN
    BY DEF TypeOK
  <2>2. QED
    BY <2>1 DEF TypeOK
<1>2. MutexHeld'
  <2>1. \A s \in Sender : pc[s] \in {"write", "rewrite"} => mu = s
    BY DEF MutexHeld, Holding
  <2>2. \A s \in Sender : s # NoProc
    BY ClientAssumption DEF Proc
  <2>3. QED
    BY <2>1, <2>2 DEF MutexHeld
<1>3. Progress'
  BY DEF Progress
<1>4. QED
  BY <1>1, <1>2, <1>3

-----------------------------------------------------------------------------
(* Send and SendBatch.                                                     *)
-----------------------------------------------------------------------------

(* A caller moves on to `at`, with what it then has in hand. *)
Moved(s, at, m, r, a, k) ==
  /\ at \in Holding \cup {"idle", "deliver", "record"}
  /\ m \in Message \cup {NoMessage}
  /\ r \in [from : Nat, resuming : BOOLEAN]
  /\ a \in {"none", "ok", "failed", "unitDropped"}
  /\ k \in [Units(m) -> Nat]
  /\ pc' = [pc EXCEPT ![s] = at]
  /\ sending' = [sending EXCEPT ![s] = m]
  /\ rest' = [rest EXCEPT ![s] = r]
  /\ answer' = [answer EXCEPT ![s] = a]
  /\ taken' = [taken EXCEPT ![s] = k]

(* The types of what is not a caller's. *)
ClientTypes ==
  /\ mdf \in MDF /\ closed \in BOOLEAN
  /\ unreachable \in BOOLEAN /\ misread \in BOOLEAN
  /\ mu \in Sender \cup {NoProc}
  /\ live \in Conn \cup {NoConn}
  /\ conn \in [Conn -> ConnState]

(* The types and what is known of every delivery are kept if they are kept *)
(* for the caller that moved.                                              *)
LEMMA CallerMoves ==
  ASSUME TypeOK, Progress, NEW s \in Sender, NEW at, NEW m, NEW r, NEW a, NEW k,
         Moved(s, at, m, r, a, k), ProgressAt(at, m, r, a, k), ClientTypes'
  PROVE  /\ TypeOK' /\ Progress'
         /\ pc'[s] = at /\ \A t \in Sender \ {s} : pc'[t] = pc[t]
<1> USE DEF Moved, ClientTypes
<1>1. s \in Proc /\ \A c \in Closer : c \in Proc /\ c # s
  BY ClientAssumption DEF Proc
<1>2. /\ pc'[s] = at /\ sending'[s] = m /\ rest'[s] = r /\ answer'[s] = a /\ taken'[s] = k
      /\ DOMAIN pc' = Proc /\ taken' = [t \in Sender |-> taken'[t]]
  BY <1>1 DEF TypeOK
<1>3. \A t \in Sender \ {s} : /\ pc'[t] = pc[t] /\ sending'[t] = sending[t]
                              /\ rest'[t] = rest[t] /\ answer'[t] = answer[t]
                              /\ taken'[t] = taken[t]
  BY DEF TypeOK, Proc
<1>4. \A c \in Closer : pc'[c] = pc[c]
  BY <1>1 DEF TypeOK
<1>5. TypeOK'
  <2>1. /\ sending' \in [Sender -> Message \cup {NoMessage}]
        /\ rest' \in [Sender -> [from : Nat, resuming : BOOLEAN]]
        /\ answer' \in [Sender -> {"none", "ok", "failed", "unitDropped"}]
    BY DEF TypeOK
  <2>2. \A t \in Sender : taken'[t] \in [Units(sending'[t]) -> Nat]
    BY <1>2, <1>3 DEF TypeOK
  <2>3. /\ \A t \in Sender : pc'[t] \in Holding \cup {"idle", "deliver", "record"}
        /\ \A c \in Closer : pc'[c] \in {"idle", "closed"} \cup Conn
    BY <1>2, <1>3, <1>4 DEF TypeOK
  <2>4. QED
    BY <1>2, <2>1, <2>2, <2>3 DEF TypeOK
<1>6. Progress'
  <2>1. \A t \in Sender : ProgressAt(pc'[t], sending'[t], rest'[t], answer'[t], taken'[t])
    BY <1>2, <1>3 DEF Progress
  <2>2. QED
    BY <2>1 DEF Progress
<1>7. QED
  BY <1>2, <1>3, <1>5, <1>6

(* The types of what a caller has in hand. *)
LEMMA CallerTypes ==
  ASSUME TypeOK, NEW s \in Sender
  PROVE  /\ pc[s] \in Holding \cup {"idle", "deliver", "record"}
         /\ sending[s] \in Message \cup {NoMessage}
         /\ rest[s] \in [from : Nat, resuming : BOOLEAN]
         /\ answer[s] \in {"none", "ok", "failed", "unitDropped"}
         /\ taken[s] \in [Units(sending[s]) -> Nat]
         /\ s \in Proc /\ s # NoProc
<1>1. s \in Proc /\ s # NoProc
  BY ClientAssumption DEF Proc
<1>2. QED
  BY <1>1 DEF TypeOK

(* What a caller keeps in hand. *)
LEMMA CallerKeeps ==
  ASSUME TypeOK, NEW s \in Sender
  PROVE  /\ UNCHANGED sending => sending' = [sending EXCEPT ![s] = sending[s]]
         /\ UNCHANGED rest => rest' = [rest EXCEPT ![s] = rest[s]]
         /\ UNCHANGED answer => answer' = [answer EXCEPT ![s] = answer[s]]
         /\ UNCHANGED taken => taken' = [taken EXCEPT ![s] = taken[s]]
<1>1. sending = [sending EXCEPT ![s] = sending[s]]
  BY DEF TypeOK
<1>2. rest = [rest EXCEPT ![s] = rest[s]]
  BY DEF TypeOK
<1>3. answer = [answer EXCEPT ![s] = answer[s]]
  BY DEF TypeOK
<1>4. taken = [taken EXCEPT ![s] = taken[s]]
  BY DEF TypeOK
<1>5. QED
  BY <1>1, <1>2, <1>3, <1>4

(* A call starts with nothing of its message written. *)
LEMMA SendBatchPreserves ==
  ASSUME ClientInv, NEW s \in Sender, NEW m \in Message, SendBatch(s, m)
  PROVE  ClientInv'
<1> USE DEF ClientInv
<1>1. UNCHANGED <<mdf, mu, live, closed, unreachable, conn, rest, answer, misread>>
      /\ pc[s] = "idle" /\ pc' = [pc EXCEPT ![s] = "deliver"]
      /\ sending' = [sending EXCEPT ![s] = m] /\ taken' = [taken EXCEPT ![s] = NotTaken(m)]
  BY DEF SendBatch
<1>2. NotTaken(m) \in [Units(m) -> Nat] /\ \A i \in Units(m) : NotTaken(m)[i] = 0
  BY DEF NotTaken
<1>3. answer[s] = "none"
  BY <1>1 DEF Progress, ProgressAt
<1>4. ProgressAt("deliver", m, rest[s], answer[s], NotTaken(m))
  BY <1>2, <1>3 DEF ProgressAt
<1>5. Moved(s, "deliver", m, rest[s], answer[s], NotTaken(m))
  BY <1>1, <1>2, CallerTypes, CallerKeeps DEF Moved
<1>6. ClientTypes'
  BY <1>1 DEF TypeOK, ClientTypes
<1>7. TypeOK' /\ Progress' /\ pc'[s] = "deliver" /\ \A t \in Sender \ {s} : pc'[t] = pc[t]
  BY <1>4, <1>5, <1>6, CallerMoves
<1>8. MutexHeld' /\ StreamWhole'
  BY <1>1, <1>7 DEF MutexHeld, StreamWhole, Holding
<1>9. QED
  BY <1>7, <1>8

(* deliver takes mu, unless the client was closed. *)
LEMMA DeliverPreserves ==
  ASSUME ClientInv, NEW s \in Sender, deliver(s)
  PROVE  ClientInv'
<1> USE DEF ClientInv
<1>1. UNCHANGED <<mdf, live, closed, unreachable, conn, sending, taken, misread>>
      /\ pc[s] = "deliver" /\ mu = NoProc
  BY DEF deliver
<1>2. ProgressAt("deliver", sending[s], rest[s], answer[s], taken[s])
  BY <1>1 DEF Progress
<1>3. CASE closed
  <2>1. mu' = NoProc /\ pc' = [pc EXCEPT ![s] = "record"] /\ rest' = [rest EXCEPT ![s] = NoRest]
        /\ answer' = [answer EXCEPT ![s] = "failed"]
    BY <1>3 DEF deliver, Return
  <2>2. NoRest \in [from : Nat, resuming : BOOLEAN]
    BY DEF NoRest
  <2>3. ProgressAt("record", sending[s], NoRest, "failed", taken[s])
    BY <1>2 DEF ProgressAt
  <2>4. Moved(s, "record", sending[s], NoRest, "failed", taken[s])
    BY <1>1, <2>1, <2>2, CallerTypes, CallerKeeps DEF Moved
  <2>5. ClientTypes'
    BY <1>1, <2>1 DEF TypeOK, ClientTypes
  <2>6. TypeOK' /\ Progress' /\ pc'[s] = "record" /\ \A t \in Sender \ {s} : pc'[t] = pc[t]
    BY <2>3, <2>4, <2>5, CallerMoves
  <2>7. MutexHeld' /\ StreamWhole'
    BY <1>1, <2>1, <2>6, CallerTypes DEF MutexHeld, StreamWhole, Holding
  <2>8. QED
    BY <2>6, <2>7
<1>4. CASE ~closed
  <2> DEFINE at == IF live = NoConn THEN "dial" ELSE "write"
  <2>1. mu' = s /\ pc' = [pc EXCEPT ![s] = at] /\ UNCHANGED <<rest, answer>>
    BY <1>4 DEF deliver
  <2>2. at \in Holding /\ at \in {"dial", "write"} /\ (at = "write" => live # NoConn)
    BY DEF Holding
  <2> HIDE DEF at
  <2>3. ProgressAt(at, sending[s], rest[s], answer[s], taken[s])
    BY <1>2, <2>2 DEF ProgressAt
  <2>4. Moved(s, at, sending[s], rest[s], answer[s], taken[s])
    BY <1>1, <2>1, <2>2, CallerTypes, CallerKeeps DEF Moved
  <2>5. ClientTypes'
    BY <1>1, <2>1 DEF TypeOK, ClientTypes
  <2>6. TypeOK' /\ Progress' /\ pc'[s] = at /\ \A t \in Sender \ {s} : pc'[t] = pc[t]
    BY <2>3, <2>4, <2>5, CallerMoves
  <2>7. MutexHeld' /\ StreamWhole'
    BY <1>1, <1>4, <2>1, <2>2, <2>6, CallerTypes DEF MutexHeld, StreamWhole
  <2>8. QED
    BY <2>6, <2>7
<1>5. QED
  BY <1>3, <1>4

(* sendBytes ends the call. *)
LEMMA SendBytesPreserves ==
  ASSUME ClientInv, NEW s \in Sender, sendBytes(s)
  PROVE  ClientInv'
<1> USE DEF ClientInv
<1>1. UNCHANGED <<mdf, mu, live, closed, conn, rest, misread>> /\ unreachable' \in BOOLEAN
      /\ pc[s] = "record" /\ pc' = [pc EXCEPT ![s] = "idle"]
      /\ sending' = [sending EXCEPT ![s] = NoMessage]
      /\ taken' = [taken EXCEPT ![s] = NotTaken(NoMessage)]
      /\ answer' = [answer EXCEPT ![s] = "none"]
  BY DEF sendBytes
<1>2. NotTaken(NoMessage) \in [Units(NoMessage) -> Nat]
      /\ \A i \in Units(NoMessage) : NotTaken(NoMessage)[i] = 0
  BY DEF NotTaken
<1>3. ProgressAt("idle", NoMessage, rest[s], "none", NotTaken(NoMessage))
  BY <1>2 DEF ProgressAt
<1>4. Moved(s, "idle", NoMessage, rest[s], "none", NotTaken(NoMessage))
  BY <1>1, <1>2, CallerTypes, CallerKeeps DEF Moved
<1>5. ClientTypes'
  BY <1>1 DEF TypeOK, ClientTypes
<1>6. TypeOK' /\ Progress' /\ pc'[s] = "idle" /\ \A t \in Sender \ {s} : pc'[t] = pc[t]
  BY <1>3, <1>4, <1>5, CallerMoves
<1>7. MutexHeld' /\ StreamWhole'
  BY <1>1, <1>6 DEF MutexHeld, StreamWhole, Holding
<1>8. QED
  BY <1>6, <1>7

(* A dial under mu: a connection to write to, or the call has failed. *)
LEMMA DialPreserves ==
  ASSUME ClientInv, NEW s \in Sender, dial(s)
  PROVE  ClientInv'
<1> USE DEF ClientInv
<1>1. UNCHANGED <<mdf, closed, unreachable, sending, taken, misread>> /\ pc[s] = "dial"
  BY DEF dial
<1>2. ProgressAt("dial", sending[s], rest[s], answer[s], taken[s])
  BY <1>1 DEF Progress
<1>3. mu = s /\ ~closed /\ \A t \in Sender \ {s} : pc[t] \notin Holding
  BY <1>1, CallerTypes DEF MutexHeld, Holding
<1>4. CASE dialSucceeds(conn) /\ Continue(s, "write") /\ UNCHANGED rest
  <2>1. pc' = [pc EXCEPT ![s] = "write"] /\ UNCHANGED <<mu, answer, rest>>
    BY <1>4 DEF Continue
  <2>2. conn' \in [Conn -> ConnState] /\ live' \in Conn /\ Whole(conn'[live'])
    BY <1>4, DialSucceeds DEF TypeOK
  <2>3. ProgressAt("write", sending[s], rest[s], answer[s], taken[s])
    BY <1>2 DEF ProgressAt
  <2>4. Moved(s, "write", sending[s], rest[s], answer[s], taken[s])
    BY <1>1, <2>1, CallerTypes, CallerKeeps DEF Moved, Holding
  <2>5. ClientTypes'
    BY <1>1, <2>1, <2>2 DEF TypeOK, ClientTypes
  <2>6. TypeOK' /\ Progress' /\ pc'[s] = "write" /\ \A t \in Sender \ {s} : pc'[t] = pc[t]
    BY <2>3, <2>4, <2>5, CallerMoves
  <2>7. MutexHeld'
    BY <1>1, <1>3, <2>1, <2>2, <2>6, CallerTypes, ClientAssumption DEF MutexHeld, Holding
  <2>8. StreamWhole'
    BY <1>1, <2>2 DEF StreamWhole, Whole
  <2>9. QED
    BY <2>6, <2>7, <2>8
<1>5. CASE dialFails(conn) /\ Return(s, "failed")
  <2>1. pc' = [pc EXCEPT ![s] = "record"] /\ mu' = NoProc /\ conn' = conn /\ live' = NoConn
        /\ rest' = [rest EXCEPT ![s] = NoRest] /\ answer' = [answer EXCEPT ![s] = "failed"]
    BY <1>5 DEF Return, dialFails
  <2>2. NoRest \in [from : Nat, resuming : BOOLEAN]
    BY DEF NoRest
  <2>3. ProgressAt("record", sending[s], NoRest, "failed", taken[s])
    BY <1>2 DEF ProgressAt
  <2>4. Moved(s, "record", sending[s], NoRest, "failed", taken[s])
    BY <1>1, <2>1, <2>2, CallerTypes, CallerKeeps DEF Moved
  <2>5. ClientTypes'
    BY <1>1, <2>1 DEF TypeOK, ClientTypes
  <2>6. TypeOK' /\ Progress' /\ pc'[s] = "record" /\ \A t \in Sender \ {s} : pc'[t] = pc[t]
    BY <2>3, <2>4, <2>5, CallerMoves
  <2>7. MutexHeld'
    BY <1>3, <2>1, <2>6, CallerTypes DEF MutexHeld, Holding
  <2>8. StreamWhole'
    BY <1>1, <2>1 DEF StreamWhole
  <2>9. QED
    BY <2>6, <2>7, <2>8
<1>6. QED
  BY <1>4, <1>5 DEF dial

(* The redial: what was written whole decides whether anything is left to  *)
(* send.                                                                   *)
LEMMA RedialPreserves ==
  ASSUME ClientInv, NEW s \in Sender, redial(s)
  PROVE  ClientInv'
<1> USE DEF ClientInv
<1>1. UNCHANGED <<mdf, closed, unreachable, sending, taken, misread>> /\ pc[s] = "redial"
  BY DEF redial
<1>2. ProgressAt("redial", sending[s], rest[s], answer[s], taken[s])
  BY <1>1 DEF Progress
<1>3. mu = s /\ ~closed /\ \A t \in Sender \ {s} : pc[t] \notin Holding
  BY <1>1, CallerTypes DEF MutexHeld, Holding
<1>4. NoRest \in [from : Nat, resuming : BOOLEAN]
  BY DEF NoRest
<1>5. sending[s] \in Message /\ (\A i \in Units(sending[s]) : taken[s][i] \in {0, 1})
  BY <1>2 DEF ProgressAt
<1>6. CASE dialSucceeds(conn)
  <2>1. conn' \in [Conn -> ConnState] /\ live' \in Conn /\ Whole(conn'[live'])
    BY <1>6, DialSucceeds DEF TypeOK
  <2>2. CASE rest[s].from = sending[s].total /\ Return(s, "ok")
    <3>1. pc' = [pc EXCEPT ![s] = "record"] /\ mu' = NoProc
          /\ rest' = [rest EXCEPT ![s] = NoRest] /\ answer' = [answer EXCEPT ![s] = "ok"]
      BY <2>2 DEF Return
    <3>2. \A i \in Units(sending[s]) : taken[s][i] = 1
      BY <1>2, <1>5, <2>2, EndsOfMessage DEF ProgressAt
    <3>3. ProgressAt("record", sending[s], NoRest, "ok", taken[s])
      BY <1>5, <3>2 DEF ProgressAt
    <3>4. Moved(s, "record", sending[s], NoRest, "ok", taken[s])
      BY <1>1, <1>4, <3>1, CallerTypes, CallerKeeps DEF Moved
    <3>5. ClientTypes'
      BY <1>1, <2>1, <3>1 DEF TypeOK, ClientTypes
    <3>6. TypeOK' /\ Progress' /\ pc'[s] = "record" /\ \A t \in Sender \ {s} : pc'[t] = pc[t]
      BY <3>3, <3>4, <3>5, CallerMoves
    <3>7. MutexHeld'
      BY <1>1, <1>3, <3>1, <3>6, CallerTypes DEF MutexHeld, Holding
    <3>8. StreamWhole'
      BY <1>1, <2>1 DEF StreamWhole, Whole
    <3>9. QED
      BY <3>6, <3>7, <3>8
  <2>3. CASE Continue(s, "rewrite") /\ UNCHANGED rest
    <3>1. pc' = [pc EXCEPT ![s] = "rewrite"] /\ UNCHANGED <<mu, answer, rest>>
      BY <2>3 DEF Continue
    <3>2. ProgressAt("rewrite", sending[s], rest[s], answer[s], taken[s])
      BY <1>2 DEF ProgressAt
    <3>3. Moved(s, "rewrite", sending[s], rest[s], answer[s], taken[s])
      BY <1>1, <3>1, CallerTypes, CallerKeeps DEF Moved, Holding
    <3>4. ClientTypes'
      BY <1>1, <2>1, <3>1 DEF TypeOK, ClientTypes
    <3>5. TypeOK' /\ Progress' /\ pc'[s] = "rewrite" /\ \A t \in Sender \ {s} : pc'[t] = pc[t]
      BY <3>2, <3>3, <3>4, CallerMoves
    <3>6. MutexHeld'
      BY <1>1, <1>3, <2>1, <3>1, <3>5, CallerTypes, ClientAssumption DEF MutexHeld, Holding
    <3>7. StreamWhole'
      BY <1>1, <2>1 DEF StreamWhole, Whole
    <3>8. QED
      BY <3>5, <3>6, <3>7
  <2>4. CASE dialFails(conn)
    BY <1>6, <2>1, <2>4, ClientAssumption DEF dialFails
  <2>5. QED
    BY <2>2, <2>3, <2>4 DEF redial
<1>7. CASE dialFails(conn) /\ Return(s, "failed")
  <2>1. pc' = [pc EXCEPT ![s] = "record"] /\ mu' = NoProc /\ conn' = conn /\ live' = NoConn
        /\ rest' = [rest EXCEPT ![s] = NoRest] /\ answer' = [answer EXCEPT ![s] = "failed"]
    BY <1>7 DEF Return, dialFails
  <2>2. ProgressAt("record", sending[s], NoRest, "failed", taken[s])
    BY <1>5 DEF ProgressAt
  <2>3. Moved(s, "record", sending[s], NoRest, "failed", taken[s])
    BY <1>1, <1>4, <2>1, CallerTypes, CallerKeeps DEF Moved
  <2>4. ClientTypes'
    BY <1>1, <2>1 DEF TypeOK, ClientTypes
  <2>5. TypeOK' /\ Progress' /\ pc'[s] = "record" /\ \A t \in Sender \ {s} : pc'[t] = pc[t]
    BY <2>2, <2>3, <2>4, CallerMoves
  <2>6. MutexHeld'
    BY <1>3, <2>1, <2>5, CallerTypes DEF MutexHeld, Holding
  <2>7. StreamWhole'
    BY <1>1, <2>1 DEF StreamWhole
  <2>8. QED
    BY <2>5, <2>6, <2>7
<1>8. QED
  BY <1>6, <1>7 DEF redial

(* How often each unit was written whole once n bytes more have been, from *)
(* an offset on.                                                           *)
Counted(m, k, from, n) ==
  [i \in Units(m) |-> IF i \in WholeIn(m, from, n) THEN k[i] + 1 ELSE k[i]]

(* A peer that reads from the start of a unit on misreads nothing. *)
LEMMA PeerReads ==
  ASSUME ClientInv, NEW s \in Sender, NEW from \in Nat, NEW n \in Nat,
         live # NoConn, AtUnitStart(sending[s], from), Peer(s, live, from, n)
  PROVE  LET k == Counted(sending[s], taken[s], from, n)
         IN  /\ taken' = [taken EXCEPT ![s] = k] /\ k \in [Units(sending[s]) -> Nat]
             /\ misread' = FALSE
<1>1. taken[s] \in [Units(sending[s]) -> Nat]
  BY CallerTypes DEF ClientInv
<1>2. ~misread /\ ~conn[live].torn
  BY DEF ClientInv, StreamWhole
<1>3. misread' = FALSE
  BY <1>2 DEF Peer
<1>4. Counted(sending[s], taken[s], from, n) \in [Units(sending[s]) -> Nat]
  BY <1>1 DEF Counted
<1>5. taken' = [taken EXCEPT ![s] = Counted(sending[s], taken[s], from, n)]
  BY <1>1 DEF Peer, Counted
<1>6. QED
  BY <1>3, <1>4, <1>5

(* A write to the end of the message leaves the connection whole. *)
LEMMA TornConnection ==
  ASSUME ClientInv, NEW s \in Sender, NEW from \in Nat, NEW n \in Nat, live # NoConn
  PROVE  LET cs == Torn(s, live, from, n)
         IN  /\ cs \in [Conn -> ConnState]
             /\ from + n = sending[s].total => Whole(cs[live])
<1> DEFINE b == ~AtUnitStart(sending[s], from + n)
           v == conn[live].torn \/ b
           r == [conn[live] EXCEPT !.torn = v]
           cs == [conn EXCEPT ![live] = r]
<1>1. live \in Conn /\ conn \in [Conn -> ConnState] /\ Whole(conn[live])
  BY DEF ClientInv, TypeOK, StreamWhole, Whole
<1>2. Torn(s, live, from, n) = cs
  BY DEF Torn
<1>3. b \in BOOLEAN /\ (from + n = sending[s].total => ~b)
  BY DEF AtUnitStart
<1> HIDE DEF b
<1>4. v \in BOOLEAN /\ (from + n = sending[s].total => ~v)
  BY <1>1, <1>3 DEF Whole, ConnState
<1> HIDE DEF v
<1>5. r \in ConnState /\ (from + n = sending[s].total => Whole(r))
  BY <1>1, <1>4 DEF ConnState, Whole
<1> HIDE DEF r
<1>6. cs \in [Conn -> ConnState] /\ cs[live] = r
  BY <1>1, <1>5
<1>7. QED
  BY <1>2, <1>5, <1>6

(* What is counted of the units: the first write's, from offset 0 on, ... *)
LEMMA FirstWriteCounts ==
  ASSUME NEW m \in Message, NEW k, \A i \in Units(m) : k[i] = 0, NEW n \in Nat
  PROVE  \A i \in Units(m) : Counted(m, k, 0, n)[i] = IF Ends(m)[i] <= n THEN 1 ELSE 0
<1>1. TAKE i \in Units(m)
<1>2. Ends(m)[i] \in Nat /\ StartOf(m, i) \in Nat
  BY EndsOfMessage, StartsOfMessage
<1>3. i \in WholeIn(m, 0, n) <=> Ends(m)[i] <= n
  BY <1>2 DEF WholeIn
<1>4. QED
  BY <1>3 DEF Counted

(* ... and the resend's, which are none of the first's and, if it goes     *)
(* through to the end, all of the others.                                  *)
LEMMA ResendCounts ==
  ASSUME NEW m \in Message, NEW k, NEW from \in 0..m.total, AtUnitStart(m, from),
         \A i \in Units(m) : k[i] = IF Ends(m)[i] <= from THEN 1 ELSE 0, NEW n \in Nat
  PROVE  \A i \in Units(m) : /\ Counted(m, k, from, n)[i] <= 1
                             /\ n = m.total - from => Counted(m, k, from, n)[i] = 1
<1>1. TAKE i \in Units(m)
<1>2. Ends(m)[i] \in Nat /\ StartOf(m, i) \in Nat /\ Ends(m)[i] <= m.total
      /\ m.total \in Nat /\ from \in Nat
  BY EndsOfMessage, StartsOfMessage
<1>3. from <= StartOf(m, i) <=> ~(Ends(m)[i] <= from)
  BY <1>2, StartSplitsUnits
<1>4. i \in WholeIn(m, from, n) <=> from <= StartOf(m, i) /\ Ends(m)[i] <= from + n
  BY DEF WholeIn
<1>5. k[i] = IF Ends(m)[i] <= from THEN 1 ELSE 0
  OBVIOUS
<1>6. Counted(m, k, from, n)[i] = IF i \in WholeIn(m, from, n) THEN k[i] + 1 ELSE k[i]
  BY DEF Counted
<1>7. n = m.total - from => from + n = m.total
  BY <1>2
<1>8. QED
  BY <1>2, <1>3, <1>4, <1>5, <1>6, <1>7

(* The first write: it goes through, or it stops after n bytes, and the    *)
(* rest is sent again on another connection.                               *)
LEMMA WritePreserves ==
  ASSUME ClientInv, NEW s \in Sender, write(s)
  PROVE  ClientInv'
<1> DEFINE m == sending[s]
<1>1. UNCHANGED <<mdf, closed, unreachable, sending>> /\ pc[s] = "write"
  BY DEF write
<1>2. ProgressAt("write", m, rest[s], answer[s], taken[s])
  BY <1>1 DEF ClientInv, Progress
<1>3. /\ mu = s /\ ~closed /\ \A t \in Sender \ {s} : pc[t] \notin Holding
      /\ live # NoConn /\ live \in Conn
  BY <1>1, CallerTypes DEF ClientInv, MutexHeld, Holding, TypeOK
<1>4. /\ m \in Message /\ m.total \in Nat /\ (\A i \in Units(m) : taken[s][i] = 0)
      /\ AtUnitStart(m, 0) /\ NoRest \in [from : Nat, resuming : BOOLEAN]
  BY <1>2, EndsOfMessage, StartsOfMessage DEF ProgressAt, AtUnitStart, NoRest
<1>5. CASE Peer(s, live, 0, m.total) /\ conn' = Torn(s, live, 0, m.total)
           /\ Return(s, "ok") /\ UNCHANGED live
  <2> DEFINE k == Counted(m, taken[s], 0, m.total)
  <2>1. taken' = [taken EXCEPT ![s] = k] /\ k \in [Units(m) -> Nat] /\ misread' = FALSE
    BY <1>3, <1>4, <1>5, PeerReads
  <2>2. \A i \in Units(m) : k[i] = 1
    <3>1. \A i \in Units(m) : k[i] = IF Ends(m)[i] <= m.total THEN 1 ELSE 0
      BY <1>4, FirstWriteCounts
    <3>2. QED
      BY <1>4, <3>1, EndsOfMessage
  <2> HIDE DEF k
  <2>3. conn' \in [Conn -> ConnState] /\ Whole(conn'[live])
    BY <1>3, <1>4, <1>5, TornConnection
  <2>4. pc' = [pc EXCEPT ![s] = "record"] /\ mu' = NoProc
        /\ rest' = [rest EXCEPT ![s] = NoRest] /\ answer' = [answer EXCEPT ![s] = "ok"]
    BY <1>5 DEF Return
  <2>5. ProgressAt("record", m, NoRest, "ok", k)
    BY <1>4, <2>2 DEF ProgressAt
  <2>6. Moved(s, "record", m, NoRest, "ok", k)
    BY <1>1, <1>4, <2>1, <2>4, CallerTypes, CallerKeeps DEF Moved, ClientInv
  <2>7. ClientTypes'
    BY <1>1, <1>3, <1>5, <2>1, <2>3, <2>4 DEF TypeOK, ClientTypes, ClientInv
  <2>8. TypeOK' /\ Progress' /\ pc'[s] = "record" /\ \A t \in Sender \ {s} : pc'[t] = pc[t]
    BY <2>5, <2>6, <2>7, CallerMoves DEF ClientInv
  <2>9. MutexHeld'
    BY <1>1, <1>3, <2>4, <2>8, CallerTypes DEF MutexHeld, Holding, ClientInv
  <2>10. StreamWhole'
    BY <1>5, <2>1, <2>3 DEF StreamWhole, Whole
  <2>11. QED
    BY <2>8, <2>9, <2>10 DEF ClientInv
<1>6. ASSUME NEW n \in Written(live, m.total),
             Peer(s, live, 0, n), rest' = [rest EXCEPT ![s] = resumeAt(m, n)],
             dropLocked(Torn(s, live, 0, n)), Continue(s, "redial")
      PROVE  ClientInv'
  <2> DEFINE k == Counted(m, taken[s], 0, n)
             r == resumeAt(m, n)
  <2>1. n \in 0..m.total /\ n \in Nat
    BY <1>4 DEF Written
  <2>2. taken' = [taken EXCEPT ![s] = k] /\ k \in [Units(m) -> Nat] /\ misread' = FALSE
    BY <1>3, <1>4, <1>6, <2>1, PeerReads
  <2>3. \A i \in Units(m) : k[i] = IF Ends(m)[i] <= n THEN 1 ELSE 0
    BY <1>4, <2>1, FirstWriteCounts
  <2>4. /\ r \in [from : Nat, resuming : BOOLEAN] /\ r.from \in 0..m.total
        /\ AtUnitStart(m, r.from)
        /\ \A i \in Units(m) : Ends(m)[i] <= n <=> Ends(m)[i] <= r.from
    BY <1>4, <2>1, ResumeIsExact
  <2>5. rest' = [rest EXCEPT ![s] = r] /\ pc' = [pc EXCEPT ![s] = "redial"]
        /\ UNCHANGED <<mu, answer>>
    BY <1>6 DEF Continue
  <2> HIDE DEF k, r
  <2>6. conn' \in [Conn -> ConnState] /\ live' = NoConn
    BY <1>3, <1>6, <2>1, TornConnection, DropLocked
  <2>7. ProgressAt("redial", m, r, answer[s], k)
    BY <1>2, <1>4, <2>3, <2>4 DEF ProgressAt
  <2>8. Moved(s, "redial", m, r, answer[s], k)
    BY <1>1, <1>4, <2>2, <2>4, <2>5, CallerTypes, CallerKeeps DEF Moved, ClientInv, Holding
  <2>9. ClientTypes'
    BY <1>1, <1>3, <2>2, <2>5, <2>6 DEF TypeOK, ClientTypes, ClientInv
  <2>10. TypeOK' /\ Progress' /\ pc'[s] = "redial" /\ \A t \in Sender \ {s} : pc'[t] = pc[t]
    BY <2>7, <2>8, <2>9, CallerMoves DEF ClientInv
  <2>11. MutexHeld'
    BY <1>1, <1>3, <2>5, <2>6, <2>10, CallerTypes DEF MutexHeld, Holding, ClientInv
  <2>12. StreamWhole'
    BY <2>2, <2>6 DEF StreamWhole
  <2>13. QED
    BY <2>10, <2>11, <2>12 DEF ClientInv
<1>7. QED
  BY <1>5, <1>6 DEF write

(* The resend: whatever comes of it, the first write's units are not       *)
(* written again, and without an error nothing is left out.                *)
LEMMA RewritePreserves ==
  ASSUME ClientInv, NEW s \in Sender, rewrite(s)
  PROVE  ClientInv'
<1> DEFINE m == sending[s]
           from == rest[s].from
<1>1. UNCHANGED <<mdf, closed, unreachable, sending>> /\ pc[s] = "rewrite"
  BY DEF rewrite
<1>2. ProgressAt("rewrite", m, rest[s], answer[s], taken[s])
  BY <1>1 DEF ClientInv, Progress
<1>3. /\ mu = s /\ ~closed /\ \A t \in Sender \ {s} : pc[t] \notin Holding
      /\ live # NoConn /\ live \in Conn
  BY <1>1, CallerTypes DEF ClientInv, MutexHeld, Holding, TypeOK
<1>4. /\ m \in Message /\ from \in 0..m.total /\ AtUnitStart(m, from)
      /\ \A i \in Units(m) : taken[s][i] = IF Ends(m)[i] <= from THEN 1 ELSE 0
  BY <1>2 DEF ProgressAt
<1>5. /\ m.total \in Nat /\ from \in Nat /\ m.total - from \in Nat
      /\ from + (m.total - from) = m.total
  BY <1>4, EndsOfMessage
<1>6. NoRest \in [from : Nat, resuming : BOOLEAN]
  BY DEF NoRest
<1> DEFINE Ended(result) ==
      /\ pc' = [pc EXCEPT ![s] = "record"] /\ mu' = NoProc
      /\ rest' = [rest EXCEPT ![s] = NoRest] /\ answer' = [answer EXCEPT ![s] = result]
<1>7. ASSUME NEW n \in Nat, Peer(s, live, from, n),
             NEW result \in {"ok", "failed", "unitDropped"}, Ended(result),
             result = "ok" => n = m.total - from,
             conn' \in [Conn -> ConnState], live' \in Conn \cup {NoConn},
             live' # NoConn => Whole(conn'[live'])
      PROVE  ClientInv'
  <2> DEFINE k == Counted(m, taken[s], from, n)
  <2>1. taken' = [taken EXCEPT ![s] = k] /\ k \in [Units(m) -> Nat] /\ misread' = FALSE
    BY <1>3, <1>4, <1>5, <1>7, PeerReads
  <2>2. \A i \in Units(m) : k[i] <= 1 /\ (n = m.total - from => k[i] = 1)
    BY <1>4, <1>7, ResendCounts
  <2> HIDE DEF k
  <2>3. ProgressAt("record", m, NoRest, result, k)
    BY <1>4, <1>7, <2>2 DEF ProgressAt
  <2>4. Moved(s, "record", m, NoRest, result, k)
    BY <1>1, <1>6, <1>7, <2>1, CallerTypes, CallerKeeps DEF Moved, ClientInv
  <2>5. ClientTypes'
    BY <1>1, <1>7, <2>1 DEF TypeOK, ClientTypes, ClientInv
  <2>6. TypeOK' /\ Progress' /\ pc'[s] = "record" /\ \A t \in Sender \ {s} : pc'[t] = pc[t]
    BY <2>3, <2>4, <2>5, CallerMoves DEF ClientInv
  <2>7. MutexHeld'
    BY <1>1, <1>3, <1>7, <2>6, CallerTypes DEF MutexHeld, Holding, ClientInv
  <2>8. StreamWhole'
    BY <1>7, <2>1 DEF StreamWhole, Whole
  <2>9. QED
    BY <2>6, <2>7, <2>8 DEF ClientInv
<1>8. CASE Peer(s, live, from, m.total - from) /\ conn' = Torn(s, live, from, m.total - from)
           /\ Return(s, "ok") /\ UNCHANGED live
  <2>1. conn' \in [Conn -> ConnState] /\ Whole(conn'[live])
    BY <1>3, <1>5, <1>8, TornConnection
  <2>2. Ended("ok") /\ live' = live
    BY <1>8 DEF Return
  <2> HIDE DEF Ended
  <2>3. QED
    BY <1>3, <1>5, <1>7, <1>8, <2>1, <2>2
<1>9. ASSUME NEW n \in Written(live, m.total - from),
             Peer(s, live, from, n), dropLocked(Torn(s, live, from, n)),
             NEW result \in {"failed", "unitDropped"}, Return(s, result)
      PROVE  ClientInv'
  <2>1. n \in Nat
    BY <1>5 DEF Written
  <2>2. conn' \in [Conn -> ConnState] /\ live' = NoConn
    BY <1>3, <1>5, <1>9, <2>1, TornConnection, DropLocked
  <2>3. Ended(result)
    BY <1>9 DEF Return
  <2> HIDE DEF Ended
  <2>4. result \in {"ok", "failed", "unitDropped"} /\ result # "ok"
    OBVIOUS
  <2>5. QED
    BY <1>7, <1>9, <2>1, <2>2, <2>3, <2>4
<1>10. QED
  <2>1. CASE \E n \in Written(live, m.total - from) :
               /\ Peer(s, live, from, n)
               /\ dropLocked(Torn(s, live, from, n))
               /\ Return(s, IF rest[s].resuming /\ from > 0 THEN "unitDropped" ELSE "failed")
    <3> DEFINE result == IF rest[s].resuming /\ from > 0 THEN "unitDropped" ELSE "failed"
    <3>1. result \in {"failed", "unitDropped"}
      OBVIOUS
    <3>2. QED
      BY <1>9, <2>1, <3>1
  <2>2. QED
    BY <1>8, <2>1 DEF rewrite

-----------------------------------------------------------------------------
(* Close.                                                                  *)
-----------------------------------------------------------------------------
(* A closer that moves leaves the callers where they are. *)
LEMMA CloserMoves ==
  ASSUME ClientInv, NEW k \in Closer, NEW at \in {"idle", "closed"} \cup Conn,
         pc' = [pc EXCEPT ![k] = at],
         UNCHANGED <<mdf, mu, unreachable, sending, rest, answer, taken, misread>>,
         closed' \in BOOLEAN, conn' \in [Conn -> ConnState], live' \in Conn \cup {NoConn}
  PROVE  TypeOK' /\ Progress' /\ \A s \in Sender : pc'[s] = pc[s]
<1> USE DEF ClientInv
<1>1. k \in Proc /\ \A s \in Sender : s \in Proc /\ s # k
  BY ClientAssumption DEF Proc
<1>2. \A s \in Sender : pc'[s] = pc[s]
  BY <1>1 DEF TypeOK
<1>3. DOMAIN pc' = Proc /\ \A c \in Closer : pc'[c] \in {"idle", "closed"} \cup Conn
  BY <1>1 DEF TypeOK, Proc
<1>4. TypeOK'
  <2>1. \A s \in Sender : pc'[s] \in Holding \cup {"idle", "deliver", "record"}
    BY <1>2 DEF TypeOK
  <2>2. misread' \in BOOLEAN /\ mdf' \in MDF /\ unreachable' \in BOOLEAN
    BY DEF TypeOK
  <2>3. QED
    BY <1>3, <2>1, <2>2 DEF TypeOK
<1>5. Progress'
  BY <1>2 DEF Progress
<1>6. QED
  BY <1>2, <1>4, <1>5

(* Close takes the connection away; with mu free nobody is using it. *)
LEMMA ClosePreserves ==
  ASSUME ClientInv, NEW k \in Closer, Close(k)
  PROVE  ClientInv'
<1>1. UNCHANGED <<mdf, mu, unreachable, sending, rest, answer, taken, misread>>
      /\ mu = NoProc /\ closed' = TRUE
  BY DEF Close
<1>2. \E at \in {"idle", "closed"} \cup Conn :
        pc' = [pc EXCEPT ![k] = at] /\ conn' \in [Conn -> ConnState] /\ live' = NoConn
  <2>1. CASE live = NoConn
    BY <2>1 DEF Close, ClientInv, TypeOK
  <2>2. CASE live # NoConn
    <3>1. live \in Conn /\ conn \in [Conn -> ConnState]
      BY <2>2 DEF ClientInv, TypeOK
    <3>2. dropLocked(conn) /\ pc' = [pc EXCEPT ![k] = live]
      BY <2>2 DEF Close
    <3>3. QED
      BY <3>1, <3>2, DropLocked
  <2>3. QED
    BY <2>1, <2>2
<1>3. TypeOK' /\ Progress' /\ \A s \in Sender : pc'[s] = pc[s]
  BY <1>1, <1>2, CloserMoves
<1>4. MutexHeld'
  <2>1. \A s \in Sender : pc[s] \notin Holding
    BY <1>1, CallerTypes DEF ClientInv, MutexHeld
  <2>2. QED
    BY <1>1, <1>2, <1>3, <2>1, CallerTypes DEF MutexHeld, Holding, ClientInv
<1>5. StreamWhole'
  BY <1>1, <1>2 DEF StreamWhole, ClientInv
<1>6. QED
  BY <1>3, <1>4, <1>5 DEF ClientInv

(* The wait for the goroutines of what was held. *)
LEMMA CloseWaitsPreserves ==
  ASSUME ClientInv, NEW k \in Closer, closeWaits(k)
  PROVE  ClientInv'
<1>1. /\ UNCHANGED <<mdf, mu, live, closed, unreachable, conn, sending, rest, answer,
                     taken, misread>>
      /\ pc' = [pc EXCEPT ![k] = "closed"]
  BY DEF closeWaits
<1>2. TypeOK' /\ Progress' /\ \A s \in Sender : pc'[s] = pc[s]
  <2>1. closed' \in BOOLEAN /\ conn' \in [Conn -> ConnState] /\ live' \in Conn \cup {NoConn}
    BY <1>1 DEF ClientInv, TypeOK
  <2>2. QED
    BY <1>1, <2>1, CloserMoves
<1>3. MutexHeld' /\ StreamWhole'
  BY <1>1, <1>2 DEF MutexHeld, StreamWhole, ClientInv
<1>4. QED
  BY <1>2, <1>3 DEF ClientInv

-----------------------------------------------------------------------------
(* The invariant and what follows from it.                                 *)
-----------------------------------------------------------------------------
LEMMA InitClient ==
  ASSUME Init
  PROVE  ClientInv
<1> USE DEF Init
<1>1. TypeOK
  <2>1. conn \in [Conn -> ConnState]
    BY FreshIsWhole
  <2>2. /\ NoRest \in [from : Nat, resuming : BOOLEAN]
        /\ NotTaken(NoMessage) \in [Units(NoMessage) -> Nat]
    BY DEF NoRest, NotTaken
  <2>3. DOMAIN pc = Proc /\ \A p \in Proc : pc[p] = "idle"
    OBVIOUS
  <2>4. /\ \A s \in Sender : pc[s] = "idle"
        /\ \A k \in Closer : pc[k] = "idle"
    BY <2>3 DEF Proc
  <2>5. /\ sending \in [Sender -> Message \cup {NoMessage}]
        /\ rest \in [Sender -> [from : Nat, resuming : BOOLEAN]]
        /\ answer \in [Sender -> {"none", "ok", "failed", "unitDropped"}]
        /\ taken = [s \in Sender |-> taken[s]]
        /\ \A s \in Sender : taken[s] \in [Units(sending[s]) -> Nat]
    BY <2>2
  <2>6. QED
    BY <2>1, <2>3, <2>4, <2>5 DEF TypeOK
<1>2. MutexHeld
  <2>1. \A s \in Sender : pc[s] = "idle" /\ s # NoProc
    BY ClientAssumption DEF Proc
  <2>2. QED
    BY <2>1 DEF MutexHeld, Holding
<1>3. StreamWhole
  BY DEF StreamWhole
<1>4. Progress
  <2>1. SUFFICES ASSUME NEW s \in Sender
                 PROVE  ProgressAt(pc[s], sending[s], rest[s], answer[s], taken[s])
    BY DEF Progress
  <2>2. pc[s] = "idle" /\ answer[s] = "none" /\ sending[s] = NoMessage
        /\ \A i \in Units(NoMessage) : taken[s][i] = 0
    BY DEF Proc, NotTaken
  <2>3. QED
    BY <2>2 DEF ProgressAt
<1>5. QED
  BY <1>1, <1>2, <1>3, <1>4 DEF ClientInv

(* Every step of callers, closers, goroutines and the outside keeps the    *)
(* inductive invariant.                                                    *)
LEMMA StepClient ==
  ASSUME ClientInv, [Next]_vars
  PROVE  ClientInv'
<1>1. ASSUME NEW s \in Sender, SenderStep(s)
      PROVE  ClientInv'
  BY <1>1, DeliverPreserves, DialPreserves, WritePreserves, RedialPreserves,
     RewritePreserves, SendBytesPreserves DEF SenderStep
<1>2. ASSUME NEW s \in Sender, NEW m \in Message, SendBatch(s, m)
      PROVE  ClientInv'
  BY <1>2, SendBatchPreserves
<1>3. ASSUME NEW k \in Closer, Close(k) \/ closeWaits(k)
      PROVE  ClientInv'
  BY <1>3, ClosePreserves, CloseWaitsPreserves
<1>4. ASSUME NEW c \in Conn, LoopStep(c) \/ ReaderStep(c) \/ TimeP2(c)
      PROVE  ClientInv'
  <2>1. TypeOK /\ StreamWhole
    BY DEF ClientInv
  <2>2. QED
    BY <1>4, <2>1, LoopConnection, ReaderConnection, OutsideConnection, ConnectionPreserves
<1>5. CASE Outage
  <2>1. TypeOK /\ StreamWhole
    BY DEF ClientInv
  <2>2. QED
    BY <1>5, <2>1, OutsideConnection, ConnectionPreserves
<1>6. CASE UNCHANGED vars
  BY <1>6 DEF ClientInv, TypeOK, MutexHeld, StreamWhole, Progress, vars
<1>7. QED
  BY <1>1, <1>2, <1>3, <1>4, <1>5, <1>6 DEF Next

(* The invariant holds of every run of the client. *)
THEOREM ClientInvariant == Spec => []ClientInv
<1>1. Init => ClientInv
  BY InitClient
<1>2. ClientInv /\ [Next]_vars => ClientInv'
  BY StepClient
<1>3. QED
  BY <1>1, <1>2, PTL DEF Spec

(* Every variable of the client keeps its type; a closer waits only for a  *)
(* connection there was.                                                   *)
THEOREM ClientTypeCorrect == Spec => []TypeOK
<1>1. ClientInv => TypeOK
  BY DEF ClientInv
<1>2. QED
  BY <1>1, ClientInvariant, PTL

(* Close: from its critical section on no connection is held, whatever     *)
(* redial was under way in deliver or in a goroutine's expire.             *)
THEOREM NothingHeldOnceClosed == Spec => []ClosedHoldsNothing
<1>1. ClientInv => ClosedHoldsNothing
  BY DEF ClientInv, MutexHeld, ClosedHoldsNothing
<1>2. QED
  BY <1>1, ClientInvariant, PTL

(* No peer reads anything but whole units and the Keepalives numbered for  *)
(* its connection: deliver never writes after a partial write, resumeAt    *)
(* never starts inside a unit, writeOn never writes to a later connection. *)
THEOREM StreamsAreWhole == Spec => []PeersReadWholeUnits
<1>1. ClientInv => PeersReadWholeUnits
  BY DEF ClientInv, StreamWhole, PeersReadWholeUnits
<1>2. QED
  BY <1>1, ClientInvariant, PTL

(* deliver's retry writes no unit a second time. *)
THEOREM RetryNeverDuplicates == Spec => []NeverTwice
<1>1. ClientInv => NeverTwice
  <2>1. SUFFICES ASSUME ClientInv, NEW s \in Sender, NEW i \in DOMAIN taken[s]
                 PROVE  taken[s][i] <= 1
    BY DEF NeverTwice
  <2>2. ProgressAt(pc[s], sending[s], rest[s], answer[s], taken[s])
    BY <2>1 DEF ClientInv, Progress
  <2>3. i \in Units(sending[s]) /\ pc[s] \in Holding \cup {"idle", "deliver", "record"}
    BY <2>1, CallerTypes DEF ClientInv
  <2>4. CASE pc[s] \in {"idle", "deliver", "dial", "write"}
    BY <2>2, <2>3, <2>4 DEF ProgressAt
  <2>5. CASE pc[s] \in {"redial", "rewrite"}
    BY <2>2, <2>3, <2>5 DEF ProgressAt
  <2>6. CASE pc[s] = "record"
    BY <2>2, <2>3, <2>6 DEF ProgressAt
  <2>7. QED
    BY <2>3, <2>4, <2>5, <2>6 DEF Holding
<1>2. QED
  BY <1>1, ClientInvariant, PTL

(* A deliver that returns no error has written every unit whole, once, on  *)
(* the first connection or on the second.                                  *)
THEOREM NoErrorMeansDelivered == Spec => []OkIsDelivered
<1>1. ClientInv => OkIsDelivered
  <2>1. SUFFICES ASSUME ClientInv, NEW s \in Sender, answer[s] = "ok",
                        NEW i \in DOMAIN taken[s]
                 PROVE  taken[s][i] = 1
    BY DEF OkIsDelivered
  <2>2. ProgressAt(pc[s], sending[s], rest[s], answer[s], taken[s])
    BY <2>1 DEF ClientInv, Progress
  <2>3. i \in Units(sending[s])
    BY <2>1, CallerTypes DEF ClientInv
  <2>4. QED
    BY <2>1, <2>2, <2>3 DEF ProgressAt
<1>2. QED
  BY <1>1, ClientInvariant, PTL
==============================================================================
