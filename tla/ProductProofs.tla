---------------------------- MODULE ProductProofs ----------------------------
(****************************************************************************)
(* For any number of goroutines, contexts and destinations, and any width   *)
(* of the number: a context's PDUs are numbered without a gap or a          *)
(* duplicate, its counter does not outlive its tasking, and every           *)
(* mediation function can tell its losses from the numbers it has.          *)
(****************************************************************************)
EXTENDS Product, FiniteSetTheorems, SequenceTheorems, TLAPS

-----------------------------------------------------------------------------
(* The inductive invariant.                                                 *)
-----------------------------------------------------------------------------
(* Where a goroutine is in Next, and what it has in hand. *)
InNext == {"next", "create", "add"}

CallState ==
  {Idle}
  \cup [at : {"next", "create"}, pdu : Nat, ctx : Context, begun : Nat]
  \cup [at : {"add"}, pdu : Nat, ctx : Context, begun : Nat, cell : Nat]
  \cup [at : {"framed"}, pdu : Nat, ctx : Context, num : Nat]

Draw == [pdu : Nat, ctx : Context, num : Nat, begun : Nat, ended : Nat]

Types ==
  /\ counters \in [Context -> Nat \cup {NoCell}]
  /\ cells \in Seq(Nat)
  /\ call \in [Worker -> CallState]
  /\ matched \in Nat
  /\ tasked \subseteq Context
  /\ era \in [Context -> Nat]
  /\ drawn \subseteq Draw /\ IsFiniteSet(drawn)

(* A cell counts for one context: no two entries of the map share one, and  *)
(* a pointer found in the map and held across a Forget is not in the map    *)
(* for another context.                                                     *)
CellsOwned ==
  /\ \A k \in Context : counters[k] # NoCell => counters[k] \in DOMAIN cells
  /\ \A k, j \in Context : counters[k] # NoCell /\ counters[k] = counters[j] => k = j
  /\ \A w \in Worker : call[w].at = "add" =>
       /\ call[w].cell \in DOMAIN cells
       /\ \A k \in Context : counters[k] = call[w].cell => k = call[w].ctx

(* A PDU that was matched before the last Forget of its context is in       *)
(* flight across it; one that was not holds the pointer the map has.        *)
ErasFollow ==
  /\ \A w \in Worker : call[w].at \in InNext =>
       /\ call[w].begun <= era[call[w].ctx]
       /\ call[w].ctx \notin tasked => call[w].begun < era[call[w].ctx]
  /\ \A w \in Worker : call[w].at = "add" /\ call[w].begun = era[call[w].ctx] =>
       call[w].cell = counters[call[w].ctx]
  /\ \A d \in drawn : d.begun <= d.ended /\ d.ended <= era[d.ctx]

(* A PDU is numbered once. *)
PDUsDiffer ==
  /\ \A w \in Worker : call[w].at # "idle" => call[w].pdu <= matched
  /\ \A d \in drawn : d.pdu <= matched
  /\ \A v, w \in Worker : call[v].at # "idle" /\ call[w].at # "idle" /\ v # w =>
       call[v].pdu # call[w].pdu
  /\ \A w \in Worker : call[w].at \in InNext => \A d \in drawn : d.pdu # call[w].pdu
  /\ \A c, d \in drawn : c.pdu = d.pdu => c = d

(* The PDUs W have different places below n in a sequence from zero, and    *)
(* their numbers are these places at the width of the field; n is at most   *)
(* the number of PDUs in W and A.                                           *)
Ranked(W, A, n, f) ==
  /\ n \in Nat /\ n <= Cardinality(W) + Cardinality(A)
  /\ f \in [W -> Nat]
  /\ \A d \in W : f[d] < n /\ d.num = f[d] % Modulus
  /\ \A c, d \in W : f[c] = f[d] => c = d

(* ... and of the current era, n is what the counter has come to.           *)
RankedAt(k, e, n, f) ==
  /\ Ranked(Within(k, e), Across(k, e), n, f)
  /\ e = era[k] => IF counters[k] = NoCell THEN n = 0 ELSE cells[counters[k]] = n % Modulus

NumbersRanked == \A k \in Context : \A e \in 0 .. era[k] : \E n, f : RankedAt(k, e, n, f)

SequencerInv ==
  Types /\ CellsOwned /\ ErasFollow /\ PDUsDiffer /\ NumbersRanked /\ CountersFollowTasking

(* A PDU that was numbered is on its way to a mediation function, in one    *)
(* place, or has reached it, or is lost to it.                              *)
Sent == {[pdu |-> d.pdu, ctx |-> d.ctx, num |-> d.num] : d \in drawn}
Framed == {Attributes(w) : w \in {v \in Worker : call[v].at = "framed"}}
Placed(S, F, q, R, L) ==
  LET Q == {q[i] : i \in DOMAIN q} IN
  /\ q \in Seq(S)
  /\ S = F \cup Q \cup R \cup L
  /\ F \cap Q = {} /\ F \cap R = {} /\ F \cap L = {}
  /\ Q \cap R = {} /\ Q \cap L = {} /\ R \cap L = {}
  /\ \A i, j \in DOMAIN q : q[i] = q[j] => i = j

PlacedOnce ==
  /\ queue = [a \in Addr |-> queue[a]]
  /\ received = [a \in Addr |-> received[a]]
  /\ lost = [a \in Addr |-> lost[a]]
  /\ Framed \subseteq Sent
  /\ \A a \in Addr : Placed(Sent, Framed, queue[a], received[a], lost[a])

ProductInv == SequencerInv /\ PlacedOnce

-----------------------------------------------------------------------------
(* Numbers.                                                                 *)
-----------------------------------------------------------------------------
(* What is left over a multiple of the modulus. *)
LEMMA Remainder ==
  ASSUME NEW q \in Nat, NEW r \in 0..Modulus - 1
  PROVE  (Modulus * q + r) % Modulus = r
<1> DEFINE x == Modulus * q + r
           p == x \div Modulus
           s == x % Modulus
<1>1. Modulus \in Nat /\ Modulus > 0
  BY SequencerAssumption
<1>2. x \in Nat
  BY <1>1
<1> HIDE DEF x
<1>3. p \in Nat /\ s \in 0..Modulus - 1 /\ x = Modulus * p + s
  BY <1>1, <1>2
<1> HIDE DEF p, s
<1>4. Modulus * q + r = Modulus * p + s
  BY <1>3 DEF x
<1>5. p = q
  <2>1. CASE p < q
    <3>1. PICK i \in Nat : q = p + 1 + i
      <4>1. q - p - 1 \in Nat /\ q = p + 1 + (q - p - 1)
        BY <1>3, <2>1
      <4>2. QED
        BY <4>1
    <3>2. Modulus * q = Modulus * p + Modulus + Modulus * i
      BY <1>1, <1>3, <3>1
    <3>3. Modulus * i \in Nat /\ Modulus * p \in Nat
      BY <1>1, <1>3
    <3>4. QED
      BY <1>1, <1>3, <1>4, <3>2, <3>3
  <2>2. CASE q < p
    <3>1. PICK i \in Nat : p = q + 1 + i
      <4>1. p - q - 1 \in Nat /\ p = q + 1 + (p - q - 1)
        BY <1>3, <2>2
      <4>2. QED
        BY <4>1
    <3>2. Modulus * p = Modulus * q + Modulus + Modulus * i
      BY <1>1, <1>3, <3>1
    <3>3. Modulus * i \in Nat /\ Modulus * q \in Nat
      BY <1>1
    <3>4. QED
      BY <1>1, <1>3, <1>4, <3>2, <3>3
  <2>3. QED
    BY <1>3, <2>1, <2>2
<1>6. s = r
  <2>1. Modulus * q \in Nat
    BY <1>1
  <2>2. QED
    BY <1>3, <1>4, <1>5, <2>1
<1>7. QED
  BY <1>6 DEF x, s

(* Arithmetic at the width of the field. *)
LEMMA Wrapping ==
  ASSUME NEW n \in Nat
  PROVE  /\ n % Modulus \in 0..Modulus - 1
         /\ ((n % Modulus) + 1) % Modulus = (n + 1) % Modulus
         /\ n < Modulus => n % Modulus = n
<1>1. Modulus \in Nat /\ Modulus > 0
  BY SequencerAssumption
<1>2. n % Modulus \in 0..Modulus - 1
  BY <1>1
<1>3. n < Modulus => n % Modulus = n
  BY <1>1
<1>4. ((n % Modulus) + 1) % Modulus = (n + 1) % Modulus
  <2> DEFINE q == n \div Modulus
             r == n % Modulus
  <2>1. q \in Nat /\ r \in 0..Modulus - 1 /\ n = Modulus * q + r
    BY <1>1
  <2> HIDE DEF q, r
  <2>2. CASE r + 1 < Modulus
    <3>1. n + 1 = Modulus * q + (r + 1)
      BY <1>1, <2>1
    <3>2. r + 1 \in 0..Modulus - 1
      BY <1>1, <2>1, <2>2
    <3>3. (n + 1) % Modulus = r + 1
      BY <2>1, <3>1, <3>2, Remainder
    <3>4. (r + 1) % Modulus = r + 1
      BY <1>1, <3>2
    <3>5. QED
      BY <3>3, <3>4 DEF r
  <2>3. CASE r + 1 = Modulus
    <3>1. n + 1 = Modulus * (q + 1) + 0
      BY <1>1, <2>1, <2>3
    <3>2. 0 \in 0..Modulus - 1 /\ q + 1 \in Nat /\ 1 \in Nat /\ Modulus = Modulus * 1 + 0
      BY <1>1, <2>1
    <3>3. (n + 1) % Modulus = 0
      BY <3>1, <3>2, Remainder
    <3>4. Modulus % Modulus = 0
      BY <1>1
    <3>5. QED
      BY <2>3, <3>3, <3>4 DEF r
  <2>4. QED
    BY <1>1, <2>1, <2>2, <2>3
<1>5. QED
  BY <1>2, <1>3, <1>4

(* A PDU that takes the next number takes the next place. *)
LEMMA RankMore ==
  ASSUME NEW W, NEW A, NEW n, NEW f, Ranked(W, A, n, f), IsFiniteSet(W), IsFiniteSet(A),
         NEW d, d \notin W, d.num = n % Modulus
  PROVE  \E g : Ranked(W \cup {d}, A, n + 1, g)
<1> DEFINE g == [c \in W \cup {d} |-> IF c = d THEN n ELSE f[c]]
<1>1. Cardinality(W \cup {d}) = Cardinality(W) + 1 /\ Cardinality(W) \in Nat
      /\ Cardinality(A) \in Nat
  BY FS_AddElement, FS_CardinalityType
<1>2. n + 1 \in Nat /\ n + 1 <= Cardinality(W \cup {d}) + Cardinality(A)
  BY <1>1 DEF Ranked
<1>3. g \in [W \cup {d} -> Nat]
  BY DEF Ranked
<1>4. \A c \in W \cup {d} : g[c] < n + 1 /\ c.num = g[c] % Modulus
  BY DEF Ranked
<1>5. \A b, c \in W \cup {d} : g[b] = g[c] => b = c
  BY DEF Ranked
<1> HIDE DEF g
<1>6. QED
  BY <1>2, <1>3, <1>4, <1>5 DEF Ranked

(* One that does not, whether or not the counter moved. *)
LEMMA AcrossMore ==
  ASSUME NEW W, NEW A, NEW n, NEW f, Ranked(W, A, n, f), IsFiniteSet(W), IsFiniteSet(A),
         NEW d, d \notin A
  PROVE  Ranked(W, A \cup {d}, n, f) /\ Ranked(W, A \cup {d}, n + 1, f)
<1>1. Cardinality(A \cup {d}) = Cardinality(A) + 1 /\ Cardinality(W) \in Nat
      /\ Cardinality(A) \in Nat
  BY FS_AddElement, FS_CardinalityType
<1>2. QED
  BY <1>1 DEF Ranked

(* What has been drawn for a context in an era, after one number more. *)
LEMMA DrawnMore ==
  ASSUME NEW d, drawn' = drawn \cup {d}, NEW k, NEW e
  PROVE  /\ Within(k, e)' = IF d.ctx = k /\ d.begun = e /\ d.ended = e
                            THEN Within(k, e) \cup {d} ELSE Within(k, e)
         /\ Across(k, e)' = IF d.ctx = k /\ d.begun < e /\ d.ended = e
                            THEN Across(k, e) \cup {d} ELSE Across(k, e)
BY DEF Within, Across

LEMMA DrawnFinite ==
  ASSUME Types, NEW k, NEW e
  PROVE  IsFiniteSet(Within(k, e)) /\ IsFiniteSet(Across(k, e))
<1>1. Within(k, e) \subseteq drawn /\ Across(k, e) \subseteq drawn
  BY DEF Within, Across
<1>2. QED
  BY <1>1, FS_Subset DEF Types

LEMMA SameNumbers ==
  ASSUME NumbersRanked, UNCHANGED <<counters, cells, era, drawn>>
  PROVE  NumbersRanked'
<1>1. \A k, e : Within(k, e)' = Within(k, e) /\ Across(k, e)' = Across(k, e)
  BY DEF Within, Across
<1>2. \A k, e, n, f : RankedAt(k, e, n, f) => RankedAt(k, e, n, f)'
  BY <1>1 DEF RankedAt
<1>3. QED
  BY <1>2 DEF NumbersRanked

-----------------------------------------------------------------------------
(* Goroutines.                                                              *)
-----------------------------------------------------------------------------
LEMMA CallFields ==
  ASSUME NEW r \in CallState
  PROVE  /\ r.at \in InNext \cup {"idle", "framed"}
         /\ r.at = "idle" => r = Idle
         /\ r.at # "idle" => r.pdu \in Nat /\ r.ctx \in Context
         /\ r.at \in InNext => r.begun \in Nat
         /\ r.at = "add" => r.cell \in Nat
         /\ r.at = "framed" => r.num \in Nat
BY DEF CallState, InNext, Idle

(* What is required of where a goroutine is. *)
CallOK(r) ==
  /\ r.at = "add" => /\ r.cell \in DOMAIN cells
                     /\ \A k \in Context : counters[k] = r.cell => k = r.ctx
                     /\ r.begun = era[r.ctx] => r.cell = counters[r.ctx]
  /\ r.at \in InNext => /\ r.begun <= era[r.ctx]
                        /\ r.ctx \notin tasked => r.begun < era[r.ctx]
                        /\ \A d \in drawn : d.pdu # r.pdu
  /\ r.at # "idle" => r.pdu <= matched

LEMMA CallIsOK ==
  ASSUME SequencerInv, NEW w \in Worker
  PROVE  call[w] \in CallState /\ CallOK(call[w])
BY DEF SequencerInv, Types, CellsOwned, ErasFollow, PDUsDiffer, CallOK

(* A goroutine that moves, or drops its PDU, where the map, the counters   *)
(* and the history stay.                                                   *)
LEMMA CallMoves ==
  ASSUME SequencerInv, NEW w \in Worker, NEW r \in CallState,
         call' = [call EXCEPT ![w] = r],
         UNCHANGED <<counters, cells, tasked, era, drawn>>,
         matched' \in Nat, matched <= matched', CallOK(r)',
         r.at # "idle" => \A v \in Worker \ {w} : call[v].at # "idle" => call[v].pdu # r.pdu
  PROVE  SequencerInv'
<1> USE DEF SequencerInv
<1>1. Types'
  BY DEF Types
<1>2. call'[w] = r /\ \A v \in Worker \ {w} : call'[v] = call[v]
  BY DEF Types
<1>3. \A v \in Worker : CallOK(call[v])
  BY CallIsOK
<1>4. \A v \in Worker : CallOK(call[v])'
  <2>1. TAKE v \in Worker
  <2>2. CASE v = w
    BY <1>2, <2>2 DEF CallOK
  <2>3. CASE v # w
    <3>1. CallOK(call[v]) /\ call'[v] = call[v]
      BY <1>2, <1>3, <2>3
    <3>2. call[v] \in CallState
      BY DEF Types
    <3>3. call[v].at # "idle" => call[v].pdu <= matched'
      BY <3>1, <3>2, CallFields DEF CallOK, Types
    <3>4. QED
      BY <3>1, <3>3 DEF CallOK
  <2>4. QED
    BY <2>2, <2>3
<1>5. CellsOwned'
  BY <1>4 DEF CellsOwned, CallOK
<1>6. ErasFollow'
  BY <1>4 DEF ErasFollow, CallOK, InNext
<1>7. PDUsDiffer'
  <2>1. \A d \in drawn' : d.pdu <= matched'
    BY DEF PDUsDiffer, Types, Draw
  <2>2. \A u, v \in Worker : call'[u].at # "idle" /\ call'[v].at # "idle" /\ u # v =>
          call'[u].pdu # call'[v].pdu
    BY <1>2 DEF PDUsDiffer
  <2>3. QED
    BY <1>4, <2>1, <2>2 DEF PDUsDiffer, CallOK
<1>8. NumbersRanked' /\ CountersFollowTasking'
  BY SameNumbers DEF CountersFollowTasking
<1>9. QED
  BY <1>1, <1>5, <1>6, <1>7, <1>8

(* A PDU is matched to a context that is tasked. *)
LEMMA MatchPreserves ==
  ASSUME SequencerInv, NEW w \in Worker, NEW k \in Context, Match(w, k)
  PROVE  SequencerInv'
<1>0. PICK r : r = [at |-> "next", pdu |-> matched', ctx |-> k, begun |-> era[k]]
  OBVIOUS
<1>1. /\ call' = [call EXCEPT ![w] = r] /\ matched' = matched + 1 /\ k \in tasked
      /\ UNCHANGED <<counters, cells, tasked, era, drawn>>
  BY <1>0 DEF Match
<1>2. matched \in Nat /\ matched' \in Nat /\ matched < matched' /\ era[k] \in Nat
  BY <1>1 DEF SequencerInv, Types
<1>3. r \in CallState
  BY <1>0, <1>2 DEF CallState
<1>4. \A d \in drawn : d.pdu \in Nat /\ d.pdu <= matched
  BY DEF SequencerInv, Types, PDUsDiffer, Draw
<1>5. CallOK(r)'
  <2>1. /\ r.at = "next" /\ r.pdu = matched' /\ r.ctx = k /\ r.begun = era[k]
    BY <1>0
  <2>2. \A d \in drawn : d.pdu # matched'
    BY <1>1, <1>2, <1>4
  <2>3. QED
    BY <1>1, <1>2, <2>1, <2>2 DEF CallOK
<1>6. \A v \in Worker \ {w} : call[v].at # "idle" => call[v].pdu # r.pdu
  <2>1. \A v \in Worker : call[v].at # "idle" => call[v].pdu \in Nat /\ call[v].pdu <= matched
    BY CallIsOK, CallFields DEF CallOK
  <2>2. r.pdu = matched'
    BY <1>0
  <2>3. QED
    BY <1>2, <2>1, <2>2
<1>7. matched <= matched' /\ UNCHANGED <<counters, cells, tasked, era, drawn>>
  BY <1>1, <1>2
<1>8. QED
  BY <1>1, <1>2, <1>3, <1>5, <1>6, <1>7, CallMoves

(* The look under the read lock: the pointer in the map, or none. *)
LEMMA LookupPreserves ==
  ASSUME SequencerInv, NEW w \in Worker, Lookup(w)
  PROVE  SequencerInv'
<1> DEFINE q == call[w]
           k == q.ctx
<1>0. PICK r : r = IF counters[k] = NoCell THEN [q EXCEPT !.at = "create"]
                   ELSE [at |-> "add", pdu |-> q.pdu, ctx |-> k, begun |-> q.begun,
                         cell |-> counters[k]]
  OBVIOUS
<1>1. /\ q.at = "next" /\ call' = [call EXCEPT ![w] = r]
      /\ UNCHANGED <<counters, cells, matched, tasked, era, drawn>>
  BY <1>0 DEF Lookup
<1>2. q \in CallState /\ CallOK(q)
  BY CallIsOK
<1>3. /\ q \in [at : {"next", "create"}, pdu : Nat, ctx : Context, begun : Nat]
      /\ counters[k] \in Nat \cup {NoCell}
  BY <1>1, <1>2 DEF CallState, Idle, SequencerInv, Types
<1>4. /\ r \in CallState /\ r.at \in {"create", "add"}
      /\ r.pdu = q.pdu /\ r.ctx = k /\ r.begun = q.begun
      /\ r.at = "add" => counters[k] # NoCell /\ r.cell = counters[k]
  <2>1. CASE counters[k] = NoCell
    <3>1. r = [q EXCEPT !.at = "create"]
      BY <1>0, <2>1
    <3>2. QED
      BY <1>3, <3>1 DEF CallState
  <2>2. CASE counters[k] # NoCell
    <3>1. r = [at |-> "add", pdu |-> q.pdu, ctx |-> k, begun |-> q.begun, cell |-> counters[k]]
      BY <1>0, <2>2
    <3>2. QED
      BY <1>3, <2>2, <3>1 DEF CallState
  <2>3. QED
    BY <2>1, <2>2
<1>5. CallOK(r)'
  <2>1. r.at = "add" => /\ r.cell \in DOMAIN cells
                        /\ \A j \in Context : counters[j] = r.cell => j = r.ctx
    BY <1>3, <1>4 DEF SequencerInv, CellsOwned
  <2>2. QED
    BY <1>1, <1>2, <1>4, <2>1 DEF CallOK, InNext
<1>6. \A v \in Worker \ {w} : call[v].at # "idle" => call[v].pdu # r.pdu
  BY <1>1, <1>4 DEF SequencerInv, PDUsDiffer
<1>7. matched' \in Nat /\ matched <= matched'
  BY <1>1 DEF SequencerInv, Types
<1>8. QED
  BY <1>1, <1>4, <1>5, <1>6, <1>7, CallMoves

-----------------------------------------------------------------------------
(* A number is drawn.                                                       *)
-----------------------------------------------------------------------------
(* Goroutine w has its PDU d numbered, and is at r. *)
DrawStep(w, r, d) ==
  /\ r \in CallState /\ r.at = "framed" /\ r.pdu = call[w].pdu
  /\ call' = [call EXCEPT ![w] = r]
  /\ d \in Draw /\ d \notin drawn /\ drawn' = drawn \cup {d}
  /\ d.pdu = call[w].pdu /\ d.ctx = call[w].ctx /\ d.begun = call[w].begun
  /\ d.ended = era[d.ctx] /\ r.ctx = d.ctx /\ r.num = d.num
  /\ UNCHANGED <<matched, tasked, era>>

LEMMA Returns ==
  ASSUME SequencerInv, NEW w \in Worker, call[w].at \in InNext, NEW n \in Nat,
         Return(w, n), UNCHANGED <<tasked, era>>
  PROVE  \E r, d : DrawStep(w, r, d) /\ d.num = n
<1> DEFINE q == call[w]
<1>1. q \in CallState /\ q.pdu \in Nat /\ q.ctx \in Context /\ q.begun \in Nat
      /\ era[q.ctx] \in Nat
  <2>1. q \in CallState
    BY CallIsOK
  <2>2. q.pdu \in Nat /\ q.ctx \in Context /\ q.begun \in Nat
    BY <2>1, CallFields DEF InNext
  <2>3. QED
    BY <2>1, <2>2 DEF SequencerInv, Types
<1>2. PICK r : r = [at |-> "framed", pdu |-> q.pdu, ctx |-> q.ctx, num |-> n]
  OBVIOUS
<1>3. PICK d : d = [pdu |-> q.pdu, ctx |-> q.ctx, num |-> n, begun |-> q.begun,
                    ended |-> era[q.ctx]]
  OBVIOUS
<1>4. r \in CallState /\ r.at = "framed" /\ r.pdu = q.pdu /\ r.ctx = q.ctx /\ r.num = n
  BY <1>1, <1>2 DEF CallState
<1>5. /\ d \in Draw /\ d.pdu = q.pdu /\ d.ctx = q.ctx /\ d.begun = q.begun
      /\ d.ended = era[d.ctx] /\ d.num = n
  BY <1>1, <1>3 DEF Draw
<1>6. d \notin drawn
  BY <1>5 DEF SequencerInv, PDUsDiffer
<1>7. /\ call' = [call EXCEPT ![w] = r] /\ drawn' = drawn \cup {d}
      /\ UNCHANGED <<matched, tasked, era>>
  BY <1>2, <1>3 DEF Return
<1>8. DrawStep(w, r, d)
  BY <1>4, <1>5, <1>6, <1>7 DEF DrawStep
<1>9. QED
  BY <1>5, <1>8

(* What a drawing may do to the map and the cells: enter a new cell for    *)
(* its context where there was none.                                       *)
MapGrows(k) ==
  /\ cells' \in Seq(Nat) /\ DOMAIN cells \subseteq DOMAIN cells'
  /\ counters' \in [Context -> Nat \cup {NoCell}]
  /\ \A j \in Context : j # k => counters'[j] = counters[j]
  /\ counters'[k] # counters[k] =>
       /\ counters[k] = NoCell
       /\ counters'[k] \in DOMAIN cells' /\ counters'[k] \notin DOMAIN cells

LEMMA DrawKeeps ==
  ASSUME SequencerInv, NEW w \in Worker, call[w].at \in InNext, NEW r, NEW d,
         DrawStep(w, r, d), MapGrows(d.ctx)
  PROVE  Types' /\ CellsOwned' /\ ErasFollow' /\ PDUsDiffer' /\ CountersFollowTasking'
<1> DEFINE k0 == d.ctx
<1>1. call[w] \in CallState /\ CallOK(call[w])
  BY CallIsOK
<1>2. /\ k0 \in Context /\ d.begun \in Nat /\ d.ended \in Nat /\ d.pdu \in Nat
      /\ d.begun <= d.ended /\ d.ended = era[k0]
      /\ k0 \notin tasked => d.begun < d.ended
  BY <1>1 DEF DrawStep, Draw, CallOK
<1>3. call'[w] = r /\ r.at = "framed" /\ \A v \in Worker \ {w} : call'[v] = call[v]
  BY DEF DrawStep, SequencerInv, Types
<1>4. Types'
  <2>1. drawn' \subseteq Draw
    BY DEF DrawStep, SequencerInv, Types
  <2>2. IsFiniteSet(drawn')
    BY FS_AddElement DEF DrawStep, SequencerInv, Types
  <2>3. call' \in [Worker -> CallState]
    BY DEF DrawStep, SequencerInv, Types
  <2>4. QED
    BY <2>1, <2>2, <2>3 DEF DrawStep, MapGrows, SequencerInv, Types
<1>5. CellsOwned'
  <2>1. \A k \in Context : counters'[k] # NoCell => counters'[k] \in DOMAIN cells'
    <3>1. TAKE k \in Context
    <3>2. CASE counters'[k] = counters[k]
      BY <3>2 DEF MapGrows, SequencerInv, CellsOwned
    <3>3. CASE counters'[k] # counters[k]
      BY <3>3 DEF MapGrows
    <3>4. QED
      BY <3>2, <3>3
  <2>2. \A k, j \in Context : counters'[k] # NoCell /\ counters'[k] = counters'[j] => k = j
    <3>1. \A k, j \in Context : counters'[k] # NoCell /\ k # k0 /\ j = k0 => counters'[k] # counters'[j]
      <4>1. SUFFICES ASSUME NEW k \in Context, counters'[k] # NoCell, k # k0
                     PROVE  counters'[k] # counters'[k0]
        OBVIOUS
      <4>2. counters'[k] = counters[k] /\ counters[k] \in DOMAIN cells
        BY <4>1 DEF MapGrows, SequencerInv, CellsOwned
      <4>3. CASE counters'[k0] = counters[k0]
        BY <1>2, <4>1, <4>2, <4>3 DEF SequencerInv, CellsOwned
      <4>4. CASE counters'[k0] # counters[k0]
        BY <4>2, <4>4 DEF MapGrows
      <4>5. QED
        BY <4>3, <4>4
    <3>2. \A k, j \in Context : counters'[k] # NoCell /\ k # k0 /\ j # k0 /\ counters'[k] = counters'[j] => k = j
      BY DEF MapGrows, SequencerInv, CellsOwned
    <3>3. QED
      BY <3>1, <3>2
  <2>3. ASSUME NEW v \in Worker, call'[v].at = "add"
        PROVE  /\ call'[v].cell \in DOMAIN cells'
               /\ \A k \in Context : counters'[k] = call'[v].cell => k = call'[v].ctx
    <3>1. v # w /\ call'[v] = call[v]
      BY <1>3, <2>3
    <3>2. /\ call[v].cell \in DOMAIN cells
          /\ \A k \in Context : counters[k] = call[v].cell => k = call[v].ctx
      BY <2>3, <3>1 DEF SequencerInv, CellsOwned
    <3>3. QED
      BY <3>1, <3>2 DEF MapGrows
  <2>4. QED
    BY <2>1, <2>2, <2>3 DEF CellsOwned
<1>6. ErasFollow'
  <2>1. ASSUME NEW v \in Worker, call'[v].at \in InNext
        PROVE  /\ call'[v].begun <= era[call'[v].ctx]
               /\ call'[v].ctx \notin tasked => call'[v].begun < era[call'[v].ctx]
    <3>1. call'[v] = call[v]
      BY <1>3, <2>1 DEF InNext
    <3>2. QED
      BY <2>1, <3>1 DEF SequencerInv, ErasFollow
  <2>2. ASSUME NEW v \in Worker, call'[v].at = "add", call'[v].begun = era[call'[v].ctx]
        PROVE  call'[v].cell = counters'[call'[v].ctx]
    <3>1. call'[v] = call[v]
      BY <1>3, <2>2
    <3>2. call[v] \in CallState /\ call[v].cell \in Nat /\ call[v].ctx \in Context
      BY <2>2, <3>1, CallIsOK, CallFields
    <3>3. call[v].cell = counters[call[v].ctx]
      BY <2>2, <3>1 DEF SequencerInv, ErasFollow
    <3>4. counters'[call[v].ctx] = counters[call[v].ctx]
      BY <3>2, <3>3, SequencerAssumption DEF MapGrows
    <3>5. QED
      BY <3>1, <3>3, <3>4
  <2>3. \A c \in drawn' : c.begun <= c.ended /\ c.ended <= era[c.ctx]
    BY <1>2 DEF DrawStep, SequencerInv, ErasFollow
  <2>4. era' = era /\ tasked' = tasked
    BY DEF DrawStep
  <2>5. QED
    BY <2>1, <2>2, <2>3, <2>4 DEF ErasFollow
<1>7. PDUsDiffer'
  <2>1. call[w].at # "idle" /\ r.pdu = call[w].pdu /\ d.pdu = call[w].pdu /\ matched' = matched
        /\ drawn' = drawn \cup {d} /\ call[w].pdu <= matched
    BY <1>1 DEF DrawStep, InNext, CallOK
  <2>2. \A u, v \in Worker : call'[u].at # "idle" /\ call'[v].at # "idle" /\ u # v =>
          call'[u].pdu # call'[v].pdu
    BY <1>3, <2>1 DEF SequencerInv, PDUsDiffer
  <2>3. \A v \in Worker : call'[v].at # "idle" => call'[v].pdu <= matched'
    BY <1>3, <2>1 DEF SequencerInv, PDUsDiffer
  <2>4. \A v \in Worker : call'[v].at \in InNext => \A c \in drawn' : c.pdu # call'[v].pdu
    <3>1. SUFFICES ASSUME NEW v \in Worker, call'[v].at \in InNext, NEW c \in drawn'
                   PROVE  c.pdu # call'[v].pdu
      OBVIOUS
    <3>2. v # w /\ call'[v] = call[v] /\ call[v].at # "idle"
      BY <1>3, <3>1 DEF InNext
    <3>3. QED
      BY <2>1, <3>1, <3>2 DEF SequencerInv, PDUsDiffer
  <2>5. \A b, c \in drawn' : b.pdu = c.pdu => b = c
    BY <2>1 DEF SequencerInv, PDUsDiffer
  <2>6. \A c \in drawn' : c.pdu <= matched'
    BY <2>1 DEF SequencerInv, PDUsDiffer
  <2>7. QED
    BY <2>2, <2>3, <2>4, <2>5, <2>6 DEF PDUsDiffer
<1>8. CountersFollowTasking'
  <2>1. SUFFICES ASSUME NEW k \in Context, counters'[k] # NoCell, k \notin tasked'
                 PROVE  \E c \in drawn' : c.ctx = k /\ c.ended = era'[k] /\ c.begun < c.ended
    BY DEF CountersFollowTasking
  <2>2. drawn' = drawn \cup {d} /\ tasked' = tasked /\ era' = era
    BY DEF DrawStep
  <2>3. CASE k = k0
    BY <1>2, <2>1, <2>2, <2>3
  <2>4. CASE k # k0
    BY <2>1, <2>2, <2>4 DEF MapGrows, SequencerInv, CountersFollowTasking
  <2>5. QED
    BY <2>3, <2>4
<1>9. QED
  BY <1>4, <1>5, <1>6, <1>7, <1>8

(* The counter of the PDU's context handed out the number and moved on. *)
Counted(d) ==
  /\ counters'[d.ctx] # NoCell
  /\ \A n \in Nat :
       (IF counters[d.ctx] = NoCell THEN n = 0 ELSE cells[counters[d.ctx]] = n % Modulus) =>
         d.num = n % Modulus /\ cells'[counters'[d.ctx]] = (n + 1) % Modulus

(* Or a cell that is not in the map any more did, for a PDU in flight      *)
(* across a Forget.                                                        *)
Strayed(d) ==
  /\ d.begun # d.ended
  /\ counters'[d.ctx] = counters[d.ctx]
  /\ counters[d.ctx] # NoCell => cells'[counters[d.ctx]] = cells[counters[d.ctx]]

LEMMA DrawRanks ==
  ASSUME SequencerInv, NEW w \in Worker, call[w].at \in InNext, NEW r, NEW d,
         DrawStep(w, r, d), Counted(d) \/ Strayed(d),
         \A j \in Context \ {d.ctx} :
           /\ counters'[j] = counters[j]
           /\ counters[j] # NoCell => cells'[counters[j]] = cells[counters[j]]
  PROVE  NumbersRanked'
<1> DEFINE k0 == d.ctx
           e0 == d.ended
<1>1. call[w] \in CallState /\ CallOK(call[w])
  BY CallIsOK
<1>2. /\ k0 \in Context /\ d.begun \in Nat /\ e0 \in Nat /\ d.begun <= e0 /\ e0 = era[k0]
      /\ drawn' = drawn \cup {d} /\ d \notin drawn /\ era' = era
  BY <1>1 DEF DrawStep, Draw, CallOK
<1>3. SUFFICES ASSUME NEW k \in Context, NEW e \in 0..era[k]
               PROVE  \E n, f : RankedAt(k, e, n, f)'
  BY <1>2 DEF NumbersRanked
<1>4. PICK n, f : RankedAt(k, e, n, f)
  BY DEF SequencerInv, NumbersRanked
<1> DEFINE W == Within(k, e)
           A == Across(k, e)
<1>5. Ranked(W, A, n, f) /\ n \in Nat /\ IsFiniteSet(W) /\ IsFiniteSet(A)
      /\ d \notin W /\ d \notin A
  <2>1. Ranked(W, A, n, f)
    BY <1>4 DEF RankedAt
  <2>2. n \in Nat
    BY <2>1 DEF Ranked
  <2>3. IsFiniteSet(W) /\ IsFiniteSet(A)
    BY DrawnFinite DEF SequencerInv
  <2>4. d \notin W /\ d \notin A
    BY <1>2 DEF Within, Across
  <2>5. QED
    BY <2>1, <2>2, <2>3, <2>4
<1>6. CASE k # k0
  <2>1. Within(k, e)' = W /\ Across(k, e)' = A
    BY <1>2, <1>6, DrawnMore
  <2>2. RankedAt(k, e, n, f)'
    BY <1>2, <1>4, <1>6, <2>1 DEF RankedAt
  <2>3. QED
    BY <2>2
<1>7. CASE k = k0 /\ e # e0
  <2>1. Within(k, e)' = W /\ Across(k, e)' = A
    BY <1>2, <1>7, DrawnMore
  <2>2. RankedAt(k, e, n, f)'
    BY <1>2, <1>5, <1>7, <2>1 DEF RankedAt
  <2>3. QED
    BY <2>2
<1>8. CASE k = k0 /\ e = e0 /\ d.begun = e0
  <2>1. Within(k, e)' = W \cup {d} /\ Across(k, e)' = A
    BY <1>2, <1>8, DrawnMore
  <2>2. Counted(d)
    BY <1>8 DEF Strayed
  <2>3. d.num = n % Modulus /\ counters'[k] # NoCell
        /\ cells'[counters'[k]] = (n + 1) % Modulus
    BY <1>2, <1>4, <1>5, <1>8, <2>2 DEF RankedAt, Counted
  <2>4. PICK g : Ranked(W \cup {d}, A, n + 1, g)
    <3> HIDE DEF W, A
    <3>1. QED
      BY <1>5, <2>3, RankMore
  <2>5. RankedAt(k, e, n + 1, g)'
    BY <2>1, <2>3, <2>4 DEF RankedAt
  <2>6. QED
    BY <2>5
<1>9. CASE k = k0 /\ e = e0 /\ d.begun # e0
  <2>1. Within(k, e)' = W /\ Across(k, e)' = A \cup {d}
    <3>1. d.begun < e
      BY <1>2, <1>9
    <3>2. QED
      BY <1>2, <1>9, <3>1, DrawnMore
  <2>2. Ranked(W, A \cup {d}, n, f) /\ Ranked(W, A \cup {d}, n + 1, f)
    <3> HIDE DEF W, A
    <3>1. QED
      BY <1>5, AcrossMore
  <2>3. CASE Counted(d)
    <3>1. counters'[k] # NoCell /\ cells'[counters'[k]] = (n + 1) % Modulus
      BY <1>2, <1>4, <1>5, <1>9, <2>3 DEF RankedAt, Counted
    <3>2. RankedAt(k, e, n + 1, f)'
      BY <2>1, <2>2, <3>1 DEF RankedAt
    <3>3. QED
      BY <3>2
  <2>4. CASE Strayed(d)
    <3>1. RankedAt(k, e, n, f)'
      BY <1>2, <1>4, <1>9, <2>1, <2>2, <2>4 DEF RankedAt, Strayed
    <3>2. QED
      BY <3>1
  <2>5. QED
    BY <2>3, <2>4
<1>10. QED
  BY <1>6, <1>7, <1>8, <1>9

(* c.Add(1), on the counter in the map or on one that has left it. *)
LEMMA AddPreserves ==
  ASSUME SequencerInv, NEW w \in Worker, call[w].at \in InNext,
         NEW c \in DOMAIN cells, Add(w, c), UNCHANGED <<tasked, era>>,
         \A k \in Context : counters[k] = c => k = call[w].ctx,
         call[w].begun = era[call[w].ctx] => c = counters[call[w].ctx]
  PROVE  SequencerInv'
<1>1. cells \in Seq(Nat) /\ cells[c] \in Nat /\ c \in Nat
  BY ElementOfSeq, LenProperties DEF SequencerInv, Types
<1>2. cells' = [cells EXCEPT ![c] = (cells[c] + 1) % Modulus] /\ counters' = counters
      /\ Return(w, cells[c])
  BY DEF Add
<1>3. PICK r, d : DrawStep(w, r, d) /\ d.num = cells[c]
  BY <1>1, <1>2, Returns
<1>4. cells[c] + 1 \in Nat /\ (cells[c] + 1) % Modulus \in Nat
  BY <1>1, SequencerAssumption
<1>5. cells' \in Seq(Nat) /\ DOMAIN cells' = DOMAIN cells
  BY <1>1, <1>2, <1>4, ExceptSeq
<1>6. d.ctx = call[w].ctx /\ d.begun = call[w].begun /\ d.ended = era[d.ctx]
      /\ d.ctx \in Context
  BY <1>3 DEF DrawStep, Draw
<1>7. MapGrows(d.ctx)
  BY <1>2, <1>5 DEF MapGrows, SequencerInv, Types
<1>8. \A j \in Context \ {d.ctx} :
        /\ counters'[j] = counters[j]
        /\ counters[j] # NoCell => cells'[counters[j]] = cells[counters[j]]
  BY <1>2, <1>6 DEF SequencerInv, CellsOwned
<1>9. Counted(d) \/ Strayed(d)
  <2>1. CASE counters[d.ctx] = c
    <3>1. c # NoCell /\ cells'[c] = (cells[c] + 1) % Modulus
      BY <1>1, <1>2, SequencerAssumption
    <3>2. ASSUME NEW n \in Nat, cells[c] = n % Modulus
          PROVE  d.num = n % Modulus /\ cells'[c] = (n + 1) % Modulus
      BY <1>3, <3>1, <3>2, Wrapping
    <3>3. QED
      BY <1>2, <2>1, <3>1, <3>2 DEF Counted
  <2>2. CASE counters[d.ctx] # c
    BY <1>2, <1>6, <2>2 DEF Strayed, SequencerInv, CellsOwned
  <2>3. QED
    BY <2>1, <2>2
<1>10. NumbersRanked'
  BY <1>3, <1>8, <1>9, DrawRanks
<1>11. QED
  BY <1>3, <1>7, <1>10, DrawKeeps DEF SequencerInv

(* A counter enters the map. *)
LEMMA CreatePreserves ==
  ASSUME SequencerInv, NEW w \in Worker, call[w].at \in InNext, Create(w, 1),
         UNCHANGED <<tasked, era>>, counters[call[w].ctx] = NoCell
  PROVE  SequencerInv'
<1> DEFINE c == Len(cells) + 1
           k0 == call[w].ctx
<1>1. cells \in Seq(Nat) /\ Len(cells) \in Nat /\ DOMAIN cells = 1..Len(cells)
      /\ counters \in [Context -> Nat \cup {NoCell}]
  BY LenProperties DEF SequencerInv, Types
<1>2. 1 % Modulus \in Nat
  BY SequencerAssumption
<1>3. cells' = Append(cells, 1 % Modulus) /\ counters' = [counters EXCEPT ![k0] = c] /\ Return(w, 0)
  BY DEF Create
<1>4. PICK r, d : DrawStep(w, r, d) /\ d.num = 0
  BY <1>3, Returns
<1>5. d.ctx = k0 /\ k0 \in Context
  BY <1>4 DEF DrawStep, Draw
<1>6. /\ cells' \in Seq(Nat) /\ DOMAIN cells' = 1..c /\ cells'[c] = 1 % Modulus
      /\ \A i \in DOMAIN cells : cells'[i] = cells[i]
  BY <1>1, <1>2, <1>3, AppendProperties
<1>7. counters'[k0] = c /\ c \in Nat /\ c # NoCell /\ c \notin DOMAIN cells
      /\ \A j \in Context : j # k0 => counters'[j] = counters[j]
  BY <1>1, <1>3, <1>5, SequencerAssumption
<1>8. MapGrows(d.ctx)
  <2>1. counters' \in [Context -> Nat \cup {NoCell}]
    BY <1>1, <1>3, <1>7
  <2>2. DOMAIN cells \subseteq DOMAIN cells' /\ c \in DOMAIN cells'
    BY <1>1, <1>6
  <2>3. QED
    BY <1>5, <1>6, <1>7, <2>1, <2>2 DEF MapGrows
<1>9. \A j \in Context \ {d.ctx} :
        /\ counters'[j] = counters[j]
        /\ counters[j] # NoCell => cells'[counters[j]] = cells[counters[j]]
  BY <1>5, <1>6, <1>7 DEF SequencerInv, CellsOwned
<1> HIDE DEF c
<1>10. Counted(d)
  <2>1. 0 % Modulus = 0 /\ 0 + 1 = 1
    BY SequencerAssumption, Wrapping
  <2>2. QED
    BY <1>4, <1>5, <1>6, <1>7, <2>1 DEF Counted
<1>11. NumbersRanked'
  BY <1>4, <1>9, <1>10, DrawRanks
<1>12. QED
  BY <1>4, <1>8, <1>11, DrawKeeps DEF SequencerInv

(* Next, either way of drawing. *)
LEMMA NextPreserves ==
  ASSUME SequencerInv, NEW w \in Worker, addFound(w) \/ create(w)
  PROVE  SequencerInv'
<1>1. CASE addFound(w)
  <2>1. /\ call[w].at = "add" /\ call[w].at \in InNext
        /\ Add(w, call[w].cell) /\ UNCHANGED <<tasked, era>>
    BY <1>1 DEF addFound, InNext
  <2>2. /\ call[w].cell \in DOMAIN cells
        /\ \A k \in Context : counters[k] = call[w].cell => k = call[w].ctx
        /\ call[w].begun = era[call[w].ctx] => call[w].cell = counters[call[w].ctx]
    BY <2>1 DEF SequencerInv, CellsOwned, ErasFollow
  <2>3. QED
    BY <2>1, <2>2, AddPreserves
<1>2. CASE create(w)
  <2> DEFINE c == counters[call[w].ctx]
  <2>1. /\ call[w].at = "create" /\ call[w].at \in InNext /\ UNCHANGED <<tasked, era>>
        /\ IF c = NoCell THEN Create(w, 1) ELSE Add(w, c)
    BY <1>2 DEF create, lookAgain, InNext
  <2>2. call[w].ctx \in Context
    BY <2>1, CallIsOK, CallFields
  <2>3. c # NoCell => c \in DOMAIN cells /\ \A k \in Context : counters[k] = c => k = call[w].ctx
    BY <2>2 DEF SequencerInv, CellsOwned
  <2>4. QED
    BY <2>1, <2>3, AddPreserves, CreatePreserves
<1>3. QED
  BY <1>1, <1>2

-----------------------------------------------------------------------------
(* Tasking ends and begins.                                                 *)
-----------------------------------------------------------------------------
(* Forget and ForgetContext: what leaves the map is what the tasking that  *)
(* ended covers, and the numbering of each starts from zero.               *)
LEMMA DropPreserves ==
  ASSUME SequencerInv, NEW ks \in SUBSET Context, Drop(ks, ks)
  PROVE  SequencerInv'
<1> USE DEF SequencerInv
<1>1. /\ counters' = [k \in Context |-> IF k \in ks THEN NoCell ELSE counters[k]]
      /\ tasked' = tasked \ ks
      /\ era' = [k \in Context |-> IF k \in ks THEN era[k] + 1 ELSE era[k]]
      /\ UNCHANGED <<cells, call, matched, drawn>>
  BY DEF Drop
<1>2. \A k \in Context : era[k] \in Nat /\ era'[k] \in Nat /\ era[k] <= era'[k]
                         /\ (k \in ks => era'[k] = era[k] + 1) /\ (k \notin ks => era'[k] = era[k])
  BY <1>1 DEF Types
<1>3. \A k \in Context : (k \in ks => counters'[k] = NoCell)
                         /\ (k \notin ks => counters'[k] = counters[k])
  BY <1>1
<1>4. Types'
  BY <1>1, <1>2 DEF Types
<1>5. \A w \in Worker : call[w].at \in InNext =>
        call[w].ctx \in Context /\ call[w].begun \in Nat
  BY CallIsOK, CallFields DEF InNext
<1>6. CellsOwned'
  <2>1. \A k \in Context : counters'[k] # NoCell => counters'[k] \in DOMAIN cells'
    BY <1>1, <1>3 DEF CellsOwned
  <2>2. \A k, j \in Context : counters'[k] # NoCell /\ counters'[k] = counters'[j] => k = j
    BY <1>3 DEF CellsOwned
  <2>3. ASSUME NEW w \in Worker, call[w].at = "add"
        PROVE  /\ call[w].cell \in DOMAIN cells
               /\ \A k \in Context : counters'[k] = call[w].cell => k = call[w].ctx
    <3>1. call[w].cell \in Nat
      BY <2>3, CallIsOK, CallFields
    <3>2. QED
      BY <1>3, <2>3, <3>1, SequencerAssumption DEF CellsOwned
  <2>4. QED
    BY <1>1, <2>1, <2>2, <2>3 DEF CellsOwned
<1>7. ErasFollow'
  <2>1. ASSUME NEW w \in Worker, call[w].at \in InNext
        PROVE  /\ call[w].begun <= era'[call[w].ctx]
               /\ call[w].ctx \notin tasked' => call[w].begun < era'[call[w].ctx]
    <3>1. /\ call[w].begun <= era[call[w].ctx]
          /\ call[w].ctx \notin tasked => call[w].begun < era[call[w].ctx]
      BY <2>1 DEF ErasFollow
    <3>2. call[w].ctx \in Context /\ call[w].begun \in Nat
      BY <1>5, <2>1
    <3>3. QED
      BY <1>1, <1>2, <3>1, <3>2
  <2>2. ASSUME NEW w \in Worker, call[w].at = "add", call[w].begun = era'[call[w].ctx]
        PROVE  call[w].cell = counters'[call[w].ctx]
    <3>1. call[w].ctx \in Context /\ call[w].begun \in Nat /\ call[w].begun <= era[call[w].ctx]
      BY <1>5, <2>2 DEF InNext, ErasFollow
    <3>2. call[w].ctx \notin ks /\ call[w].begun = era[call[w].ctx]
      BY <1>2, <2>2, <3>1
    <3>3. QED
      BY <1>3, <2>2, <3>1, <3>2 DEF ErasFollow
  <2>3. \A d \in drawn : d.begun <= d.ended /\ d.ended <= era'[d.ctx]
    BY <1>2 DEF ErasFollow, Types, Draw
  <2>4. QED
    BY <1>1, <2>1, <2>2, <2>3 DEF ErasFollow
<1>8. PDUsDiffer'
  BY <1>1 DEF PDUsDiffer
<1>9. NumbersRanked'
  <2>1. SUFFICES ASSUME NEW k \in Context, NEW e \in 0..era'[k]
                 PROVE  \E n, f : RankedAt(k, e, n, f)'
    BY DEF NumbersRanked
  <2>2. Within(k, e)' = Within(k, e) /\ Across(k, e)' = Across(k, e)
    BY <1>1 DEF Within, Across
  <2>3. CASE e \in 0..era[k]
    <3>1. PICK n, f : RankedAt(k, e, n, f)
      BY <2>3 DEF NumbersRanked
    <3>2. e = era'[k] => k \notin ks
      BY <1>2, <2>3
    <3>3. RankedAt(k, e, n, f)'
      BY <1>1, <1>2, <1>3, <2>2, <3>1, <3>2 DEF RankedAt
    <3>4. QED
      BY <3>3
  <2>4. CASE e \notin 0..era[k]
    <3>1. e = era[k] + 1 /\ k \in ks /\ e = era'[k] /\ counters'[k] = NoCell
      BY <1>2, <1>3, <2>4
    <3>2. \A d \in drawn : d.ctx = k => d.ended # e
      BY <1>2, <3>1 DEF ErasFollow, Types, Draw
    <3>3. Within(k, e) = {} /\ Across(k, e) = {}
      BY <3>2 DEF Within, Across
    <3>4. PICK f : f = [d \in {} |-> 0]
      OBVIOUS
    <3>5. Ranked({}, {}, 0, f)
      BY <3>4, FS_EmptySet DEF Ranked
    <3>6. RankedAt(k, e, 0, f)'
      BY <2>2, <3>1, <3>3, <3>5 DEF RankedAt
    <3>7. QED
      BY <3>6
  <2>5. QED
    BY <2>3, <2>4
<1>10. CountersFollowTasking'
  <2>1. SUFFICES ASSUME NEW k \in Context, counters'[k] # NoCell, k \notin tasked'
                 PROVE  \E d \in drawn : d.ctx = k /\ d.ended = era'[k] /\ d.begun < d.ended
    BY <1>1 DEF CountersFollowTasking
  <2>2. k \notin ks /\ counters[k] # NoCell /\ k \notin tasked /\ era'[k] = era[k]
    BY <1>1, <1>2, <1>3, <2>1
  <2>3. QED
    BY <2>2 DEF CountersFollowTasking
<1>11. QED
  BY <1>4, <1>6, <1>7, <1>8, <1>9, <1>10

(* Interception is ordered again. *)
LEMMA RetaskPreserves ==
  ASSUME SequencerInv, NEW k \in Context, Retask(k)
  PROVE  SequencerInv'
<1> USE DEF SequencerInv
<1>1. tasked' = tasked \cup {k} /\ UNCHANGED <<counters, cells, call, matched, era, drawn>>
  BY DEF Retask
<1>2. Types' /\ CellsOwned' /\ PDUsDiffer'
  BY <1>1 DEF Types, CellsOwned, PDUsDiffer
<1>3. ErasFollow' /\ CountersFollowTasking'
  BY <1>1 DEF ErasFollow, CountersFollowTasking
<1>4. NumbersRanked'
  BY <1>1, SameNumbers
<1>5. QED
  BY <1>2, <1>3, <1>4

(* The goroutine that has sent its PDU takes the next. *)
LEMMA SendKeeps ==
  ASSUME SequencerInv, NEW w \in Worker, Send(w)
  PROVE  SequencerInv'
<1>1. PICK r : r = Idle
  OBVIOUS
<1>2. r \in CallState /\ r.at = "idle"
  BY <1>1 DEF CallState, Idle
<1>3. /\ call' = [call EXCEPT ![w] = r]
      /\ UNCHANGED <<counters, cells, matched, tasked, era, drawn>>
  BY <1>1 DEF Send
<1>4. CallOK(r)'
  BY <1>2 DEF CallOK, InNext
<1>5. matched' \in Nat /\ matched <= matched'
  BY <1>3 DEF SequencerInv, Types
<1>6. QED
  BY <1>2, <1>3, <1>4, <1>5, CallMoves

-----------------------------------------------------------------------------
(* Copies on their way.                                                     *)
-----------------------------------------------------------------------------
(* A PDU is numbered. *)
LEMMA PlacedDrawn ==
  ASSUME NEW S, NEW F, NEW q, NEW R, NEW L, Placed(S, F, q, R, L), NEW p, p \notin S
  PROVE  Placed(S \cup {p}, F \cup {p}, q, R, L)
<1>1. q \in Seq(S \cup {p})
  BY DEF Placed
<1>2. QED
  BY <1>1 DEF Placed

(* A copy enters the queue. *)
LEMMA PlacedQueued ==
  ASSUME NEW S, NEW F, NEW q, NEW R, NEW L, Placed(S, F, q, R, L), NEW p \in F
  PROVE  Placed(S, F \ {p}, Append(q, p), R, L)
<1> DEFINE z == Append(q, p)
           Q == {q[i] : i \in DOMAIN q}
           Z == {z[i] : i \in DOMAIN z}
<1>1. q \in Seq(S) /\ p \in S /\ Len(q) \in Nat /\ DOMAIN q = 1..Len(q) /\ p \notin Q
  BY LenProperties DEF Placed
<1>2. /\ z \in Seq(S) /\ DOMAIN z = 1..Len(q) + 1 /\ z[Len(q) + 1] = p
      /\ \A i \in DOMAIN q : z[i] = q[i]
  BY <1>1, AppendProperties
<1>3. DOMAIN z = DOMAIN q \cup {Len(q) + 1} /\ Len(q) + 1 \notin DOMAIN q
  BY <1>1, <1>2
<1> HIDE DEF z
<1>4. Z = Q \cup {p}
  BY <1>2, <1>3, ZenonT(30)
<1>5. \A i, j \in DOMAIN z : z[i] = z[j] => i = j
  <2>1. \A i \in DOMAIN q : z[i] # p
    BY <1>1, <1>2
  <2>2. \A i, j \in DOMAIN q : z[i] = z[j] => i = j
    BY <1>2 DEF Placed
  <2>3. QED
    BY <1>2, <1>3, <2>1, <2>2
<1>6. /\ S = F \cup Q \cup R \cup L
      /\ F \cap Q = {} /\ F \cap R = {} /\ F \cap L = {}
      /\ Q \cap R = {} /\ Q \cap L = {} /\ R \cap L = {}
  BY DEF Placed
<1> HIDE DEF Q, Z
<1>7. /\ S = (F \ {p}) \cup Z \cup R \cup L
      /\ (F \ {p}) \cap Z = {} /\ (F \ {p}) \cap R = {} /\ (F \ {p}) \cap L = {}
      /\ Z \cap R = {} /\ Z \cap L = {} /\ R \cap L = {}
  BY <1>4, <1>6
<1>8. Placed(S, F \ {p}, z, R, L)
  BY <1>2, <1>5, <1>7 DEF Placed, Z
<1>9. QED
  BY <1>8 DEF z

(* A copy is dropped for want of room. *)
LEMMA PlacedDropped ==
  ASSUME NEW S, NEW F, NEW q, NEW R, NEW L, Placed(S, F, q, R, L), NEW p \in F
  PROVE  Placed(S, F \ {p}, q, R, L \cup {p})
BY DEF Placed

(* The oldest copy leaves the queue. *)
LEMMA PlacedTaken ==
  ASSUME NEW S, NEW F, NEW q, NEW R, NEW L, Placed(S, F, q, R, L), q # <<>>
  PROVE  /\ Placed(S, F, Tail(q), R \cup {Head(q)}, L)
         /\ Placed(S, F, Tail(q), R, L \cup {Head(q)})
<1> DEFINE z == Tail(q)
           h == Head(q)
           Q == {q[i] : i \in DOMAIN q}
           Z == {z[i] : i \in DOMAIN z}
<1>1. q \in Seq(S) /\ Len(q) \in Nat /\ DOMAIN q = 1..Len(q) /\ Len(q) > 0
  BY LenProperties, EmptySeq DEF Placed
<1>2. /\ z \in Seq(S) /\ DOMAIN z = 1..Len(q) - 1 /\ h = q[1]
      /\ \A i \in DOMAIN z : z[i] = q[i + 1]
  BY <1>1, HeadTailProperties
<1>3. \A i, j \in DOMAIN q : q[i] = q[j] => i = j
  BY DEF Placed
<1>4. /\ S = F \cup Q \cup R \cup L
      /\ F \cap Q = {} /\ F \cap R = {} /\ F \cap L = {}
      /\ Q \cap R = {} /\ Q \cap L = {} /\ R \cap L = {}
  BY DEF Placed
<1> HIDE DEF z, h
<1>5. Q = Z \cup {h} /\ h \notin Z
  <2>1. \A i \in DOMAIN z : i + 1 \in DOMAIN q /\ i + 1 # 1
    BY <1>1, <1>2
  <2>2. \A i \in DOMAIN q : i = 1 \/ (i - 1 \in DOMAIN z /\ (i - 1) + 1 = i)
    BY <1>1, <1>2
  <2>3. 1 \in DOMAIN q
    BY <1>1
  <2>4. \A i \in DOMAIN q : q[i] \in Z \cup {h}
    BY <1>2, <2>2
  <2>5. \A i \in DOMAIN z : z[i] \in Q /\ z[i] # h
    BY <1>2, <1>3, <2>1, <2>3
  <2>6. h \in Q
    BY <1>2, <2>3
  <2>7. QED
    BY <2>4, <2>5, <2>6
<1>6. \A i, j \in DOMAIN z : z[i] = z[j] => i = j
  <2>1. \A i \in DOMAIN z : i \in Nat /\ i + 1 \in DOMAIN q
    BY <1>1, <1>2
  <2>2. QED
    BY <1>2, <1>3, <2>1
<1> HIDE DEF Q, Z
<1>7. /\ S = F \cup Z \cup (R \cup {h}) \cup L /\ S = F \cup Z \cup R \cup (L \cup {h})
      /\ F \cap Z = {} /\ F \cap R = {} /\ F \cap L = {}
      /\ F \cap (R \cup {h}) = {} /\ F \cap (L \cup {h}) = {}
      /\ Z \cap R = {} /\ Z \cap L = {} /\ Z \cap (R \cup {h}) = {} /\ Z \cap (L \cup {h}) = {}
      /\ R \cap L = {} /\ (R \cup {h}) \cap L = {} /\ R \cap (L \cup {h}) = {}
  BY <1>4, <1>5
<1>8. Placed(S, F, z, R \cup {h}, L) /\ Placed(S, F, z, R, L \cup {h})
  BY <1>2, <1>6, <1>7 DEF Placed, Z
<1>9. QED
  BY <1>8 DEF z, h

(* Both ways through Next number the PDU. *)
LEMMA NextDraws ==
  ASSUME SequencerInv, NEW w \in Worker, addFound(w) \/ create(w)
  PROVE  call[w].at \in InNext /\ \E r, d : DrawStep(w, r, d)
<1>1. call[w].at \in InNext /\ UNCHANGED <<tasked, era>>
  BY DEF addFound, create, InNext
<1>2. cells \in Seq(Nat)
  BY DEF SequencerInv, Types
<1>3. \E n \in Nat : Return(w, n)
  <2>1. CASE addFound(w)
    <3>1. call[w].cell \in DOMAIN cells /\ Return(w, cells[call[w].cell])
      BY <2>1 DEF addFound, Add, SequencerInv, CellsOwned
    <3>2. cells[call[w].cell] \in Nat
      BY <1>2, <3>1, ElementOfSeq, LenProperties
    <3>3. QED
      BY <3>1, <3>2
  <2>2. CASE create(w)
    <3> DEFINE c == counters[call[w].ctx]
    <3>1. call[w].ctx \in Context
      BY <1>1, CallIsOK, CallFields DEF InNext
    <3>2. c # NoCell => cells[c] \in Nat
      BY <1>2, <3>1, ElementOfSeq, LenProperties DEF SequencerInv, CellsOwned
    <3>3. IF c = NoCell THEN Create(w, 1) ELSE Add(w, c)
      BY <2>2 DEF create, lookAgain
    <3>4. Return(w, IF c = NoCell THEN 0 ELSE cells[c])
      BY <3>3 DEF Create, Add
    <3>5. QED
      BY <3>2, <3>4
  <2>3. QED
    BY <2>1, <2>2
<1>4. QED
  BY <1>1, <1>3, Returns

(* Where nothing was numbered and nothing was sent. *)
LEMMA SamePlaces ==
  ASSUME PlacedOnce, UNCHANGED downstream, Sent' = Sent, Framed' = Framed
  PROVE  PlacedOnce'
BY DEF PlacedOnce, downstream

LEMMA IdleMoves ==
  ASSUME SequencerInv, PlacedOnce, UNCHANGED downstream, drawn' = drawn, NEW w \in Worker, NEW r,
         call[w].at # "framed", r.at # "framed", call' = [call EXCEPT ![w] = r]
  PROVE  PlacedOnce'
<1>1. \A v \in Worker : (call'[v].at = "framed" <=> call[v].at = "framed")
                        /\ (call[v].at = "framed" => call'[v] = call[v])
  BY DEF SequencerInv, Types
<1>2. Framed' = Framed
  BY <1>1 DEF Framed, Attributes
<1>3. Sent' = Sent
  BY DEF Sent
<1>4. QED
  BY <1>2, <1>3, SamePlaces

LEMMA DrawPlaces ==
  ASSUME SequencerInv, PlacedOnce, UNCHANGED downstream, NEW w \in Worker,
         call[w].at \in InNext, NEW r, NEW d, DrawStep(w, r, d)
  PROVE  PlacedOnce'
<1>1. PICK p : p = [pdu |-> d.pdu, ctx |-> d.ctx, num |-> d.num]
  OBVIOUS
<1>2. drawn' = drawn \cup {d} /\ d.pdu = call[w].pdu
  BY DEF DrawStep
<1>3. Sent' = Sent \cup {p}
  BY <1>1, <1>2 DEF Sent
<1>4. p \notin Sent
  <2>1. \A c \in drawn : c.pdu # d.pdu
    BY <1>2 DEF SequencerInv, PDUsDiffer
  <2>2. p.pdu = d.pdu /\ \A s \in Sent : \E c \in drawn : s.pdu = c.pdu
    BY <1>1 DEF Sent
  <2>3. QED
    BY <2>1, <2>2
<1>5. call'[w] = r /\ r.at = "framed" /\ \A v \in Worker \ {w} : call'[v] = call[v]
  BY DEF DrawStep, SequencerInv, Types
<1>6. Framed' = Framed \cup {p}
  <2>1. Attributes(w)' = p
    BY <1>1, <1>5 DEF Attributes, DrawStep
  <2>2. \A v \in Worker \ {w} : Attributes(v)' = Attributes(v)
    BY <1>5 DEF Attributes
  <2>3. call[w].at # "framed"
    BY DEF InNext
  <2>4. \A x : x \in Framed' <=> \E v \in Worker : call'[v].at = "framed" /\ x = Attributes(v)'
    BY DEF Framed
  <2>5. \A x : x \in Framed <=> \E v \in Worker : call[v].at = "framed" /\ x = Attributes(v)
    BY DEF Framed
  <2>6. ASSUME NEW x PROVE x \in Framed' <=> x \in Framed \cup {p}
    <3>1. CASE x \in Framed'
      BY <1>5, <2>1, <2>2, <2>4, <2>5, <3>1
    <3>2. CASE x \in Framed
      <4>1. PICK v \in Worker : call[v].at = "framed" /\ x = Attributes(v)
        BY <2>5, <3>2
      <4>2. v \in Worker \ {w} /\ call'[v].at = "framed"
        BY <1>5, <2>3, <4>1
      <4>3. QED
        BY <2>2, <2>4, <3>2, <4>1, <4>2
    <3>3. CASE x = p
      BY <1>5, <2>1, <2>4, <3>3
    <3>4. QED
      BY <3>1, <3>2, <3>3
  <2>7. QED
    BY <2>6
<1>7. \A a \in Addr : Placed(Sent', Framed', queue[a], received[a], lost[a])
  BY <1>3, <1>4, <1>6, PlacedDrawn DEF PlacedOnce
<1>8. QED
  BY <1>3, <1>6, <1>7 DEF PlacedOnce, downstream

(* A copy for every destination: into its queue, or dropped. *)
LEMMA SendPlaces ==
  ASSUME SequencerInv, PlacedOnce, NEW w \in Worker, Send(w)
  PROVE  PlacedOnce'
<1>1. PICK p : p = Attributes(w)
  OBVIOUS
<1>2. call[w].at = "framed" /\ call' = [call EXCEPT ![w] = Idle] /\ drawn' = drawn
      /\ received' = received
  BY DEF Send
<1>3. PICK room : /\ queue' = [a \in Addr |-> IF a \in room THEN Append(queue[a], p) ELSE queue[a]]
                  /\ lost' = [a \in Addr |-> IF a \in room THEN lost[a] ELSE lost[a] \cup {p}]
  BY <1>1 DEF Send
<1>4. Sent' = Sent
  BY <1>2 DEF Sent
<1>5. call'[w].at = "idle" /\ \A v \in Worker \ {w} : call'[v] = call[v]
  BY <1>2 DEF SequencerInv, Types, Idle
<1>6. p \in Framed
  BY <1>1, <1>2 DEF Framed
<1>7. Framed' = Framed \ {p}
  <2>1. \A v \in Worker \ {w} : Attributes(v)' = Attributes(v)
    BY <1>5 DEF Attributes
  <2>2. \A v \in Worker \ {w} : call[v].at = "framed" => Attributes(v) # p
    <3>1. \A v \in Worker \ {w} : call[v].at = "framed" => call[v].pdu # call[w].pdu
      BY <1>2 DEF SequencerInv, PDUsDiffer
    <3>2. p.pdu = call[w].pdu /\ \A v \in Worker : Attributes(v).pdu = call[v].pdu
      BY <1>1 DEF Attributes
    <3>3. QED
      BY <3>1, <3>2
  <2>3. \A x : x \in Framed' <=> \E v \in Worker : call'[v].at = "framed" /\ x = Attributes(v)'
    BY DEF Framed
  <2>4. \A x : x \in Framed <=> \E v \in Worker : call[v].at = "framed" /\ x = Attributes(v)
    BY DEF Framed
  <2>5. ASSUME NEW x PROVE x \in Framed' <=> x \in Framed \ {p}
    <3>1. CASE x \in Framed'
      <4>1. PICK v \in Worker : call'[v].at = "framed" /\ x = Attributes(v)'
        BY <2>3, <3>1
      <4>2. v \in Worker \ {w} /\ call[v].at = "framed" /\ x = Attributes(v)
        BY <1>5, <2>1, <4>1
      <4>3. QED
        BY <2>2, <2>4, <3>1, <4>2
    <3>2. CASE x \in Framed \ {p}
      <4>1. PICK v \in Worker : call[v].at = "framed" /\ x = Attributes(v)
        BY <2>4, <3>2
      <4>2. v \in Worker \ {w} /\ call'[v].at = "framed" /\ x = Attributes(v)'
        BY <1>1, <1>5, <2>1, <3>2, <4>1
      <4>3. QED
        BY <2>3, <3>2, <4>2
    <3>3. QED
      BY <3>1, <3>2
  <2>6. QED
    BY <2>5
<1>8. \A a \in Addr : Placed(Sent', Framed', queue'[a], received'[a], lost'[a])
  <2>1. TAKE a \in Addr
  <2>2. CASE a \in room
    <3>1. queue'[a] = Append(queue[a], p) /\ lost'[a] = lost[a] /\ received'[a] = received[a]
      BY <1>2, <1>3, <2>2
    <3>2. QED
      BY <1>4, <1>6, <1>7, <3>1, PlacedQueued DEF PlacedOnce
  <2>3. CASE a \notin room
    <3>1. queue'[a] = queue[a] /\ lost'[a] = lost[a] \cup {p} /\ received'[a] = received[a]
      BY <1>2, <1>3, <2>3
    <3>2. QED
      BY <1>4, <1>6, <1>7, <3>1, PlacedDropped DEF PlacedOnce
  <2>4. QED
    BY <2>2, <2>3
<1>9. Framed' \subseteq Sent' /\ received' = [a \in Addr |-> received'[a]]
  BY <1>2, <1>4, <1>7 DEF PlacedOnce
<1>10. queue' = [a \in Addr |-> queue'[a]] /\ lost' = [a \in Addr |-> lost'[a]]
  BY <1>3
<1>11. QED
  BY <1>8, <1>9, <1>10 DEF PlacedOnce

(* The oldest copy is delivered, or lost. *)
LEMMA DeliverPlaces ==
  ASSUME SequencerInv, PlacedOnce, NEW b \in Addr, Deliver(b)
  PROVE  PlacedOnce'
<1>1. Sent' = Sent /\ Framed' = Framed
  BY DEF Deliver, seqVars, Sent, Framed, Attributes
<1>2. /\ queue[b] # <<>>
      /\ queue' = [queue EXCEPT ![b] = Tail(queue[b])]
      /\ \/ received' = [received EXCEPT ![b] = received[b] \cup {Head(queue[b])}] /\ lost' = lost
         \/ lost' = [lost EXCEPT ![b] = lost[b] \cup {Head(queue[b])}] /\ received' = received
  BY DEF Deliver
<1>3. /\ queue = [a \in Addr |-> queue[a]] /\ received = [a \in Addr |-> received[a]]
      /\ lost = [a \in Addr |-> lost[a]]
  BY DEF PlacedOnce
<1>4. /\ queue' = [a \in Addr |-> queue'[a]] /\ received' = [a \in Addr |-> received'[a]]
      /\ lost' = [a \in Addr |-> lost'[a]]
  BY <1>2, <1>3
<1>5. \A a \in Addr : Placed(Sent, Framed, queue'[a], received'[a], lost'[a])
  <2>1. TAKE a \in Addr
  <2>2. Placed(Sent, Framed, queue[a], received[a], lost[a])
    BY DEF PlacedOnce
  <2>3. CASE a = b
    <3>1. /\ queue'[a] = Tail(queue[a])
          /\ \/ received'[a] = received[a] \cup {Head(queue[a])} /\ lost'[a] = lost[a]
             \/ lost'[a] = lost[a] \cup {Head(queue[a])} /\ received'[a] = received[a]
      BY <1>2, <1>3, <2>3
    <3>2. queue[a] # <<>>
      BY <1>2, <2>3
    <3>3. /\ Placed(Sent, Framed, Tail(queue[a]), received[a] \cup {Head(queue[a])}, lost[a])
          /\ Placed(Sent, Framed, Tail(queue[a]), received[a], lost[a] \cup {Head(queue[a])})
      BY <2>2, <3>2, PlacedTaken
    <3>4. QED
      BY <3>1, <3>3
  <2>4. CASE a # b
    BY <1>2, <1>3, <2>2, <2>4
  <2>5. QED
    BY <2>3, <2>4
<1>6. QED
  BY <1>1, <1>4, <1>5 DEF PlacedOnce

-----------------------------------------------------------------------------
(* The invariant.                                                           *)
-----------------------------------------------------------------------------
LEMMA InitInv == Init => ProductInv
<1> SUFFICES ASSUME Init PROVE ProductInv
  OBVIOUS
<1> USE DEF Init, SeqInit
<1>1. Types
  <2>1. cells \in Seq(Nat)
    OBVIOUS
  <2>2. call \in [Worker -> CallState]
    BY DEF CallState
  <2>3. IsFiniteSet(drawn)
    BY FS_EmptySet
  <2>4. QED
    BY <2>1, <2>2, <2>3 DEF Types
<1>2. \A w \in Worker : call[w].at = "idle"
  BY DEF Idle
<1>3. CellsOwned /\ ErasFollow /\ PDUsDiffer /\ CountersFollowTasking
  BY <1>2 DEF CellsOwned, ErasFollow, PDUsDiffer, CountersFollowTasking, InNext
<1>4. NumbersRanked
  <2>1. SUFFICES ASSUME NEW k \in Context, NEW e \in 0..era[k]
                 PROVE  \E n, f : RankedAt(k, e, n, f)
    BY DEF NumbersRanked
  <2>2. Within(k, e) = {} /\ Across(k, e) = {}
    BY DEF Within, Across
  <2>3. PICK f : f = [d \in {} |-> 0]
    OBVIOUS
  <2>4. Ranked({}, {}, 0, f)
    BY <2>3, FS_EmptySet DEF Ranked
  <2>5. RankedAt(k, e, 0, f)
    BY <2>2, <2>4 DEF RankedAt
  <2>6. QED
    BY <2>5
<1>5. Sent = {} /\ Framed = {}
  BY <1>2 DEF Sent, Framed
<1>6. \A a \in Addr : Placed({}, {}, queue[a], received[a], lost[a])
  BY DEF Placed
<1>7. PlacedOnce
  BY <1>5, <1>6 DEF PlacedOnce
<1>8. QED
  BY <1>1, <1>3, <1>4, <1>7 DEF ProductInv, SequencerInv

LEMMA NumberingStep ==
  ASSUME ProductInv, Numbering, UNCHANGED downstream
  PROVE  ProductInv'
<1> USE DEF ProductInv
<1>1. ASSUME NEW w \in Worker, NEW k \in Context, Match(w, k)
      PROVE  ProductInv'
  <2>1. PICK r : r = [at |-> "next", pdu |-> matched', ctx |-> k, begun |-> era[k]]
    OBVIOUS
  <2>2. call[w].at # "framed" /\ r.at # "framed" /\ call' = [call EXCEPT ![w] = r]
        /\ drawn' = drawn
    BY <1>1, <2>1 DEF Match, Idle
  <2>3. QED
    BY <1>1, <2>2, MatchPreserves, IdleMoves
<1>2. ASSUME NEW w \in Worker, Lookup(w)
      PROVE  ProductInv'
  <2> DEFINE q == call[w]
  <2>1. PICK r : r = IF counters[q.ctx] = NoCell THEN [q EXCEPT !.at = "create"]
                     ELSE [at |-> "add", pdu |-> q.pdu, ctx |-> q.ctx, begun |-> q.begun,
                           cell |-> counters[q.ctx]]
    OBVIOUS
  <2>2. q.at = "next" /\ call' = [call EXCEPT ![w] = r] /\ drawn' = drawn
    BY <1>2, <2>1 DEF Lookup
  <2>3. q \in CallState
    BY CallIsOK
  <2>4. q \in [at : {"next", "create"}, pdu : Nat, ctx : Context, begun : Nat]
    BY <2>2, <2>3 DEF CallState, Idle
  <2>5. r.at # "framed"
    BY <2>1, <2>4
  <2>6. QED
    BY <1>2, <2>2, <2>5, LookupPreserves, IdleMoves
<1>3. ASSUME NEW w \in Worker, addFound(w) \/ create(w)
      PROVE  ProductInv'
  <2>1. SequencerInv'
    BY <1>3, NextPreserves
  <2>2. call[w].at \in InNext /\ \E r, d : DrawStep(w, r, d)
    BY <1>3, NextDraws
  <2>3. PlacedOnce'
    BY <2>2, DrawPlaces
  <2>4. QED
    BY <2>1, <2>3
<1>4. ASSUME NEW ks \in SUBSET Context, Drop(ks, ks)
      PROVE  ProductInv'
  <2>1. drawn' = drawn /\ call' = call
    BY <1>4 DEF Drop
  <2>2. Sent' = Sent /\ Framed' = Framed
    BY <2>1 DEF Sent, Framed, Attributes
  <2>3. QED
    BY <1>4, <2>2, DropPreserves, SamePlaces
<1>5. ASSUME NEW k \in Context, Retask(k)
      PROVE  ProductInv'
  <2>1. drawn' = drawn /\ call' = call
    BY <1>5 DEF Retask
  <2>2. Sent' = Sent /\ Framed' = Framed
    BY <2>1 DEF Sent, Framed, Attributes
  <2>3. QED
    BY <1>5, <2>2, RetaskPreserves, SamePlaces
<1>6. \A x \in XID : Under(x) \in SUBSET Context
  BY DEF Under
<1>7. \A k \in Context : {k} \in SUBSET Context
  OBVIOUS
<1>8. QED
  BY <1>1, <1>2, <1>3, <1>4, <1>5, <1>6, <1>7 DEF Numbering, Forget, ForgetContext

(* The numbering and the placing of every PDU are kept by every step, for  *)
(* any number of goroutines, contexts and destinations.                    *)
THEOREM ProductInvariant == Spec => []ProductInv
<1>1. ProductInv /\ [Next]_vars => ProductInv'
  <2>1. SUFFICES ASSUME ProductInv, [Next]_vars PROVE ProductInv'
    OBVIOUS
  <2>2. CASE Numbering /\ UNCHANGED downstream
    BY <2>1, <2>2, NumberingStep
  <2>3. ASSUME NEW w \in Worker, Send(w) PROVE ProductInv'
    BY <2>1, <2>3, SendKeeps, SendPlaces DEF ProductInv
  <2>4. ASSUME seqVars' = seqVars PROVE SequencerInv'
    <3>1. UNCHANGED <<counters, cells, call, matched, tasked, era, drawn>> /\ SequencerInv
      BY <2>1, <2>4 DEF seqVars, ProductInv
    <3>2. NumbersRanked'
      BY <3>1, SameNumbers DEF SequencerInv
    <3>3. Types' /\ CellsOwned' /\ ErasFollow' /\ PDUsDiffer' /\ CountersFollowTasking'
      BY <3>1 DEF SequencerInv, Types, CellsOwned, ErasFollow, PDUsDiffer, CountersFollowTasking
    <3>4. QED
      BY <3>2, <3>3 DEF SequencerInv
  <2>5. ASSUME NEW a \in Addr, Deliver(a) PROVE ProductInv'
    BY <2>1, <2>4, <2>5, DeliverPlaces DEF ProductInv, Deliver
  <2>6. CASE UNCHANGED vars
    <3>1. UNCHANGED downstream /\ seqVars' = seqVars
      BY <2>6 DEF vars, downstream
    <3>2. Sent' = Sent /\ Framed' = Framed
      BY <3>1 DEF seqVars, Sent, Framed, Attributes
    <3>3. QED
      BY <2>1, <2>4, <3>1, <3>2, SamePlaces DEF ProductInv
  <2>7. QED
    BY <2>1, <2>2, <2>3, <2>5, <2>6 DEF Next
<1>2. QED
  BY <1>1, InitInv, PTL DEF Spec

-----------------------------------------------------------------------------
(* What the numbers say.                                                    *)
-----------------------------------------------------------------------------
(* Different places below n, as many as the PDUs at most, leave no number  *)
(* to two PDUs more often than a sequence from zero has it.                *)
LEMMA RankedOccurs ==
  ASSUME NEW W, NEW A, NEW n, NEW f, Ranked(W, A, n, f), IsFiniteSet(W), IsFiniteSet(A), NEW v
  PROVE  Cardinality({d \in W : d.num = v}) <= Occurs(v, Cardinality(W) + Cardinality(A))
<1> DEFINE m == Cardinality(W) + Cardinality(A)
           S == {d \in W : d.num = v}
           T == {j \in 0..m - 1 : j % Modulus = v}
           g == [d \in S |-> f[d]]
<1>1. m \in Nat /\ n \in Nat /\ n <= m
  BY FS_CardinalityType DEF Ranked
<1> HIDE DEF m
<1>2. T \in SUBSET (0..m - 1) /\ 0 \in Int /\ m - 1 \in Int
  BY <1>1
<1>3. IsFiniteSet(T)
  BY <1>2, FS_Interval, FS_Subset
<1>4. \A d \in S : f[d] \in T
  BY <1>1 DEF Ranked
<1>5. g \in [S -> T] /\ \A c, d \in S : g[c] = g[d] => c = d
  BY <1>4 DEF Ranked
<1> HIDE DEF S, T, g
<1>6. g \in Injection(S, T)
  BY <1>5 DEF Injection, IsInjective
<1>7. Cardinality(S) <= Cardinality(T)
  BY <1>3, <1>6, FS_Injection
<1>8. QED
  BY <1>7 DEF S, T, m, Occurs

(* Numbers within a context run from zero without a gap or a duplicate,    *)
(* but for PDUs in flight across a Forget, at any width of the number,     *)
(* however many goroutines number at once.                                 *)
THEOREM ContextsAreNumbered == Spec => []ContextNumbering
<1>1. ProductInv => ContextNumbering
  <2>1. SUFFICES ASSUME ProductInv, NEW k \in Context, NEW e \in 0..MaxForgets,
                        NEW v \in 0..Modulus - 1
                 PROVE  Cardinality({d \in Within(k, e) : d.num = v})
                          <= Occurs(v, Cardinality(Within(k, e)) + Cardinality(Across(k, e)))
    BY DEF ContextNumbering
  <2>2. SequencerInv
    BY <2>1 DEF ProductInv
  <2>3. IsFiniteSet(Within(k, e)) /\ IsFiniteSet(Across(k, e))
    BY <2>2, DrawnFinite DEF SequencerInv
  <2>4. e \in Nat /\ era[k] \in Nat
    BY <2>2 DEF SequencerInv, Types
  <2>5. \E n, f : Ranked(Within(k, e), Across(k, e), n, f)
    <3>1. CASE e <= era[k]
      BY <2>2, <2>4, <3>1 DEF SequencerInv, NumbersRanked, RankedAt
    <3>2. CASE era[k] < e
      <4>1. \A d \in drawn : d.ctx = k => d.ended # e
        BY <2>2, <2>4, <3>2 DEF SequencerInv, ErasFollow, Types, Draw
      <4>2. Within(k, e) = {} /\ Across(k, e) = {}
        BY <4>1 DEF Within, Across
      <4>3. PICK f : f = [d \in {} |-> 0]
        OBVIOUS
      <4>4. Ranked({}, {}, 0, f)
        BY <4>3, FS_EmptySet DEF Ranked
      <4>5. QED
        BY <4>2, <4>4
    <3>3. QED
      BY <2>4, <3>1, <3>2
  <2>6. QED
    BY <2>3, <2>5, RankedOccurs
<1>2. QED
  BY <1>1, ProductInvariant, PTL

(* A context has a counter after its tasking ended only where a PDU was in *)
(* flight across the Forget.                                               *)
THEOREM CountersEndWithTasking == Spec => []CountersFollowTasking
<1>1. ProductInv => CountersFollowTasking
  BY DEF ProductInv, SequencerInv
<1>2. QED
  BY <1>1, ProductInvariant, PTL

(* As long as a context is not forgotten and its numbers have not wrapped, *)
(* its PDUs have the numbers from zero, each one of them.                  *)
LEMMA NumbersAreComplete ==
  ASSUME SequencerInv, NEW k \in Context, era[k] = 0,
         Cardinality({d \in drawn : d.ctx = k}) <= Modulus
  PROVE  LET D == {d \in drawn : d.ctx = k}
             N == Cardinality(D)
         IN /\ N \in Nat
            /\ \A d \in D : d.num \in 0..N - 1
            /\ \A c, d \in D : c.num = d.num => c = d
            /\ \A j \in 0..N - 1 : \E d \in D : d.num = j
<1> DEFINE D == {d \in drawn : d.ctx = k}
           N == Cardinality(D)
<1>1. \A d \in D : d.begun = 0 /\ d.ended = 0
  BY DEF SequencerInv, ErasFollow, Types, Draw
<1>2. Within(k, 0) = D /\ Across(k, 0) = {}
  BY <1>1 DEF Within, Across
<1>3. PICK n, f : Ranked(D, {}, n, f)
  <2>1. 0 \in 0..era[k]
    OBVIOUS
  <2>2. PICK n, f : RankedAt(k, 0, n, f)
    BY <2>1 DEF SequencerInv, NumbersRanked
  <2>3. Ranked(Within(k, 0), Across(k, 0), n, f)
    BY <2>2 DEF RankedAt
  <2> HIDE DEF D
  <2>4. QED
    BY <1>2, <2>3
<1>4. IsFiniteSet(D) /\ N \in Nat
  BY <1>2, DrawnFinite, FS_CardinalityType DEF SequencerInv
<1>5. N <= Modulus
  OBVIOUS
<1> HIDE DEF D, N
<1>6. n \in Nat /\ n <= N
  BY <1>3, <1>4, FS_EmptySet DEF Ranked, N
<1>7. f \in Injection(D, 0..n - 1)
  <2>1. f \in [D -> Nat] /\ \A d \in D : f[d] < n
    BY <1>3 DEF Ranked
  <2>2. f \in [D -> 0..n - 1]
    BY <1>6, <2>1
  <2>3. QED
    BY <1>3, <2>2 DEF Ranked, Injection, IsInjective
<1>8. IsFiniteSet(0..n - 1) /\ Cardinality(0..n - 1) = n
  BY <1>6, FS_Interval
<1>9. N = n /\ f \in Surjection(D, 0..n - 1)
  BY <1>4, <1>6, <1>7, <1>8, FS_Injection DEF N
<1>10. \A d \in D : f[d] \in 0..N - 1 /\ d.num = f[d]
  <2>1. \A d \in D : f[d] \in Nat /\ f[d] < n /\ d.num = f[d] % Modulus
    BY <1>3 DEF Ranked
  <2>2. \A d \in D : f[d] < Modulus
    BY <1>4, <1>5, <1>9, <2>1, SequencerAssumption
  <2>3. ASSUME NEW d \in D PROVE f[d] \in 0..N - 1 /\ d.num = f[d]
    <3>1. f[d] % Modulus = f[d]
      BY <2>1, <2>2, Wrapping
    <3>2. QED
      BY <1>6, <1>9, <2>1, <3>1
  <2>4. QED
    BY <2>3
<1>11. \A c, d \in D : c.num = d.num => c = d
  BY <1>3, <1>10 DEF Ranked
<1>12. \A j \in 0..N - 1 : \E d \in D : d.num = j
  BY <1>9, <1>10 DEF Surjection
<1>13. \A d \in D : d.num \in 0..N - 1
  BY <1>10
<1>14. QED
  BY <1>4, <1>11, <1>12, <1>13 DEF D, N

(* Every mediation function can tell what it lost: once nothing of a live  *)
(* context is on its way to it, the numbers it misses are those of the     *)
(* units lost on the way to it, for any number of destinations and any     *)
(* capacity of their queues.                                               *)
THEOREM LossIsVisible == Spec => []LossShowsAsGap
<1>1. ProductInv => LossShowsAsGap
  <2>1. SUFFICES ASSUME ProductInv, NEW a \in Addr, NEW k \in Context, era[k] = 0,
                        Cardinality({d \in drawn : d.ctx = k}) <= Modulus, ~Underway(a, k)
                 PROVE  (0..Cardinality({d \in drawn : d.ctx = k}) - 1)
                           \ NumbersOf(received[a], k) = NumbersOf(lost[a], k)
    BY DEF LossShowsAsGap
  <2> DEFINE D == {d \in drawn : d.ctx = k}
             N == Cardinality(D)
             R == received[a]
             L == lost[a]
             Q == {queue[a][i] : i \in DOMAIN queue[a]}
             Unit(d) == [pdu |-> d.pdu, ctx |-> d.ctx, num |-> d.num]
  <2>2. /\ \A d \in D : d.num \in 0..N - 1
        /\ \A c, d \in D : c.num = d.num => c = d
        /\ \A j \in 0..N - 1 : \E d \in D : d.num = j
    BY <2>1, NumbersAreComplete DEF ProductInv
  <2>3. Sent = Framed \cup Q \cup R \cup L /\ R \cap L = {}
    BY <2>1 DEF ProductInv, PlacedOnce, Placed
  <2>4. (\A p \in Framed : p.ctx # k) /\ (\A p \in Q : p.ctx # k)
    BY <2>1 DEF Underway, Framed, Attributes
  <2>5. \A p \in Sent : p.ctx = k => \E d \in D : p = Unit(d) /\ p.num = d.num
    BY DEF Sent
  <2>6. \A d \in D : Unit(d) \in Sent /\ Unit(d).ctx = k /\ Unit(d).num = d.num
    BY DEF Sent
  <2>7. \A S, j : j \in NumbersOf(S, k) <=> \E p \in S : p.ctx = k /\ p.num = j
    BY DEF NumbersOf
  <2> HIDE DEF D, N, R, L, Q, Unit
  <2>8. ASSUME NEW j \in 0..N - 1, j \notin NumbersOf(R, k)
        PROVE  j \in NumbersOf(L, k)
    <3>1. PICK d \in D : d.num = j
      BY <2>2
    <3>2. Unit(d) \in Framed \cup Q \cup R \cup L /\ Unit(d).ctx = k /\ Unit(d).num = j
      BY <2>3, <2>6, <3>1
    <3>3. Unit(d) \in L
      BY <2>4, <2>7, <2>8, <3>2
    <3>4. QED
      BY <2>7, <3>2, <3>3
  <2>9. ASSUME NEW j, j \in NumbersOf(L, k)
        PROVE  j \in 0..N - 1 /\ j \notin NumbersOf(R, k)
    <3>1. PICK p \in L : p.ctx = k /\ p.num = j
      BY <2>7, <2>9
    <3>2. PICK d \in D : p = Unit(d) /\ p.num = d.num
      BY <2>3, <2>5, <3>1
    <3>3. ASSUME j \in NumbersOf(R, k) PROVE FALSE
      <4>1. PICK q \in R : q.ctx = k /\ q.num = j
        BY <2>7, <3>3
      <4>2. PICK c \in D : q = Unit(c) /\ q.num = c.num
        BY <2>3, <2>5, <4>1
      <4>3. c = d
        BY <2>2, <3>1, <3>2, <4>1, <4>2
      <4>4. QED
        BY <2>3, <3>2, <4>2, <4>3
    <3>4. QED
      BY <2>2, <3>1, <3>2, <3>3
  <2>10. (0..N - 1) \ NumbersOf(R, k) = NumbersOf(L, k)
    BY <2>8, <2>9
  <2>11. QED
    BY <2>10 DEF D, N, R, L
<1>2. QED
  BY <1>1, ProductInvariant, PTL
==============================================================================
