------------------------------ MODULE Sequencer ------------------------------
(****************************************************************************)
(* x2x3.Sequencer, behind Identity: the sequence number every X2/X3 PDU     *)
(* carries within its context, an XID and a correlation value.  Framing     *)
(* goroutines draw numbers concurrently; the end of a task forgets all the  *)
(* contexts of its XID, the end of a session forgets one.                   *)
(*                                                                          *)
(* counters is the map, whose entries point into cells: a goroutine that    *)
(* found a pointer under the read lock adds to it after releasing the lock, *)
(* whether or not the entry is still there.  Which contexts are tasked, and *)
(* a goroutine matching a packet or an event to a task before it numbers    *)
(* the PDU, are the point of interception's, which is external.             *)
(****************************************************************************)
EXTENDS Naturals, Sequences, FiniteSets

CONSTANTS
  Context,     \* the contexts: pairs of an XID and a correlation value
  Worker,      \* framing goroutines
  NoCell,      \* a context without a counter
  Modulus,     \* numbers before the field wraps; 2^32 in the code
  MaxPDUs,     \* bound: PDUs matched in all
  MaxForgets   \* bound: how often contexts are forgotten

XID == {k[1] : k \in Context}

ASSUME SequencerAssumption ==
  /\ \A k \in Context : k = <<k[1], k[2]>>
  /\ Modulus \in Nat \ {0}
  /\ MaxPDUs \in Nat
  /\ MaxForgets \in Nat
  /\ NoCell \notin Nat

VARIABLES
  counters,  \* Context -> index of its cell, or NoCell
  cells,     \* every atomic counter ever made
  call,      \* Worker -> where it is in Next, and for which context
  matched,   \* PDUs matched so far; a PDU is known by its place
  tasked,    \* external: the contexts interception is ordered for
  era,       \* history: Context -> how often it was forgotten
  drawn      \* history: the numbers handed out

seqVars == <<counters, cells, call, matched, tasked, era, drawn>>

Idle == [at |-> "idle"]

SeqInit ==
  /\ counters = [k \in Context |-> NoCell]
  /\ cells = <<>>
  /\ call = [w \in Worker |-> Idle]
  /\ matched = 0
  /\ tasked = Context
  /\ era = [k \in Context |-> 0]
  /\ drawn = {}
-----------------------------------------------------------------------------
(* Next.                                                                    *)

\* External: the goroutine holds a PDU of a tasked context.
Match(w, k) ==
  /\ call[w] = Idle
  /\ matched < MaxPDUs
  /\ k \in tasked
  /\ matched' = matched + 1
  /\ call' = [call EXCEPT ![w] = [at |-> "next", pdu |-> matched', ctx |-> k,
                                  begun |-> era[k]]]
  /\ UNCHANGED <<counters, cells, tasked, era, drawn>>

\* The look under the read lock.
Lookup(w) ==
  LET k == call[w].ctx IN
  /\ call[w].at = "next"
  /\ call' = [call EXCEPT ![w] =
       IF counters[k] = NoCell THEN [@ EXCEPT !.at = "create"]
       ELSE [at |-> "add", pdu |-> @.pdu, ctx |-> k, begun |-> @.begun, cell |-> counters[k]]]
  /\ UNCHANGED <<counters, cells, matched, tasked, era, drawn>>

\* Next returns n, the number of the PDU that Attributes is building.
Return(w, n) ==
  /\ call' = [call EXCEPT ![w] = [at |-> "framed", pdu |-> @.pdu, ctx |-> @.ctx,
                                  num |-> n]]
  /\ drawn' = drawn \cup {[pdu |-> call[w].pdu, ctx |-> call[w].ctx, num |-> n,
                           begun |-> call[w].begun, ended |-> era[call[w].ctx]]}
  /\ UNCHANGED matched

\* c.Add(1) - 1, on the counter c points at.
Add(w, c) ==
  /\ cells' = [cells EXCEPT ![c] = (@ + 1) % Modulus]
  /\ Return(w, cells[c])
  /\ UNCHANGED counters

\* A counter that has handed out zero enters the map.
Create(w, first) ==
  /\ cells' = Append(cells, first % Modulus)
  /\ counters' = [counters EXCEPT ![call[w].ctx] = Len(cells) + 1]
  /\ Return(w, 0)

addFound(w) ==
  /\ call[w].at = "add"
  /\ Add(w, call[w].cell)
  /\ UNCHANGED <<tasked, era>>

\* Mutant of lookAgain: the new counter starts at the number that was just
\* handed out.
lookAgainFromZero(w) ==
  LET c == counters[call[w].ctx] IN IF c = NoCell THEN Create(w, 0) ELSE Add(w, c)

\* Under the lock the map is read again: another goroutine may have created
\* the counter since.
lookAgain(w) ==
  LET c == counters[call[w].ctx] IN IF c = NoCell THEN Create(w, 1) ELSE Add(w, c)

create(w) ==
  /\ call[w].at = "create"
  /\ lookAgain(w)
  /\ UNCHANGED <<tasked, era>>
-----------------------------------------------------------------------------
(* Forget and ForgetContext, from the hooks that end a task or a session.   *)

\* The entries in ks leave the map; the tasking that ended covers gone.
Drop(ks, gone) ==
  /\ gone \cap tasked # {}
  /\ \A k \in gone : era[k] < MaxForgets
  /\ counters' = [k \in Context |-> IF k \in ks THEN NoCell ELSE counters[k]]
  /\ tasked' = tasked \ gone
  /\ era' = [k \in Context |-> IF k \in gone THEN era[k] + 1 ELSE era[k]]
  /\ UNCHANGED <<cells, call, matched, drawn>>

Under(x) == {k \in Context : k[1] = x}

\* Mutant of Forget: the scan stops at the first entry it finds.
ForgetFirst(x) ==
  LET found == {k \in Under(x) : counters[k] # NoCell}
      first == IF found = {} THEN {} ELSE {CHOOSE k \in found : TRUE}
  IN Drop(first, Under(x))

Forget(x) == Drop(Under(x), Under(x))

\* Mutant of ForgetContext: it releases by XID.
ForgetContextByXID(k) == Drop(Under(k[1]), {k})

ForgetContext(k) == Drop({k}, {k})

\* External: interception is ordered again under the same XID.
Retask(k) ==
  /\ k \notin tasked
  /\ tasked' = tasked \cup {k}
  /\ UNCHANGED <<counters, cells, call, matched, era, drawn>>
-----------------------------------------------------------------------------
(* Properties.                                                              *)

SeqTypeOK ==
  /\ \A k \in Context : counters[k] = NoCell \/ counters[k] \in DOMAIN cells
  /\ cells \in Seq(0 .. Modulus - 1)
  /\ \A w \in Worker :
       /\ call[w].at \in {"idle", "next", "create", "add", "framed"}
       /\ call[w].at # "idle" => call[w].ctx \in Context
       /\ call[w].at = "add" => call[w].cell \in DOMAIN cells
       /\ call[w].at = "framed" => call[w].num \in 0 .. Modulus - 1
  /\ matched \in 0 .. MaxPDUs
  /\ tasked \subseteq Context
  /\ era \in [Context -> 0 .. MaxForgets]

\* The numbers drawn for a context between two of its Forgets, by PDUs that
\* were matched since the first, and by PDUs in flight across it.
Within(k, e) == {d \in drawn : d.ctx = k /\ d.begun = e /\ d.ended = e}
Across(k, e) == {d \in drawn : d.ctx = k /\ d.begun < e /\ d.ended = e}

\* How often v occurs among the first n numbers of a sequence from zero.
Occurs(v, n) == Cardinality({j \in 0 .. n - 1 : j % Modulus = v})

(* While a context is not forgotten its PDUs are numbered from zero in      *)
(* steps of one, wrapping at the width of the field, with no number twice   *)
(* and none left out, however many goroutines number at once, whichever of  *)
(* them creates the counter, and whatever other contexts of the same XID    *)
(* are forgotten meanwhile.  After a Forget the PDUs that were in flight    *)
(* across it may take numbers of the new sequence, and they are all that    *)
(* may be missing from it.                                                  *)
ContextNumbering ==
  \A k \in Context, e \in 0 .. MaxForgets, v \in 0 .. Modulus - 1 :
    LET all == Cardinality(Within(k, e)) + Cardinality(Across(k, e)) IN
    Cardinality({d \in Within(k, e) : d.num = v}) <= Occurs(v, all)

(* Numbering state does not outlive the tasking it belongs to: a context    *)
(* that is no longer tasked has a counter only where a PDU was in flight    *)
(* across its Forget, matched before it and numbered after it.              *)
CountersFollowTasking ==
  \A k \in Context :
    counters[k] # NoCell /\ k \notin tasked =>
      \E d \in drawn : d.ctx = k /\ d.ended = era[k] /\ d.begun < d.ended
=============================================================================
