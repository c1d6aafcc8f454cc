---------------------------- MODULE DeliveryClient ----------------------------
(****************************************************************************)
(* x2x3.Client: delivery of product units (PDUs) to one mediation function  *)
(* over one connection at a time, with a single redial after a failed       *)
(* write, and the keepalive mechanism that runs two goroutines beside every *)
(* connection.  A dropped connection's goroutines are told to stop and not  *)
(* waited for, so they outlive it and run against its replacement.          *)
(*                                                                          *)
(* mu is held across every dial and write, and what the code records about  *)
(* reachability outside it is a step of its own.  What a goroutine does     *)
(* where nobody can see it is part of its next step.  The mediation         *)
(* function, the network and the timers are external: a write to a          *)
(* connection that has been through an outage may stop anywhere, and        *)
(* TIME_P2 runs out on a connection whose peer is not answering or that has *)
(* been dropped.                                                            *)
(****************************************************************************)
EXTENDS Integers, Sequences, FiniteSets

CONSTANTS
  Sender,        \* goroutines in Send or SendBatch
  Closer,        \* goroutines in Close
  NoProc,        \* mu is free
  Conn,          \* connections that may exist at once, their goroutines included
  NoConn,        \* no connection is held
  Message,       \* what is sent: [boundaries, total]
  MaxKeepalive,  \* bound: the Keepalives sent on one connection
  Disabled       \* KeepaliveConfig.Disabled

Proc == Sender \cup Closer

(* boundaries are the offsets at which each unit ends, or empty for a       *)
(* single unit.                                                             *)
ASSUME ClientAssumption ==
  /\ Closer \cap Sender = {}
  /\ NoProc \notin Proc
  /\ NoConn \notin Conn
  /\ MaxKeepalive \in Nat
  /\ Disabled \in BOOLEAN
  /\ \A m \in Message :
       /\ m.total \in Nat \ {0}
       /\ m.boundaries \in Seq(1 .. m.total)
       /\ \A i \in 1 .. Len(m.boundaries) - 1 : m.boundaries[i] < m.boundaries[i + 1]
       /\ m.boundaries # <<>> => m.boundaries[Len(m.boundaries)] = m.total

VARIABLES
  mdf,          \* external: what the mediation function does with a client
  mu,           \* who holds the client's mutex
  live,         \* the connection held
  closed,       \* Close was called
  unreachable,  \* what the last exchange established, as Unreachable answers
  conn,         \* Conn -> connState
  pc,           \* where each caller is
  sending,      \* Sender -> its message
  rest,         \* Sender -> what resumeAt made of a partial write
  answer,       \* Sender -> what deliver returned
  taken,        \* history: how often each unit of its message was written whole
  misread       \* history: some peer read bytes that are not whole units

vars == <<mdf, mu, live, closed, unreachable, conn, pc, sending, rest, answer,
          taken, misread>>
callers == <<pc, sending, rest, answer, taken>>
-----------------------------------------------------------------------------
(* Units and bytes.                                                         *)

\* The offset at which each unit of m ends.
Ends(m) == IF m.boundaries = <<>> THEN <<m.total>> ELSE m.boundaries

Units(m) == 1 .. Len(Ends(m))

StartOf(m, i) == IF i = 1 THEN 0 ELSE Ends(m)[i - 1]

\* The units that n bytes written from an offset on contain whole.
WholeIn(m, from, n) ==
  {i \in Units(m) : from <= StartOf(m, i) /\ Ends(m)[i] <= from + n}

AtUnitStart(m, offset) == offset = m.total \/ \E i \in Units(m) : offset = StartOf(m, i)

\* Mutants of resumeAt: the whole buffer is sent again; the unit the write
\* stopped in is skipped.
resumeAtStart(m, written) == [from |-> 0, resuming |-> written > 0]
resumeAtNext(m, written) ==
  LET over == {i \in Units(m) : Ends(m)[i] >= written}
      next == CHOOSE i \in over : \A j \in over : i <= j
  IN IF written <= 0 THEN [from |-> 0, resuming |-> FALSE]
     ELSE [from |-> Ends(m)[next], resuming |-> Ends(m)[next] # written]

(* Where a retry resumes after `written` bytes, and whether a unit was left *)
(* half written.                                                            *)
resumeAt(m, written) ==
  LET ends == m.boundaries
      next == CHOOSE i \in 1 .. Len(ends) :
                /\ ends[i] >= written
                /\ \A j \in 1 .. i - 1 : ends[j] < written
  IN CASE written <= 0 -> [from |-> 0, resuming |-> FALSE]
       [] written >= m.total -> [from |-> m.total, resuming |-> FALSE]
       [] OTHER ->
            IF ends = <<>> THEN [from |-> 0, resuming |-> TRUE]
            ELSE IF ends[next] = written THEN [from |-> written, resuming |-> FALSE]
            ELSE [from |-> StartOf(m, next), resuming |-> TRUE]

NoMessage == [boundaries |-> <<>>, total |-> 0]
NoRest == [from |-> 0, resuming |-> FALSE]
NotTaken(m) == [i \in Units(m) |-> 0]
-----------------------------------------------------------------------------
(* Connections.                                                             *)

\* loop and reader say where the two goroutines of a connection are, "off"
\* once they have ended; highest is -1 until something was acknowledged;
\* overdue says that the TIME_P2 timer has run out and was not reset since.
\* sound, torn and seen are the outside's: neither an outage nor a close
\* since the dial, the last write stopped inside a unit, the Keepalives the
\* peer has had.
Unused ==
  [loop |-> "off", reader |-> "off", stop |-> TRUE, issued |-> 0, highest |-> -1,
   acks |-> FALSE, overdue |-> FALSE, sound |-> FALSE, torn |-> FALSE, seen |-> 0]

Fresh ==
  [Unused EXCEPT !.loop = IF Disabled THEN "off" ELSE "select",
                 !.reader = IF Disabled THEN "off" ELSE "read",
                 !.stop = FALSE, !.sound = TRUE]

Free == {c \in Conn : c # live /\ conn[c].loop = "off" /\ conn[c].reader = "off"}

\* The bytes a write to connection c may report written; all of them unless
\* the connection has seen an outage.
Written(c, n) == IF conn[c].sound THEN {} ELSE 0 .. n

(* A mediation function answers; or it accepts connections and acknowledges *)
(* nothing, as one without its half of clause 6.2.4; or it is gone.         *)
MDF == {"answers", "silent", "gone"}

\* dialLocked, from connection states cs.  It succeeds where there is one to
\* accept, and fails where it is gone; one that is silent may do either.
\* A client out of connections is one too many for the bound.
dialSucceeds(cs) ==
  /\ mdf # "gone"
  /\ \E c \in Free : conn' = [cs EXCEPT ![c] = Fresh] /\ live' = c

dialFails(cs) ==
  /\ mdf # "answers" \/ Free = {}
  /\ conn' = cs
  /\ live' = NoConn

dropLocked(cs) ==
  /\ conn' = [cs EXCEPT ![live].stop = TRUE, ![live].sound = FALSE]
  /\ live' = NoConn

\* What a peer makes of n bytes of m, from an offset on, on connection c.
Peer(s, c, from, n) ==
  LET m == sending[s] IN
  /\ taken' = [taken EXCEPT ![s] =
       [i \in DOMAIN @ |-> IF i \in WholeIn(m, from, n) THEN @[i] + 1 ELSE @[i]]]
  /\ misread' = (misread \/ (n > 0 /\ (conn[c].torn \/ ~AtUnitStart(m, from))))

Torn(s, c, from, n) == [conn EXCEPT ![c].torn = @ \/ ~AtUnitStart(sending[s], from + n)]
-----------------------------------------------------------------------------
(* Send and SendBatch.  A unit that cannot be marshalled is left out of the *)
(* message; its error is returned after the rest has been delivered.        *)

SendBatch(s, m) ==
  /\ pc[s] = "idle"
  /\ pc' = [pc EXCEPT ![s] = "deliver"]
  /\ sending' = [sending EXCEPT ![s] = m]
  /\ taken' = [taken EXCEPT ![s] = NotTaken(m)]
  /\ UNCHANGED <<mdf, mu, live, closed, unreachable, conn, rest, answer, misread>>

\* deliver returns, and its deferred unlock runs; sendBytes has yet to record
\* what it returned.
Return(s, result) ==
  /\ mu' = NoProc
  /\ pc' = [pc EXCEPT ![s] = "record"]
  /\ rest' = [rest EXCEPT ![s] = NoRest]
  /\ answer' = [answer EXCEPT ![s] = result]

Continue(s, at) == pc' = [pc EXCEPT ![s] = at] /\ UNCHANGED <<mu, answer>>

\* Mutant of deliver: Close is not noticed.
deliverAfterClose(s) ==
  /\ pc[s] = "deliver"
  /\ mu = NoProc
  /\ mu' = s
  /\ pc' = [pc EXCEPT ![s] = IF live = NoConn THEN "dial" ELSE "write"]
  /\ UNCHANGED <<mdf, live, closed, unreachable, conn, sending, rest, answer, taken, misread>>

deliver(s) ==
  /\ pc[s] = "deliver"
  /\ mu = NoProc
  /\ IF closed THEN Return(s, "failed")
     ELSE /\ mu' = s
          /\ pc' = [pc EXCEPT ![s] = IF live = NoConn THEN "dial" ELSE "write"]
          /\ UNCHANGED <<rest, answer>>
  /\ UNCHANGED <<mdf, live, closed, unreachable, conn, sending, taken, misread>>

dial(s) ==
  /\ pc[s] = "dial"
  /\ \/ dialSucceeds(conn) /\ Continue(s, "write") /\ UNCHANGED rest
     \/ dialFails(conn) /\ Return(s, "failed")
  /\ UNCHANGED <<mdf, closed, unreachable, sending, taken, misread>>

write(s) ==
  LET m == sending[s] IN
  /\ pc[s] = "write"
  /\ \/ /\ Peer(s, live, 0, m.total)
        /\ conn' = Torn(s, live, 0, m.total)
        /\ Return(s, "ok")
        /\ UNCHANGED live
     \/ \E n \in Written(live, m.total) :
          /\ Peer(s, live, 0, n)
          /\ rest' = [rest EXCEPT ![s] = resumeAt(m, n)]
          /\ dropLocked(Torn(s, live, 0, n))
          /\ Continue(s, "redial")
  /\ UNCHANGED <<mdf, closed, unreachable, sending>>

redial(s) ==
  /\ pc[s] = "redial"
  /\ \/ /\ dialSucceeds(conn)
        /\ IF rest[s].from = sending[s].total THEN Return(s, "ok")
           ELSE Continue(s, "rewrite") /\ UNCHANGED rest
     \/ dialFails(conn) /\ Return(s, "failed")
  /\ UNCHANGED <<mdf, closed, unreachable, sending, taken, misread>>

\* The resend; landed says that part of the message went out whole before.
rewrite(s) ==
  LET m == sending[s]
      from == rest[s].from
      landed == from > 0
  IN /\ pc[s] = "rewrite"
     /\ \/ /\ Peer(s, live, from, m.total - from)
           /\ conn' = Torn(s, live, from, m.total - from)
           /\ Return(s, "ok")
           /\ UNCHANGED live
        \/ \E n \in Written(live, m.total - from) :
             /\ Peer(s, live, from, n)
             /\ dropLocked(Torn(s, live, from, n))
             /\ Return(s, IF rest[s].resuming /\ landed THEN "unitDropped" ELSE "failed")
     /\ UNCHANGED <<mdf, closed, unreachable, sending>>

\* Mutant of sendBytes: a success does not lift an earlier conclusion.
sendBytesFailure(s) ==
  /\ pc[s] = "record"
  /\ unreachable' = (unreachable \/ answer[s] = "failed")
  /\ pc' = [pc EXCEPT ![s] = "idle"]
  /\ sending' = [sending EXCEPT ![s] = NoMessage]
  /\ taken' = [taken EXCEPT ![s] = NotTaken(NoMessage)]
  /\ answer' = [answer EXCEPT ![s] = "none"]
  /\ UNCHANGED <<mdf, mu, live, closed, conn, rest, misread>>

\* sendBytes, after deliver has released mu, and the return to the caller.
sendBytes(s) ==
  /\ pc[s] = "record"
  /\ unreachable' = (answer[s] = "failed")
  /\ pc' = [pc EXCEPT ![s] = "idle"]
  /\ sending' = [sending EXCEPT ![s] = NoMessage]
  /\ taken' = [taken EXCEPT ![s] = NotTaken(NoMessage)]
  /\ answer' = [answer EXCEPT ![s] = "none"]
  /\ UNCHANGED <<mdf, mu, live, closed, conn, rest, misread>>
-----------------------------------------------------------------------------
(* Close.                                                                   *)

\* Mutant of Close: the wait happens under mu.
CloseWaitsUnderMu(k) ==
  /\ pc[k] = "idle"
  /\ mu = NoProc
  /\ closed' = TRUE
  /\ IF live = NoConn
     THEN pc' = [pc EXCEPT ![k] = "closed"] /\ UNCHANGED <<conn, live, mu>>
     ELSE dropLocked(conn) /\ pc' = [pc EXCEPT ![k] = live] /\ mu' = k
  /\ UNCHANGED <<mdf, unreachable, sending, rest, answer, taken, misread>>

Close(k) ==
  /\ pc[k] = "idle"
  /\ mu = NoProc
  /\ closed' = TRUE
  /\ IF live = NoConn
     THEN pc' = [pc EXCEPT ![k] = "closed"] /\ UNCHANGED <<conn, live>>
     ELSE dropLocked(conn) /\ pc' = [pc EXCEPT ![k] = live]
  /\ UNCHANGED <<mdf, mu, unreachable, sending, rest, answer, taken, misread>>

\* wg.Wait, for the two goroutines of the connection that was held.
closeWaits(k) ==
  LET c == pc[k] IN
  /\ c \in Conn
  /\ conn[c].loop = "off" /\ conn[c].reader = "off"
  /\ pc' = [pc EXCEPT ![k] = "closed"]
  /\ UNCHANGED <<mdf, mu, live, closed, unreachable, conn, sending, rest, answer,
                 taken, misread>>
-----------------------------------------------------------------------------
(* keepaliveLoop.                                                           *)

\* Once both goroutines have ended nothing of the connection is left.
Loop(c, at) ==
  conn' = [conn EXCEPT ![c] = IF at = "off" /\ conn[c].reader = "off" THEN Unused
                              ELSE [@ EXCEPT !.loop = at]]

\* The select finds stop closed, or an acknowledgement, which restarts
\* TIME_P2.  Of the cases that are ready any may be the one chosen.
keepaliveLoop(c) ==
  /\ conn[c].loop = "select"
  /\ \/ conn[c].stop /\ Loop(c, "off")
     \/ conn[c].acks /\ conn' = [conn EXCEPT ![c].acks = FALSE, ![c].overdue = FALSE]
  /\ UNCHANGED <<mdf, mu, live, closed, unreachable, callers, misread>>

\* Mutant of Stale: any connection will do.
StaleIfNone(c) == live = NoConn

Stale(c) == live # c

\* The ticker: sendKeepalive takes a number and writeOn writes it, to the
\* connection that is held.
sendKeepalive(c) ==
  /\ conn[c].loop = "select"
  /\ conn[c].issued < MaxKeepalive
  /\ mu = NoProc
  /\ LET taking == [conn EXCEPT ![c].issued = @ + 1] IN
     \/ Stale(c) /\ Loop(c, "off") /\ UNCHANGED <<live, misread>>
     \/ /\ ~Stale(c)
        /\ conn' = [taking EXCEPT ![live].seen = @ + 1]
        /\ misread' = (misread \/ conn[live].torn \/ conn[live].seen # conn[c].issued)
        /\ UNCHANGED live
     \/ /\ ~Stale(c)
        /\ Written(live, 1) # {}
        /\ dropLocked([taking EXCEPT ![c].loop = "unwritten"])
        /\ UNCHANGED misread
  /\ UNCHANGED <<mdf, mu, closed, unreachable, callers>>

\* ... and what it concludes of a failed write once mu is released.
keepaliveFailed(c) ==
  /\ conn[c].loop = "unwritten"
  /\ Loop(c, "off")
  /\ unreachable' = TRUE
  /\ UNCHANGED <<mdf, mu, live, closed, callers, misread>>

\* Mutant of expiry: the fault is recorded and the connection kept.
expiryKeepsConn(c) ==
  /\ conn[c].loop = "select"
  /\ conn[c].overdue
  /\ Loop(c, "off")
  /\ unreachable' = TRUE
  /\ UNCHANGED <<mdf, mu, live, closed, callers, misread>>

\* TIME_P2 has run out: expire records it before it waits for mu ...
expiry(c) ==
  /\ conn[c].loop = "select"
  /\ conn[c].overdue
  /\ Loop(c, "expired")
  /\ unreachable' = TRUE
  /\ UNCHANGED <<mdf, mu, live, closed, callers, misread>>

\* ... then disconnects, reconnects once, reports and ends.
expire(c) ==
  /\ conn[c].loop = "expired"
  /\ mu = NoProc
  /\ IF Stale(c) THEN Loop(c, "off") /\ UNCHANGED live
     ELSE LET dropped == [conn EXCEPT ![c].loop = "off", ![c].stop = TRUE, ![c].sound = FALSE]
          IN dialSucceeds(dropped) \/ dialFails(dropped)
  /\ UNCHANGED <<mdf, mu, closed, unreachable, callers, misread>>
-----------------------------------------------------------------------------
(* readLoop.  Bytes read before the connection was closed are still acted   *)
(* on after it.                                                             *)

Reader(c, at) ==
  conn' = [conn EXCEPT ![c] = IF at = "off" /\ conn[c].loop = "off" THEN Unused
                              ELSE [@ EXCEPT !.reader = at]]

readLoopEnds(c) ==
  /\ conn[c].reader = "read"
  /\ ~conn[c].sound
  /\ Reader(c, "off")
  /\ UNCHANGED <<mdf, mu, live, closed, unreachable, callers, misread>>

\* keepaliveCounter.accept
accept(c, seq) == seq < conn[c].issued /\ seq > conn[c].highest

\* An acknowledgement.  One that is not accepted changes nothing.
handleInbound(c) ==
  /\ conn[c].reader = "read"
  /\ mu = NoProc
  /\ \E seq \in 0 .. MaxKeepalive :
       /\ accept(c, seq)
       /\ conn' = [conn EXCEPT ![c].highest = seq, ![c].acks = TRUE]
  /\ unreachable' = IF Stale(c) THEN unreachable ELSE FALSE
  /\ UNCHANGED <<mdf, mu, live, closed, callers, misread>>

\* The peer's own Keepalive is answered on the connection it came in on; a
\* failed answer drops the connection and concludes nothing.
answerKeepalive(c) ==
  /\ conn[c].reader = "read"
  /\ mu = NoProc
  /\ \/ Stale(c) /\ Reader(c, "off") /\ UNCHANGED <<live, misread>>
     \/ /\ ~Stale(c)
        /\ misread' = (misread \/ conn[live].torn)
        /\ UNCHANGED <<conn, live>>
     \/ /\ ~Stale(c)
        /\ Written(live, 1) # {}
        /\ dropLocked([conn EXCEPT ![c].reader = "off"])
        /\ UNCHANGED misread
  /\ UNCHANGED <<mdf, mu, closed, unreachable, callers>>

\* Something that is not X2/X3 arrives, over-large, undecodable or product:
\* protocolError records it before it waits for mu ...
receiveForeign(c) ==
  /\ conn[c].reader = "read"
  /\ mdf # "answers"
  /\ Reader(c, "protocolError")
  /\ unreachable' = TRUE
  /\ UNCHANGED <<mdf, mu, live, closed, callers, misread>>

\* ... then drops the connection if it is still held, reports and ends.
protocolError(c) ==
  /\ conn[c].reader = "protocolError"
  /\ mu = NoProc
  /\ IF Stale(c) THEN Reader(c, "off") /\ UNCHANGED live
     ELSE dropLocked([conn EXCEPT ![c].reader = "off"])
  /\ UNCHANGED <<mdf, mu, closed, unreachable, callers, misread>>
-----------------------------------------------------------------------------
(* The mediation function stops answering, and every connection has been    *)
(* through it; or it goes, comes back, or answers again.                    *)
Outage ==
  /\ mdf' \in MDF \ {mdf}
  /\ conn' = [c \in Conn |-> [conn[c] EXCEPT !.sound = @ /\ mdf' = "answers"]]
  /\ UNCHANGED <<mu, live, closed, unreachable, callers, misread>>

\* TIME_P2 passes without an acknowledgement.
TimeP2(c) ==
  /\ conn[c].loop # "off"
  /\ mdf # "answers" \/ conn[c].stop
  /\ conn' = [conn EXCEPT ![c].overdue = TRUE]
  /\ UNCHANGED <<mdf, mu, live, closed, unreachable, callers, misread>>

Init ==
  /\ mdf \in MDF
  /\ mu = NoProc
  /\ live = NoConn
  /\ closed = FALSE
  /\ unreachable = FALSE
  /\ conn = [c \in Conn |-> Unused]
  /\ pc = [p \in Proc |-> "idle"]
  /\ sending = [s \in Sender |-> NoMessage]
  /\ rest = [s \in Sender |-> NoRest]
  /\ answer = [s \in Sender |-> "none"]
  /\ taken = [s \in Sender |-> NotTaken(NoMessage)]
  /\ misread = FALSE

SenderStep(s) ==
  \/ deliver(s) \/ dial(s) \/ write(s) \/ redial(s) \/ rewrite(s)
  \/ sendBytes(s)

LoopStep(c) ==
  \/ keepaliveLoop(c) \/ sendKeepalive(c) \/ keepaliveFailed(c)
  \/ expiry(c) \/ expire(c)

ReaderStep(c) ==
  \/ readLoopEnds(c) \/ handleInbound(c) \/ answerKeepalive(c)
  \/ receiveForeign(c) \/ protocolError(c)

Next ==
  \/ \E s \in Sender : SenderStep(s) \/ \E m \in Message : SendBatch(s, m)
  \/ \E k \in Closer : Close(k) \/ closeWaits(k)
  \/ \E c \in Conn : LoopStep(c) \/ ReaderStep(c) \/ TimeP2(c)
  \/ Outage

Spec == Init /\ [][Next]_vars

(* Goroutines run, and sync.Mutex starves none of those that wait for it;   *)
(* TIME_P2 passes.  Nothing is assumed of outages, of what is sent or of    *)
(* what the peer sends.                                                     *)
FairSpec ==
  /\ Spec
  /\ \A s \in Sender : SF_vars(SenderStep(s))
  /\ \A k \in Closer : WF_vars(closeWaits(k))
  /\ \A c \in Conn : /\ SF_vars(LoopStep(c))
                     /\ SF_vars(ReaderStep(c))
                     /\ WF_vars(TimeP2(c))
-----------------------------------------------------------------------------
ConnState ==
  [loop : {"off", "select", "unwritten", "expired"},
   reader : {"off", "read", "protocolError"},
   stop : BOOLEAN, issued : 0 .. MaxKeepalive, highest : -1 .. MaxKeepalive,
   acks : BOOLEAN, overdue : BOOLEAN, sound : BOOLEAN, torn : BOOLEAN,
   seen : 0 .. MaxKeepalive]

Holding == {"dial", "write", "redial", "rewrite"}

(* Every variable has its type; in particular a closer waits for the        *)
(* goroutines of a connection there was, never of none (Close returns at    *)
(* once when nothing is held).                                              *)
TypeOK ==
  /\ mdf \in MDF /\ closed \in BOOLEAN
  /\ unreachable \in BOOLEAN /\ misread \in BOOLEAN
  /\ mu \in Sender \cup {NoProc}
  /\ live \in Conn \cup {NoConn}
  /\ conn \in [Conn -> ConnState]
  /\ DOMAIN pc = Proc
  /\ \A s \in Sender : pc[s] \in Holding \cup {"idle", "deliver", "record"}
  /\ \A k \in Closer : pc[k] \in {"idle", "closed"} \cup Conn
  /\ sending \in [Sender -> Message \cup {NoMessage}]
  /\ rest \in [Sender -> [from : Nat, resuming : BOOLEAN]]
  /\ answer \in [Sender -> {"none", "ok", "failed", "unitDropped"}]
  /\ taken = [s \in Sender |-> taken[s]]
  /\ \A s \in Sender : taken[s] \in [Units(sending[s]) -> Nat]

(* A retry never delivers a unit a second time, wherever the failed write   *)
(* stopped: duplicate product under one warrant.                            *)
NeverTwice == \A s \in Sender : \A i \in DOMAIN taken[s] : taken[s][i] <= 1

(* Product is not lost quietly: a delivery that returns no error wrote      *)
(* every unit whole, on the first connection or on the second.              *)
OkIsDelivered ==
  \A s \in Sender : answer[s] = "ok" => \A i \in DOMAIN taken[s] : taken[s][i] = 1

(* Every peer reads whole units from the first byte on, and Keepalives      *)
(* numbered from zero without a gap: nothing is written after a partial     *)
(* unit, no stream starts inside one, and no Keepalive goes out on another  *)
(* connection than the one it was numbered for.                             *)
PeersReadWholeUnits == ~misread

(* No connection is held once Close has begun, whichever redial was under   *)
(* way.                                                                     *)
ClosedHoldsNothing == closed => live = NoConn

(* Close returns, although the goroutines it waits for take the client's    *)
(* mutex.                                                                   *)
CloseReturns == \A k \in Closer : pc[k] \in Conn ~> pc[k] = "closed"

\* The element keeps sending.
KeepsSending == []<>(\E s \in Sender : pc[s] = "record")

(* A mediation function that has gone is noticed, although writes into the  *)
(* dead connection keep succeeding: the client comes to say unreachable and *)
(* says so from then on.  One that still accepts connections and never      *)
(* acknowledges is noticed again and again for as long as there is one to   *)
(* it: each delivery over the connection expire redials says otherwise.     *)
DeadMDFIsNoticed ==
  ~Disabled =>
    /\ <>[](mdf = "gone") /\ KeepsSending => <>[]unreachable
    /\ <>[](mdf = "silent") /\ []<>(live # NoConn) => []<>unreachable

(* One that is back is noticed too: no conclusion that an old connection's  *)
(* goroutine reached late stays on the client for ever.                     *)
RecoveryIsNoticed == <>[](mdf = "answers" /\ ~closed) /\ KeepsSending => <>[]~unreachable
=============================================================================
