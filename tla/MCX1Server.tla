----------------------------- MODULE MCX1Server -----------------------------
(* Instances of X1Server.  Two requests run at once, against the watchdog.  *)
EXTENDS X1Server, TLC

CONSTANTS t1, t2, d1, d2, a1, a2

\* Tasks that differ in their targets, in their products only, and in their
\* destinations, and details the element must refuse.  d1 is configured, d2
\* must be provisioned before it is named.
SentDetails ==
  {[targets |-> {t1}, dids |-> {d1}, products |-> {"IRI"}, check |-> "honourable"],
   [targets |-> {t1}, dids |-> {d1}, products |-> {"CC"}, check |-> "honourable"],
   [targets |-> {t2}, dids |-> {d1, d2}, products |-> {"IRI", "CC"}, check |-> "honourable"],
   [targets |-> {t1}, dids |-> {d1}, products |-> {"IRI"}, check |-> "unhonourable"]}

\* Without the X3 interface content needs; provisioned over d1 it takes the
\* one configured away.
CreatedDestinations == {[address |-> a1, serves |-> {"X2"}]}

OneConfigured ==
  [did \in DID |-> IF did = d1 THEN [address |-> a2, serves |-> {"X2", "X3"}] ELSE NoDest]
=============================================================================
