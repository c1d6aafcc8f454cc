------------------------------ MODULE MCTasking ------------------------------
(* Instances of Tasking: the messages, one of each way an identifier can be *)
(* right or wrong, alone and beside a second.                               *)
EXTENDS Tasking

Only(a, v) == [b \in {a} |-> v]
Plain(arms) == [arms |-> arms, extension |-> <<>>]
LIT3(owner, members) ==
  [arms |-> <<>>, extension |-> <<[owner |-> owner, members |-> members]>>]
FTEID(teid, v4, v6) == Only("FTEID", [teid |-> teid, ipv4 |-> v4, ipv6 |-> v6])

value(a) ==
  CASE a = "ipv4Address" -> "10.0.0.1"
    [] a = "ipv6Address" -> "2001:db8::1"
    [] a \in {"tcpPort", "udpPort"} -> "443"
    [] OTHER -> "1"

PlainIdentifiers ==
  {Plain(Only(a, value(a))) : a \in Elements(PlainArms)}
  \cup {Plain(Only(a, "none")) : a \in {"ipv4Address", "ipv6Address", "tcpPort", "udpPort"}}
  \cup {Plain(Only("ipv4Address", "2001:db8::1")), Plain(Only("ipv6Address", "10.0.0.1"))}
  \cup {Plain(<<>>), Plain([imsi |-> "1", gtpuTunnelId |-> "1"]),
        Plain([supiimsi |-> "1", imsi |-> "2"])}
  \cup {Plain([gtpuTunnelId |-> n]) : n \in {"007", "4294967296", "1@10.0.0.1", "none"}}

Member ==
  {Only("FSEID", n) : n \in {"0", "1", "007", "4294967296", "none"}}
  \cup {Only(a, n) : a \in {"PDRID", "QERID"}, n \in {"0", "1", "007", "4294967296"}}
  \cup {Only(a, v) : a \in {"NetworkInstance", "PDR"}, v \in {"AB", "ab"}}
  \cup {Only("GTPTunnelDirection", v) : v \in {"Outbound", "both"}}
  \cup {FTEID("1", "", ""), FTEID("1", "10.0.0.1", ""), FTEID("1", "", "2001:db8::1"),
        FTEID("1", "", "2001:0db8:...:0001"), FTEID("1", "10.0.0.1", "2001:db8::1"),
        FTEID("1", "", "::ffff:10.0.0.1"), FTEID("007", "10.0.0.1", ""),
        FTEID("4294967296", "10.0.0.1", "")}
  \cup {<<>>, [PDRID |-> "0", QERID |-> "1"]}

ExtensionIdentifiers ==
  {LIT3("3GPP", <<m>>) : m \in Member}
  \cup {LIT3("3GPP", <<Only("QERID", "1"), m>>) :
           m \in {Only("FSEID", "0"), Only("FSEID", "1"), FTEID("1", "10.0.0.1", ""), Only("PDR", "AB")}}
  \cup {LIT3("ETSI", <<Only("PDRID", "0")>>), LIT3("3GPP", <<>>),
        [LIT3("3GPP", <<Only("PDRID", "0")>>) EXCEPT !.arms = [imsi |-> "1"]]}

Identifiers == PlainIdentifiers \cup ExtensionIdentifiers

Details(ids) ==
  [targetIdentifiers |-> ids, deliveryType |-> "X2Only", correlationID |-> "",
   unsupported |-> FALSE, extensions |-> <<>>]

base == Details(<<Plain([imsi |-> "1"])>>)
scoped(e) == [base EXCEPT !.extensions = <<e>>]
association == [owner |-> "3GPP", content |-> {"IdentifierAssociation"}, events |-> "All"]

Messages ==
  {Details(<<>>)}
  \cup {Details(<<i>>) : i \in Identifiers}
  \cup {Details(<<Plain([e164Number |-> "1"]), i>>) :
           i \in {LIT3("3GPP", <<Only("PDRID", "0"), Only("QERID", "1")>>), LIT3("ETSI", <<Only("PDRID", "0")>>),
                 Plain([e164Number |-> "1"]), Plain([gpsiMsisdn |-> "2"]), Plain(<<>>)}}
  \cup {[base EXCEPT !.correlationID = c] : c \in {"7", "text"}}
  \cup {[base EXCEPT !.deliveryType = d] : d \in {"X3Only", "X2andX3", "?"}}
  \cup {[base EXCEPT !.unsupported = TRUE]}
  \cup {scoped(association), scoped([association EXCEPT !.events = "IdentifierAssociation"]),
        scoped([association EXCEPT !.events = "none"]), scoped([association EXCEPT !.owner = "ETSI"]),
        scoped([association EXCEPT !.content = @ \cup {"Other"}])}

\* The tasks and criteria the messages make.
Tasks == {taskFromDetails(td) : td \in {m \in Messages : accepts(m)}}
Criteria == UNION {t.targets : t \in Tasks} \cup {Criterion("PDRID", "5", "")}
=============================================================================
