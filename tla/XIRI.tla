-------------------------------- MODULE XIRI --------------------------------
(****************************************************************************)
(* iri.EncodeXIRI: an event becomes an xIRI payload, or is refused.  An     *)
(* event is one of the seventeen records and a value for each member of it; *)
(* a payload is the members written, in order, under their tags.            *)
(*                                                                          *)
(* A member's value is abstracted to what decides its fate:                 *)
(*   absent    its Go zero: 0, "", nil, or a structure of zeros             *)
(*   empty     not nil and without content: an empty octet string or list,  *)
(*             an alternative of a CHOICE that holds its zero               *)
(*   hollow    a structure or list in which a restricted string is empty    *)
(*   legal     within the restriction of its type, not zero                 *)
(*   illegal   outside it, itself or in a member                            *)
(*   foreign   a CHOICE, or an element of a list of them, that holds        *)
(*             something which is not an alternative                        *)
(****************************************************************************)
EXTENDS Naturals, Sequences, SequencesExt

-----------------------------------------------------------------------------
(* The records: the members, with their tags, types and presence.           *)

Req(tag, type) == [tag |-> tag, type |-> type, optional |-> FALSE]
Opt(tag, type) == [tag |-> tag, type |-> type, optional |-> TRUE]

AMFRegistration ==
  <<Req(1, "AMFRegistrationType"), Req(2, "AMFRegistrationResult"), Req(4, "SUPI"),
    Opt(5, "SUCI"), Opt(6, "PEI"), Opt(7, "GPSI"), Req(8, "FiveGGUTI"),
    Opt(11, "TAIList"), Opt(18, "RATType")>>

AMFDeregistration ==
  <<Req(1, "AMFDirection"), Req(2, "AccessType"), Opt(3, "SUPI"), Opt(4, "SUCI"),
    Opt(5, "PEI"), Opt(6, "GPSI"), Opt(7, "FiveGGUTI")>>

AMFLocationUpdate ==
  <<Req(1, "SUPI"), Opt(2, "SUCI"), Opt(3, "PEI"), Opt(4, "GPSI"), Opt(5, "FiveGGUTI"),
    Req(6, "Location")>>

AMFStartOfInterceptionWithRegisteredUE ==
  <<Req(1, "AMFRegistrationResult"), Opt(2, "AMFRegistrationType"), Req(4, "SUPI"),
    Opt(5, "SUCI"), Opt(6, "PEI"), Opt(7, "GPSI"), Req(8, "FiveGGUTI"), Opt(12, "TAIList")>>

AMFUnsuccessfulProcedure ==
  <<Req(1, "AMFFailedProcedureType"), Req(2, "AMFFailureCause"), Opt(4, "SUPI"),
    Opt(5, "SUCI"), Opt(6, "PEI"), Opt(7, "GPSI"), Opt(8, "FiveGGUTI"), Opt(9, "Location")>>

SMFPDUSessionEstablishment ==
  <<Opt(1, "SUPI"), Opt(2, "SUPIUnauthenticated"), Opt(3, "PEI"), Opt(4, "GPSI"),
    Req(5, "PDUSessionID"), Req(6, "FTEID"), Req(7, "PDUSessionType"), Opt(8, "SNSSAI"),
    Opt(9, "UEEndpoint"), Req(12, "DNN"), Opt(13, "AMFID"), Req(15, "FiveGSMRequestType"),
    Opt(16, "AccessType"), Opt(17, "RATType"), Opt(22, "SMFServingNetwork"),
    Opt(25, "GTPTunnelInfo")>>

SMFPDUSessionModification ==
  <<Opt(1, "SUPI"), Opt(2, "SUPIUnauthenticated"), Opt(3, "PEI"), Opt(4, "GPSI"),
    Opt(5, "SNSSAI"), Req(8, "FiveGSMRequestType"), Opt(9, "AccessType"),
    Opt(10, "RATType"), Opt(11, "PDUSessionID"), Opt(13, "UEEndpoint"),
    Opt(14, "SMFServingNetwork"), Opt(16, "GTPTunnelInfo")>>

SMFPDUSessionRelease ==
  <<Req(1, "SUPI"), Opt(2, "PEI"), Opt(3, "GPSI"), Req(4, "PDUSessionID"),
    Opt(7, "Volume"), Opt(8, "Volume")>>

SMFStartOfInterceptionWithEstablishedPDUSession ==
  <<Opt(1, "SUPI"), Opt(2, "SUPIUnauthenticated"), Opt(3, "PEI"), Opt(4, "GPSI"),
    Req(5, "PDUSessionID"), Req(6, "FTEID"), Req(7, "PDUSessionType"), Opt(8, "SNSSAI"),
    Req(9, "UEEndpoint"), Req(12, "DNN"), Opt(13, "AMFID"), Req(15, "FiveGSMRequestType"),
    Opt(16, "AccessType"), Opt(17, "RATType"), Opt(22, "SMFServingNetwork"),
    Opt(23, "GTPTunnelInfo")>>

SMFUnsuccessfulProcedure ==
  <<Req(1, "SMFFailedProcedureType"), Req(2, "FiveGSMCause"), Req(3, "Initiator"),
    Opt(5, "SUPI"), Opt(6, "SUPIUnauthenticated"), Opt(7, "PEI"), Opt(8, "GPSI"),
    Opt(9, "PDUSessionID"), Opt(10, "UEEndpoint"), Opt(12, "DNN"), Opt(13, "AMFID"),
    Opt(15, "FiveGSMRequestType"), Opt(16, "AccessType"), Opt(17, "RATType")>>

AMFIdentifierAssociation ==
  <<Req(1, "SUPI"), Opt(2, "SUCI"), Opt(3, "PEI"), Opt(4, "GPSI"), Req(5, "FiveGGUTI"),
    Req(6, "Location"), Opt(7, "TAIList")>>

AMFIdentifierDeassociation ==
  <<Req(1, "SUPI"), Opt(2, "SUCI"), Opt(3, "PEI"), Opt(4, "GPSI"), Req(5, "FiveGGUTI")>>

AMFUEServiceAccept ==
  <<Req(1, "UserIdentifiers"), Req(2, "ServiceMessageIdentity"), Opt(3, "ServiceType"),
    Opt(4, "FiveGTMSI")>>

AMFUEPolicyTransfer ==
  <<Req(1, "SUPI"), Opt(2, "SUCI"), Opt(3, "PEI"), Opt(4, "GPSI"), Opt(5, "FiveGGUTI"),
    Req(6, "UEPolicy")>>

AMFPositioningInfoTransfer ==
  <<Req(1, "SUPI"), Opt(2, "SUCI"), Opt(3, "PEI"), Opt(4, "GPSI"), Opt(5, "FiveGGUTI"),
    Opt(6, "Message"), Opt(7, "Message"), Req(8, "LCSCorrelationID")>>

AMFRANHandoverCommand ==
  <<Req(1, "UserIdentifiers"), Req(2, "AMFUENGAPID"), Req(3, "RANUENGAPID"),
    Req(4, "HandoverType"), Req(5, "Message")>>

AMFRANHandoverRequest ==
  <<Req(1, "UserIdentifiers"), Req(2, "AMFUENGAPID"), Req(3, "RANUENGAPID"),
    Req(4, "HandoverType"), Req(5, "HandoverCause"), Req(6, "PDUSessionResourceInformation"),
    Req(9, "Message"), Req(11, "Message")>>

\* xiriEvent: the records under their tags in the CHOICE.
xiriEvent ==
  <<[tag |-> 1, members |-> AMFRegistration],
    [tag |-> 2, members |-> AMFDeregistration],
    [tag |-> 3, members |-> AMFLocationUpdate],
    [tag |-> 4, members |-> AMFStartOfInterceptionWithRegisteredUE],
    [tag |-> 5, members |-> AMFUnsuccessfulProcedure],
    [tag |-> 6, members |-> SMFPDUSessionEstablishment],
    [tag |-> 7, members |-> SMFPDUSessionModification],
    [tag |-> 8, members |-> SMFPDUSessionRelease],
    [tag |-> 9, members |-> SMFStartOfInterceptionWithEstablishedPDUSession],
    [tag |-> 10, members |-> SMFUnsuccessfulProcedure],
    [tag |-> 62, members |-> AMFIdentifierAssociation],
    [tag |-> 111, members |-> AMFPositioningInfoTransfer],
    [tag |-> 113, members |-> AMFRANHandoverCommand],
    [tag |-> 114, members |-> AMFRANHandoverRequest],
    [tag |-> 146, members |-> AMFUEPolicyTransfer],
    [tag |-> 147, members |-> AMFUEServiceAccept],
    [tag |-> 186, members |-> AMFIdentifierDeassociation]>>

Record == DOMAIN xiriEvent
Members(r) == xiriEvent[r].members
-----------------------------------------------------------------------------
(* The types.                                                               *)

\* enumConstraints: numbered from one.
Enums ==
  {"AMFRegistrationType", "AMFRegistrationResult", "AMFDirection", "AccessType",
   "PDUSessionType", "FiveGSMRequestType", "AMFFailedProcedureType",
   "SMFFailedProcedureType", "Initiator", "HandoverType"}

\* intConstraints: ranges that hold zero.
Ranges == {"PDUSessionID", "FiveGSMCause", "AMFUENGAPID", "RANUENGAPID", "FiveGTMSI"}

ChoiceTypes ==
  {"SUPI", "PEI", "GPSI", "AMFFailureCause", "ServiceMessageIdentity", "HandoverCause"}

\* Structures, with the values they take beside absent and legal.
structures ==
  [SUCI |-> {"hollow", "illegal"}, FiveGGUTI |-> {"hollow", "illegal"},
   SMFServingNetwork |-> {"hollow", "illegal"}, FTEID |-> {"hollow", "illegal"},
   SNSSAI |-> {"hollow", "illegal"}, AMFID |-> {"illegal"},
   GTPTunnelInfo |-> {"hollow", "illegal"}, Location |-> {},
   UserIdentifiers |-> {"hollow", "illegal", "foreign"},
   PDUSessionResourceInformation |-> {"illegal"}]

\* Every value a member of a type can have, as its Go type admits it.
Values(type) ==
  {"absent", "legal"} \cup
  (CASE type \in Enums \cup Ranges \cup {"RATType", "LCSCorrelationID"} -> {"illegal"}
     [] type \in {"DNN", "Volume", "SUPIUnauthenticated"} -> {}
     [] type = "Message" -> {"empty"}
     [] type \in {"UEPolicy", "ServiceType"} -> {"empty", "illegal"}
     [] type = "ServiceMessageIdentity" -> {"empty", "foreign"}
     [] type \in ChoiceTypes \ {"ServiceMessageIdentity"} -> {"empty", "illegal", "foreign"}
     [] type = "UEEndpoint" -> {"empty", "hollow", "illegal", "foreign"}
     [] type = "TAIList" -> {"empty", "hollow", "illegal"}
     [] type \in DOMAIN structures -> structures[type])

\* mandatoryEnums: enumerations, the arms of HandoverCause among them, for
\* which zero is wrong wherever they appear.
mandatoryEnums ==
  {"HandoverType", "HandoverCause", "AMFDirection", "AMFRegistrationResult",
   "AMFFailedProcedureType", "SMFFailedProcedureType", "PDUSessionType", "Initiator"}

\* mandatoryEnumFields: those for which it is wrong in the record tagged so.
mandatoryEnumFields ==
  {<<2, "AccessType">>, <<6, "FiveGSMRequestType">>, <<7, "FiveGSMRequestType">>,
   <<9, "FiveGSMRequestType">>, <<1, "AMFRegistrationType">>}
-----------------------------------------------------------------------------
(* EncodeXIRI.  event is [record, value], value a sequence of values in the *)
(* order of the record's members.                                           *)

IsEvent(e) ==
  /\ e.record \in Record
  /\ DOMAIN e.value = DOMAIN Members(e.record)
  /\ \A i \in DOMAIN e.value : e.value[i] \in Values(Members(e.record)[i].type)

\* validateEvent, for the two records it looks at.
validateEvent(event) ==
  \A i \in DOMAIN event.value :
    Members(event.record)[i].type = "UEEndpoint" =>
      CASE xiriEvent[event.record].tag = 9 -> event.value[i] \notin {"absent", "empty"}
        [] xiriEvent[event.record].tag = 6 -> event.value[i] # "empty"
        [] OTHER -> TRUE

\* Mutant of zeroForbidden: what is mandatory in one record is mandatory
\* wherever its type appears.
zeroForbiddenByType(tag, type) ==
  type \in mandatoryEnums \/ \E f \in mandatoryEnumFields : f[2] = type

zeroForbidden(tag, type) ==
  type \in mandatoryEnums \/ <<tag, type>> \in mandatoryEnumFields

\* Types whose restriction is in none of the tables: RATType, and the
\* identities, which li/x1 looks at where they arrive.
Unlisted == {"RATType", "SUPI", "PEI", "GPSI", "UserIdentifiers"}

\* constraintOf and the walk to it.  A string without content passes as
\* absent, whoever holds it; so does the zero of an enumeration that is not
\* known to be mandatory.
constraintOf(tag, type, v) ==
  CASE v = "illegal" -> type \in Unlisted
    [] v = "absent" -> type \in Enums => ~zeroForbidden(tag, type)
    [] v = "empty" -> type = "HandoverCause" => ~zeroForbidden(tag, type)
    [] OTHER -> TRUE

validateConstraints(event) ==
  \A i \in DOMAIN event.value :
    constraintOf(xiriEvent[event.record].tag, Members(event.record)[i].type, event.value[i])

\* Whether an optional member is written: it differs from its zero; a CHOICE
\* holds an alternative that does.
present(type, v) == v # "absent" /\ (type \in ChoiceTypes => v # "empty")

Emitted(m, v) == m.optional => present(m.type, v)

\* The emitters' own refusals: a mandatory CHOICE that holds nothing, and
\* anything that is not an alternative.
EmitFails(m, v) ==
  Emitted(m, v) /\ (v = "foreign" \/ (v = "absent" /\ m.type \in ChoiceTypes))

\* The members written, each its tag and its value.
emit(event) ==
  LET ms == Members(event.record)
  IN FlattenSeq([i \in DOMAIN ms |-> IF Emitted(ms[i], event.value[i])
                                     THEN <<<<ms[i].tag, event.value[i]>>>> ELSE <<>>])

Refused == <<>>

\* The payload begins with the record's tag.
EncodeXIRI(event) ==
  IF \/ ~validateEvent(event)
     \/ ~validateConstraints(event)
     \/ \E i \in DOMAIN event.value : EmitFails(Members(event.record)[i], event.value[i])
  THEN Refused
  ELSE <<<<xiriEvent[event.record].tag, "record">>>> \o emit(event)
-----------------------------------------------------------------------------
(* What the definitions say a written member may be, for the reference.     *)

\* Types whose zero, or an alternative that holds it, or a list of nothing,
\* is a value of theirs.
ZeroIsLegal ==
  Ranges \cup {"DNN", "Volume", "Message", "FTEID", "Location", "AMFFailureCause",
             "ServiceMessageIdentity", "UserIdentifiers", "PDUSessionResourceInformation",
             "TAIList"}

Conforms(m, v) ==
  \/ v = "legal"
  \/ v = "absent" /\ (m.optional \/ m.type \in ZeroIsLegal \ ChoiceTypes)
  \/ v = "empty" /\ m.type \in ZeroIsLegal

\* What the encoder does not look at: strings without content, the types in
\* no table, and a list of no endpoints in two of the four records with one.
\* A CHOICE that holds nothing is looked at: explicit refuses it.
Unchecked(tag, type, v) ==
  CASE type = "UEEndpoint" -> v = "hollow" \/ (v = "empty" /\ tag \in {7, 10})
    [] type \in Enums \cup {"HandoverCause"} -> FALSE
    [] v = "illegal" -> type \in Unlisted
    [] v = "absent" -> type \notin ChoiceTypes
    [] OTHER -> v \in {"empty", "hollow"}
=============================================================================
