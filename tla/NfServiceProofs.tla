-------------------------- MODULE NfServiceProofs --------------------------
(***************************************************************************)
(* Proofs about what a gNB is told, for any configuration files and any    *)
(* requests.  The context that answers a gNB is the one that was           *)
(* registered, and does not change any more; what the conversions make of  *)
(* it and of the request is ConversionsProofs' business.                   *)
(***************************************************************************)
EXTENDS NfService, NfLifecycleProofs, ConversionsProofs

\* A gNB gets as far as a request only after the context was made, and its
\* answer is the one that this context gives.
SetupInv ==
    /\ setup.request \in Requests \cup {<<>>}
    /\ setup = [request |-> setup.request, answer |-> setup.answer]
    /\ setup.request = <<>> => setup.answer = None
    /\ setup.request # <<>> =>
          /\ pc \notin {"load", "initialize"}
          /\ global
          /\ Loaded(config)
          /\ app = NewContext(config, Own)
    /\ setup.answer # None => setup.answer = HandleNgSetup(setup.request)

\* The process steps as it does by itself, or not at all.
LEMMA ServiceStepIsStep == [ServiceNext]_serviceVars => [Next]_vars
  BY DEF ServiceNext, serviceVars, GnbConnects, NgSetup

\* A gNB's task only reads what the process made: every behaviour of the
\* composition is one of the process, so that all theorems of NfLifecycleProofs
\* hold of it too.
THEOREM ServiceImplementsProcess == ServiceSpec => Spec
  <1>1. ServiceInit => Init
    BY DEF ServiceInit
  <1>2. QED
    BY <1>1, ServiceStepIsStep, PTL DEF ServiceSpec, Spec

\* The membership at the NRF is kept whatever gNBs do.
COROLLARY ServiceKeepsMembership == ServiceSpec => JoinsOnceAndLeaves
  BY ServiceImplementsProcess, MembershipKept, PTL

\* What is known of the process is known of it in the composition.
COROLLARY ProcessInvariance == ServiceSpec => []IInv
  BY ServiceImplementsProcess, Invariance, PTL

\* Once a context has been made, no step of the process changes it.
LEMMA ContextIsFixed ==
    ASSUME IInv, [Next]_vars, pc \notin {"load", "initialize"}
    PROVE  /\ pc' \notin {"load", "initialize"}
           /\ UNCHANGED <<config, global>>
           /\ app = NewContext(config, Own) => app' = app
  <1>1. CASE RegisterAnswered
    BY <1>1 DEF RegisterAnswered, SelectWork, CommitNfId, NewContext
  <1>2. CASE ~RegisterAnswered
    BY <1>2 DEF Next, MainStep, SignalTaskStep, NrfStep, Load, LoadFails, Initialize,
       InitializeFails, RegisterNf, StartEnds, SelectSignal, DeregisterNf, TokenAnswered,
       DeregisterAnswered, AfterDeregister, Exit, SelectWork, InstallHandlers, CancelToken,
       SignalTaskEnds, Signal, NrfRegisters, NrfIssuesToken, NrfDeregisters, NrfRefuses,
       LoseRequest, ExecuteFails, netUnchanged, appVars, vars, Ended, Awaits, Working
  <1>3. QED
    BY <1>1, <1>2

\* The answer to a gNB is that of the context it was registered with.
THEOREM SetupInvariance == ServiceSpec => []SetupInv
  <1>1. ServiceInit => SetupInv
    BY DEF ServiceInit, NoSetup, SetupInv
  <1>2. ASSUME IInv, SetupInv, [ServiceNext]_serviceVars
        PROVE  SetupInv'
    <2>1. CASE UNCHANGED setup
      <3>1. [Next]_vars
        BY <1>2, ServiceStepIsStep
      <3>2. CASE setup.request = <<>>
        BY <1>2, <2>1, <3>2 DEF SetupInv
      <3>3. CASE setup.request # <<>>
        <4>1. /\ pc' \notin {"load", "initialize"}
              /\ UNCHANGED <<config, global, app>>
          BY <1>2, <3>1, <3>3, ContextIsFixed DEF SetupInv
        <4>2. HandleNgSetup(setup.request)' = HandleNgSetup(setup.request)
          BY <2>1, <4>1 DEF HandleNgSetup, Found
        <4>3. Loaded(config)' = Loaded(config)
          BY <4>1 DEF Loaded
        <4>4. QED
          BY <1>2, <2>1, <3>3, <4>1, <4>2, <4>3 DEF SetupInv
      <3>4. QED
        BY <3>2, <3>3
    <2>2. ASSUME NEW request \in Requests, GnbConnects(request)
          PROVE  SetupInv'
      BY <1>2, <2>2, RequestsAssumption
      DEF SetupInv, GnbConnects, NoSetup, Working, IInv, ContextFirst, Checked, vars, appVars,
          Loaded
    <2>3. CASE NgSetup
      <3>1. /\ setup.request # <<>>
            /\ setup' = [request |-> setup.request, answer |-> HandleNgSetup(setup.request)]
            /\ UNCHANGED <<pc, config, global, app>>
        BY <1>2, <2>3 DEF SetupInv, NgSetup, vars, appVars
      <3>2. HandleNgSetup(setup.request)' = HandleNgSetup(setup.request)
        BY <3>1 DEF HandleNgSetup, Found
      <3>3. Loaded(config)' = Loaded(config)
        BY <3>1 DEF Loaded
      <3>4. QED
        BY <1>2, <3>1, <3>2, <3>3 DEF SetupInv
    <2>4. QED
      BY <1>2, <2>1, <2>2, <2>3 DEF ServiceNext, serviceVars
  <1>3. QED
    BY <1>1, <1>2, ProcessInvariance, PTL DEF ServiceSpec

-----------------------------------------------------------------------------
\* An element of a sequence is of the sequence's type.
LEMMA SeqElement ==
    ASSUME NEW T, NEW s \in Seq(T), NEW i \in DOMAIN s
    PROVE  s[i] \in T
  OBVIOUS

\* The lists of the context have the types of the configuration file.
LEMMA ContextTypes ==
    ASSUME SetupInv, setup.request # <<>>
    PROVE  /\ app.served_guami_list \in Seq([plmn_id : Plmns, amf_id : AmfIds]) \ {<<>>}
           /\ app.support_tai_list \in Seq(Tais)
           /\ app.plmn_support_list \in
                Seq([plmn_id : Plmns, snssai_list : Seq(Snssais) \ {<<>>}])
  <1>1. PICK file \in Files :
          /\ config.served_guami_list = file.served_guami_list
          /\ config.support_tai_list = file.support_tai_list
          /\ config.plmn_support_list = file.plmn_support_list
    BY DEF SetupInv, Loaded
  <1>2. /\ file.served_guami_list \in Seq([plmn_id : Plmns, amf_id : AmfIds]) \ {<<>>}
        /\ file.support_tai_list \in Seq(Tais)
        /\ file.plmn_support_list \in
             Seq([plmn_id : Plmns, snssai_list : Seq(Snssais) \ {<<>>}]) \ {<<>>}
    BY LifecycleAssumption DEF ConfigFile
  <1>3. /\ app.served_guami_list = config.served_guami_list
        /\ app.support_tai_list = config.support_tai_list
        /\ app.plmn_support_list = config.plmn_support_list
    BY DEF SetupInv, NewContext
  <1>4. QED
    BY <1>1, <1>2, <1>3

\* An accepted gNB got the converted lists of the context.
LEMMA AcceptedAnswer ==
    ASSUME SetupInv, Accepted
    PROVE  /\ setup.request # <<>>
           /\ setup.answer.guamis = ConvertGuamiList(app.served_guami_list)
           /\ setup.answer.plmns = ConvertPlmnSupportList(app.plmn_support_list)
           /\ Found(SupportedTais(setup.request))
           /\ \A i \in DOMAIN setup.request :
                 ConvertPlmnIdToMccMnc(setup.request[i].plmn) # None
  <1> DEFINE tais == SupportedTais(setup.request)
  <1>1. setup.answer = HandleNgSetup(setup.request) /\ setup.answer.cause = None
    BY DEF SetupInv, Accepted, Answered
  <1>2. /\ Failure("semantic_error").cause # None
        /\ Failure("unknown_plmn_or_snpn").cause # None
    BY RequestsAssumption DEF Failure, Causes
  <1>3. /\ ~(\E i \in DOMAIN tais : tais[i] = None)
        /\ Found(tais)
        /\ setup.answer = Response(ConvertGuamiList(app.served_guami_list),
                                   ConvertPlmnSupportList(app.plmn_support_list))
    <2>1. ~(\E i \in DOMAIN tais : tais[i] = None)
      BY <1>1, <1>2, Zenon DEF HandleNgSetup
    <2>2. Found(tais)
      BY <1>1, <1>2, <2>1, Zenon DEF HandleNgSetup
    <2>3. QED
      BY <1>1, <2>1, <2>2 DEF HandleNgSetup
  <1>4. \A i \in DOMAIN setup.request : ConvertPlmnIdToMccMnc(setup.request[i].plmn) # None
    BY <1>3 DEF SupportedTais
  <1>5. setup.request # <<>>
    BY DEF SetupInv, Accepted, Answered
  <1>6. QED
    BY <1>3, <1>4, <1>5 DEF Response

\* A TAC in lower case survives the way to NGAP and back; one that comes from
\* NGAP is in lower case.
LEMMA LowerTacs ==
    ASSUME NEW tac \in HexStrings, NEW octets \in Octets
    PROVE  HexString(octets) = tac <=> octets = HexDecode(tac) /\ Lower(tac)
  <1>1. ASSUME HexString(octets) = tac
        PROVE  octets = HexDecode(tac) /\ Lower(tac)
    <2>1. octets = HexDecode(tac)
      BY <1>1, DecodedOfHexString
    <2>2. \A k \in 1 .. 6 : tac[k] = tac[k] % 16 /\ tac[k] \in HexChar
      BY <1>1, <2>1, HexStringOfDecoded DEF HexStrings
    <2>3. \A k \in 1 .. 6 : tac[k] < 16
      BY <2>2, CharValue
    <2>4. QED
      BY <2>1, <2>3 DEF Lower, HexStrings
  <1>2. ASSUME octets = HexDecode(tac), Lower(tac)
        PROVE  HexString(octets) = tac
    <2>1. \A k \in 1 .. 6 : tac[k] % 16 = tac[k]
      BY <1>2, CharValue DEF Lower, HexStrings
    <2>2. QED
      BY <1>2, <2>1, HexStringOfDecoded DEF HexStrings
  <1>3. QED
    BY <1>1, <1>2

\* A TAI is what the handler makes of an announced one exactly when it is
\* announced, by the encoding rules, and its TAC is in lower case.
LEMMA AnnouncedIsConverted ==
    ASSUME NEW item \in [tac : Octets, plmn : Octets],
           NEW tai \in Tais
    PROVE  tai = [plmn_id |-> ConvertPlmnIdToMccMnc(item.plmn),
                  tac |-> ConvertNgapTacToSbiTac(item.tac), nid |-> None]
             <=> Announces(item, tai) /\ Lower(tai.tac)
  <1>1. tai.plmn_id = ConvertPlmnIdToMccMnc(item.plmn)
          <=> \E filler \in 10 .. 15 : item.plmn = ReferencePlmn(tai.plmn_id, filler)
    BY ConvertedIsEncoded, PlmnRoundTrip DEF Tais
  <1>2. tai.tac = ConvertNgapTacToSbiTac(item.tac)
          <=> item.tac = HexDecode(tai.tac) /\ Lower(tai.tac)
    BY LowerTacs DEF ConvertNgapTacToSbiTac, Tais
  <1>3. QED
    BY <1>1, <1>2 DEF Announces, Tais

\* Some configured TAI is announced whose TAC is written in lower case.
AnnouncesLower ==
    \E i \in DOMAIN setup.request, j \in DOMAIN app.support_tai_list :
        /\ Announces(setup.request[i], app.support_tai_list[j])
        /\ Lower(app.support_tai_list[j].tac)

\* What the handler looks at, in terms of the encoding rules.
LEMMA HandlerLooksAt ==
    ASSUME SetupInv, Answered
    PROVE  /\ AnnouncesReadable
                <=> \A i \in DOMAIN SupportedTais(setup.request) :
                       SupportedTais(setup.request)[i] # None
           /\ AnnouncesReadable => (Found(SupportedTais(setup.request)) <=> AnnouncesLower)
  <1> DEFINE request == setup.request
             tais == SupportedTais(request)
             list == app.support_tai_list
             converted(i) == [plmn_id |-> ConvertPlmnIdToMccMnc(request[i].plmn),
                              tac |-> ConvertNgapTacToSbiTac(request[i].tac), nid |-> None]
  <1>1. /\ \A i \in DOMAIN request : request[i] \in [tac : Octets, plmn : Octets]
        /\ \A j \in DOMAIN list : list[j] \in Tais
    <2>1. request # <<>>
      BY DEF SetupInv, Answered
    <2>2. request \in Seq([tac : Octets, plmn : Octets])
      BY <2>1, RequestsAssumption DEF SetupInv
    <2>3. list \in Seq(Tais)
      BY <2>1, ContextTypes
    <2>4. QED
      BY <2>2, <2>3, SeqElement
  <1>2. DOMAIN tais = DOMAIN request
    BY DEF SupportedTais
  <1>3. ASSUME NEW i \in DOMAIN request
        PROVE  /\ Readable(request[i].plmn) => tais[i] = converted(i) /\ tais[i] # None
               /\ ~Readable(request[i].plmn) => tais[i] = None
    <2>1. Readable(request[i].plmn) <=> ConvertPlmnIdToMccMnc(request[i].plmn) # None
      BY <1>1, ReadableIsConverted
    <2>2. ASSUME Readable(request[i].plmn)
          PROVE  tais[i] = converted(i) /\ tais[i] # None
      <3>1. tais[i] = converted(i)
        BY <2>1, <2>2 DEF SupportedTais
      <3>2. ConvertPlmnIdToMccMnc(request[i].plmn) \in Plmns
        BY <1>1, <2>2, ReadableIsConverted
      <3>3. ConvertNgapTacToSbiTac(request[i].tac) \in HexStrings
        BY <1>1, HexStringType DEF ConvertNgapTacToSbiTac
      <3>4. converted(i) \in Tais
        BY <3>2, <3>3 DEF Tais
      <3>5. QED
        BY <3>1, <3>4, NoneAssumption
    <2>3. ASSUME ~Readable(request[i].plmn)
          PROVE  tais[i] = None
      BY <2>1, <2>3 DEF SupportedTais
    <2>4. QED
      BY <2>2, <2>3
  <1>4. AnnouncesReadable <=> \A i \in DOMAIN tais : tais[i] # None
    BY <1>2, <1>3 DEF AnnouncesReadable
  <1>5. ASSUME AnnouncesReadable
        PROVE  Found(tais) <=> AnnouncesLower
    <2>1. ASSUME NEW i \in DOMAIN request, NEW j \in DOMAIN list
          PROVE  list[j] = tais[i] <=> Announces(request[i], list[j]) /\ Lower(list[j].tac)
      <3>1. request[i] \in [tac : Octets, plmn : Octets] /\ list[j] \in Tais
        BY <1>1
      <3>2. tais[i] = converted(i)
        BY <1>3, <1>5 DEF AnnouncesReadable
      <3> HIDE DEF request, tais, list
      <3>3. QED
        BY <3>1, <3>2, AnnouncedIsConverted
    <2>2. QED
      BY <1>2, <2>1 DEF Found, AnnouncesLower
  <1>6. QED
    BY <1>4, <1>5

\* The three answers of the handler.
LEMMA HandlerAnswers ==
    ASSUME SetupInv, Answered
    PROVE  /\ ~AnnouncesReadable => setup.answer.cause = "semantic_error"
           /\ AnnouncesReadable /\ ~AnnouncesLower => setup.answer.cause = "unknown_plmn_or_snpn"
           /\ AnnouncesReadable /\ AnnouncesLower => setup.answer.cause = None
  <1> DEFINE tais == SupportedTais(setup.request)
  <1>1. setup.answer = HandleNgSetup(setup.request)
    BY DEF SetupInv, Answered
  <1>2. /\ AnnouncesReadable <=> ~\E i \in DOMAIN tais : tais[i] = None
        /\ AnnouncesReadable => (Found(tais) <=> AnnouncesLower)
    BY HandlerLooksAt
  <1> HIDE DEF tais
  <1>3. HandleNgSetup(setup.request) =
          IF \E i \in DOMAIN tais : tais[i] = None THEN Failure("semantic_error")
          ELSE IF ~Found(tais) THEN Failure("unknown_plmn_or_snpn")
          ELSE Response(ConvertGuamiList(app.served_guami_list),
                        ConvertPlmnSupportList(app.plmn_support_list))
    BY DEF HandleNgSetup, tais
  <1>4. CASE ~AnnouncesReadable
    BY <1>1, <1>2, <1>3, <1>4 DEF Failure
  <1>5. CASE AnnouncesReadable /\ ~AnnouncesLower
    BY <1>1, <1>2, <1>3, <1>5 DEF Failure
  <1>6. CASE AnnouncesReadable /\ AnnouncesLower
    BY <1>1, <1>2, <1>3, <1>6 DEF Response
  <1>7. QED
    BY <1>4, <1>5, <1>6

\* handle_request(NgSetupRequest) accepts a gNB exactly when it announces a
\* configured TAI whose TAC is written in lower case, and no malformed PLMN
\* identity.
THEOREM AcceptanceIsByTai ==
    ServiceSpec => [](Answered => (Accepted <=> AnnouncesLower /\ AnnouncesReadable))
  <1>1. ASSUME SetupInv, Answered
        PROVE  Accepted <=> AnnouncesLower /\ AnnouncesReadable
    <2>1. None # "semantic_error" /\ None # "unknown_plmn_or_snpn"
      BY RequestsAssumption DEF Causes
    <2>2. QED
      BY <1>1, <2>1, HandlerAnswers DEF Accepted
  <1>2. SetupInv => (Answered => (Accepted <=> AnnouncesLower /\ AnnouncesReadable))
    BY <1>1
  <1>3. QED
    BY <1>2, SetupInvariance, PTL

\* The answer of handle_request(NgSetupRequest) fits the request, for any
\* configuration: it accepts only who announces a configured TAI, blames exactly
\* the malformed PLMN identities, and never misses the application context.
THEOREM AnswerFits == ServiceSpec => []AnswerFitsRequest
  <1>1. ASSUME SetupInv, Answered
        PROVE  /\ Accepted => AnnouncesSupported
               /\ setup.answer.cause = "semantic_error" <=> ~AnnouncesReadable
               /\ setup.answer.cause # "panicked"
    <2>1. None \notin {"semantic_error", "unknown_plmn_or_snpn", "panicked"}
      BY RequestsAssumption DEF Causes
    <2>2. AnnouncesLower => AnnouncesSupported
      BY DEF AnnouncesLower, AnnouncesSupported
    <2>3. QED
      BY <1>1, <2>1, <2>2, HandlerAnswers DEF Accepted
  <1>2. SetupInv => AnswerFitsRequest
    BY <1>1 DEF AnswerFitsRequest
  <1>3. QED
    BY <1>2, SetupInvariance, PTL

-----------------------------------------------------------------------------
(* Whom a gNB is accepted by                                               *)

\* Who has a gNB's request was a member when it came, and stays one until the
\* deregistration is on its way.
MemberServes ==
    setup.request # <<>> =>
        /\ Knows
        /\ work \in {"start", "ok", "dropped"}
        /\ nrf # NoRegistration \/ pc \in {"await_deregister"} \cup Ended

\* The process leaves the membership only by its own request.
LEMMA StepKeepsMember ==
    ASSUME IInv, TasksInStep, [Next]_vars, Knows, work \in {"start", "ok", "dropped"},
           pc \notin {"load", "initialize"},
           nrf # NoRegistration \/ pc \in {"await_deregister"} \cup Ended
    PROVE  /\ Knows' /\ work' \in {"start", "ok", "dropped"}
           /\ nrf' # NoRegistration \/ pc' \in {"await_deregister"} \cup Ended
  <1> USE LifecycleAssumption
      DEF NoAnswer, Answer, NoRegistration, Registration, DefaultNfConfig, Ended, Ops,
          Awaits, Working, Registered, RegisteredId, Knows, Agree, appVars, taskVars, netVars,
          netUnchanged
  <1>1. CASE MainStep
    BY <1>1 DEF MainStep, Load, LoadFails, Initialize, InitializeFails, RegisterNf,
       RegisterAnswered, StartEnds, SelectSignal, DeregisterNf, TokenAnswered,
       DeregisterAnswered, AfterDeregister, Exit, SelectWork, TasksInStep
  <1>2. CASE SignalTaskStep \/ Signal
    BY <1>2 DEF SignalTaskStep, InstallHandlers, CancelToken, SignalTaskEnds, Signal
  <1>3. CASE NrfStep
    <2>1. UNCHANGED <<pc, work, nf_config>>
      BY <1>3 DEF NrfStep, NrfRegisters, NrfIssuesToken, NrfDeregisters, NrfRefuses, LoseRequest
    <2>2. \A r \in requests : r.op # "register"
      BY DEF IInv, KnownAgree, Requested
    <2>3. \A r \in requests : NrfDeregisters(r) => pc \in {"await_deregister"} \cup Ended
      BY DEF NrfDeregisters, IInv, RequestsInOrder
    <2>4. nrf' = nrf \/ pc \in {"await_deregister"} \cup Ended
      BY <1>3, <2>2, <2>3 DEF NrfStep, NrfRegisters, NrfIssuesToken, NrfRefuses, LoseRequest
    <2>5. QED
      BY <2>1, <2>4
  <1>4. CASE ExecuteFails \/ UNCHANGED vars
    BY <1>4 DEF ExecuteFails, vars
  <1>5. QED
    BY <1>1, <1>2, <1>3, <1>4 DEF Next

\* A gNB is accepted only by a member of the core network that knows its
\* membership, or by one that has asked to leave it.
THEOREM AcceptingIsMember == ServiceSpec => []AcceptedByMember
  <1> USE LifecycleAssumption
      DEF NoAnswer, Answer, NoRegistration, Registration, DefaultNfConfig, Ended, Ops,
          Working, Knows, Agree, appVars, taskVars, netVars,
          netUnchanged
  <1>1. ServiceInit => MemberServes
    BY DEF ServiceInit, NoSetup, MemberServes
  <1>2. ASSUME IInv, TasksInStep, SetupInv, MemberServes, [ServiceNext]_serviceVars
        PROVE  MemberServes'
    <2>1. CASE setup'.request = setup.request
      BY <1>2, <2>1, ServiceStepIsStep, StepKeepsMember DEF MemberServes, SetupInv
    <2>2. ASSUME NEW request \in Requests, GnbConnects(request)
          PROVE  MemberServes'
      BY <1>2, <2>2 DEF GnbConnects, vars, MemberServes, IInv, KnownAgree
    <2>3. CASE NgSetup
      BY <1>2, <2>1, <2>3 DEF NgSetup, SetupInv
    <2>4. QED
      BY <1>2, <2>1, <2>2, <2>3 DEF ServiceNext, serviceVars
  <1>3. ServiceSpec => []TasksInStep
    BY ServiceImplementsProcess, TasksStayInStep, PTL
  <1>4. ServiceSpec => []MemberServes
    BY <1>1, <1>2, <1>3, ProcessInvariance, SetupInvariance, PTL DEF ServiceSpec
  <1>5. IInv /\ SetupInv /\ MemberServes => AcceptedByMember
    BY DEF IInv, KnownAgree, TypeOK, SetupInv, MemberServes, Accepted, Answered,
       AcceptedByMember, KnownId
  <1>6. QED
    BY <1>4, <1>5, ProcessInvariance, SetupInvariance, PTL

-----------------------------------------------------------------------------
\* An AMF identifier of the configuration fits its three bit strings.
LEMMA AmfIdFits ==
    ASSUME NEW amf_id \in AmfIds
    PROVE  ConvertAmfId(amf_id) = amf_id
  BY DEF AmfIds, ConvertAmfId

\* The GUAMIs and PLMNs that an NG Setup Response carries are, by the encoding
\* rules, those of the profile registered at the NRF.
THEOREM SameIdentity == ServiceSpec => []SameIdentityEverywhere
  <1>1. ASSUME IInv, SetupInv, Accepted, nrf # NoRegistration
        PROVE  LET guamis == setup.answer.guamis
                   plmns == setup.answer.plmns
               IN  /\ DOMAIN guamis = DOMAIN nrf.profile.guami_list
                   /\ \A i \in DOMAIN guamis :
                         /\ guamis[i].plmn = ReferencePlmn(nrf.profile.guami_list[i].plmn_id, 15)
                         /\ guamis[i].amf_id = nrf.profile.guami_list[i].amf_id
                   /\ guamis[1].amf_id.region = nrf.profile.amf_region
                   /\ guamis[1].amf_id.set = nrf.profile.amf_set
                   /\ DOMAIN plmns = DOMAIN nrf.profile.plmn_list
                   /\ \A i \in DOMAIN plmns :
                         plmns[i].plmn = ReferencePlmn(nrf.profile.plmn_list[i], 15)
    <2> DEFINE guamis == setup.answer.guamis
               plmns == setup.answer.plmns
               served == app.served_guami_list
               supported == app.plmn_support_list
    <2>1. /\ guamis = ConvertGuamiList(served)
          /\ plmns = ConvertPlmnSupportList(supported)
          /\ setup.request # <<>>
      BY <1>1, AcceptedAnswer
    <2>2. nrf.profile = BuildNfProfile(app)
      BY <1>1, <2>1 DEF SetupInv, IInv, ContextFirst, OwnProfile
    <2>3. /\ nrf.profile.guami_list = served
          /\ nrf.profile.amf_region = served[1].amf_id.region
          /\ nrf.profile.amf_set = served[1].amf_id.set
          /\ nrf.profile.plmn_list = [i \in DOMAIN supported |-> supported[i].plmn_id]
      BY <2>2 DEF BuildNfProfile
    <2>4. /\ served \in Seq([plmn_id : Plmns, amf_id : AmfIds]) \ {<<>>}
          /\ supported \in Seq([plmn_id : Plmns, snssai_list : Seq(Snssais) \ {<<>>}])
      BY <1>1, <2>1, ContextTypes
    <2>5. ASSUME NEW i \in DOMAIN served
          PROVE  /\ guamis[i].plmn = ReferencePlmn(served[i].plmn_id, 15)
                 /\ guamis[i].amf_id = served[i].amf_id
      <3>1. served[i] \in [plmn_id : Plmns, amf_id : AmfIds]
        BY <2>4, SeqElement
      <3>2. guamis[i] = ConvertGuami(served[i])
        BY <2>1 DEF ConvertGuamiList
      <3>3. QED
        BY <3>1, <3>2, PlmnEncoding, AmfIdFits DEF ConvertGuami
    <2>6. ASSUME NEW i \in DOMAIN supported
          PROVE  plmns[i].plmn = ReferencePlmn(supported[i].plmn_id, 15)
      <3>1. supported[i] \in [plmn_id : Plmns, snssai_list : Seq(Snssais) \ {<<>>}]
        BY <2>4, SeqElement
      <3>2. plmns[i] = ConvertPlmnSupportItem(supported[i])
        BY <2>1 DEF ConvertPlmnSupportList
      <3>3. QED
        BY <3>1, <3>2, PlmnEncoding DEF ConvertPlmnSupportItem
    <2>7. DOMAIN guamis = DOMAIN served /\ DOMAIN plmns = DOMAIN supported
      BY <2>1 DEF ConvertGuamiList, ConvertPlmnSupportList
    <2>8. 1 \in DOMAIN served
      BY <2>4
    <2> HIDE DEF guamis, plmns, served, supported
    <2>9. QED
      BY <2>3, <2>5, <2>6, <2>7, <2>8 DEF guamis, plmns
  <1>2. IInv /\ SetupInv => SameIdentityEverywhere
    BY <1>1 DEF SameIdentityEverywhere
  <1>3. QED
    BY <1>2, ProcessInvariance, SetupInvariance, PTL

\* The slices of an NG Setup Response, converted back, are the configured ones
\* up to the case of their differentiators.
THEOREM SlicesSurvive == ServiceSpec => []SlicesSurviveConversion
  <1>1. ASSUME NEW configured \in Snssais
        PROVE  LET sent == ConvertNgapSnssaiToSbiSnssai(ConvertSbiSnssaiToNgapSnssai(configured))
               IN  /\ sent.sst = configured.sst
                   /\ sent.sd = None <=> configured.sd = None
                   /\ sent.sd # None => \A c \in 1 .. 6 : sent.sd[c] = configured.sd[c] % 16
    <2>1. CASE configured.sd = None
      BY <2>1 DEF ConvertNgapSnssaiToSbiSnssai, ConvertSbiSnssaiToNgapSnssai
    <2>2. CASE configured.sd # None
      <3>1. configured.sd \in HexStrings
        BY <2>2 DEF Snssais
      <3>2. HexDecode(configured.sd) \in Octets /\ HexDecode(configured.sd) # None
        BY <3>1, HexDecodeType, NoneAssumption
      <3>3. /\ HexString(HexDecode(configured.sd)) # None
            /\ HexString(HexDecode(configured.sd)) = [k \in 1 .. 6 |-> configured.sd[k] % 16]
        BY <3>1, <3>2, HexStringType, HexStringOfDecoded, NoneAssumption
      <3>4. QED
        BY <2>2, <3>2, <3>3 DEF ConvertNgapSnssaiToSbiSnssai, ConvertSbiSnssaiToNgapSnssai
    <2>3. QED
      BY <2>1, <2>2
  <1>2. ASSUME SetupInv, Accepted,
               NEW i \in DOMAIN setup.answer.plmns, NEW k \in DOMAIN setup.answer.plmns[i].slices
        PROVE  /\ app.plmn_support_list[i].snssai_list[k] \in Snssais
               /\ setup.answer.plmns[i].slices[k] =
                    ConvertSbiSnssaiToNgapSnssai(app.plmn_support_list[i].snssai_list[k])
    <2> DEFINE supported == app.plmn_support_list
    <2>1. setup.answer.plmns = ConvertPlmnSupportList(supported) /\ setup.request # <<>>
      BY <1>2, AcceptedAnswer
    <2>2. i \in DOMAIN supported /\ setup.answer.plmns[i] = ConvertPlmnSupportItem(supported[i])
      BY <1>2, <2>1 DEF ConvertPlmnSupportList
    <2>3. setup.answer.plmns[i].slices = ConvertSliceList(supported[i].snssai_list)
      BY <2>2 DEF ConvertPlmnSupportItem
    <2>4. supported \in Seq([plmn_id : Plmns, snssai_list : Seq(Snssais) \ {<<>>}])
      BY <1>2, <2>1, ContextTypes
    <2>5. supported[i].snssai_list \in Seq(Snssais)
      <3>1. supported[i] \in [plmn_id : Plmns, snssai_list : Seq(Snssais) \ {<<>>}]
        BY <2>2, <2>4, SeqElement
      <3>2. QED
        BY <3>1
    <2>6. /\ k \in DOMAIN supported[i].snssai_list
          /\ setup.answer.plmns[i].slices[k] =
               ConvertSbiSnssaiToNgapSnssai(supported[i].snssai_list[k])
      BY <1>2, <2>3 DEF ConvertSliceList
    <2>7. QED
      BY <2>5, <2>6, SeqElement
  <1>3. SetupInv => SlicesSurviveConversion
    BY <1>1, <1>2 DEF SlicesSurviveConversion
  <1>4. QED
    BY <1>3, SetupInvariance, PTL
=============================================================================
