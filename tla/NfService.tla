----------------------------- MODULE NfService -----------------------------
(***************************************************************************)
(* The running AMF and a gNB: what NG Setup (ngap/core/ng_setup.rs) tells  *)
(* the gNB comes from the application context that NfLifecycle builds and  *)
(* registers, through the conversions between SBI and NGAP values.  The    *)
(* connection's own task handles the request, so it may do so while the    *)
(* main task deregisters.  NgapController is about the connections and     *)
(* leaves these values out.                                                *)
(***************************************************************************)
EXTENDS NfLifecycle

CONSTANT Requests  \* NG Setup requests: sequences of a TAC and a PLMN identity

Causes == {"semantic_error", "unknown_plmn_or_snpn", "panicked"}

ASSUME RequestsAssumption ==
    /\ Requests \subseteq Seq([tac : Octets, plmn : Octets]) \ {<<>>}
    /\ None \notin Causes

VARIABLE setup     \* the gNB's request, and the answer to it

serviceVars == <<vars, setup>>

NoSetup == [request |-> <<>>, answer |-> None]

Failure(cause) == [cause |-> cause]
Response(guamis, plmns) == [guamis |-> guamis, plmns |-> plmns, cause |-> None]

\* The SBI value of what the gNB announces, in order, without a NID; None where
\* the PLMN identity cannot be converted.
SupportedTais(request) ==
    [i \in DOMAIN request |->
        LET plmn_id == ConvertPlmnIdToMccMnc(request[i].plmn)
        IN  IF plmn_id = None THEN None
            ELSE [plmn_id |-> plmn_id, tac |-> ConvertNgapTacToSbiTac(request[i].tac),
                  nid |-> None]]

\* Some supported TAI is in the set of those announced.
Found(tais) ==
    \E i \in DOMAIN app.support_tai_list, j \in DOMAIN tais : app.support_tai_list[i] = tais[j]

\* The handler after its check for a conflicting id: it stops at the first
\* PLMN identity that cannot be converted, and only then looks at the context.
HandleNgSetup(request) ==
    LET tais == SupportedTais(request)
    IN  IF \E i \in DOMAIN tais : tais[i] = None THEN Failure("semantic_error")
        ELSE IF ~Found(tais) THEN Failure("unknown_plmn_or_snpn")
        ELSE Response(ConvertGuamiList(app.served_guami_list),
                      ConvertPlmnSupportList(app.plmn_support_list))

\* Mutant: connections are accepted as soon as the socket listens.
GnbConnectsEarly(request) ==
    /\ pc = "select"
    /\ setup = NoSetup
    /\ setup' = [setup EXCEPT !.request = request]
    /\ UNCHANGED vars

\* The accept loop spawns the connection's task.
GnbConnects(request) ==
    /\ Working("start")
    /\ setup = NoSetup
    /\ setup' = [setup EXCEPT !.request = request]
    /\ UNCHANGED vars

\* Without APP_CONTEXT the default configuration would be validated, which
\* fails, and the task would panic.
NgSetup ==
    /\ pc \notin Ended
    /\ setup.request # <<>>
    /\ setup.answer = None
    /\ setup' = [setup EXCEPT !.answer = IF global THEN HandleNgSetup(setup.request)
                                                   ELSE Failure("panicked")]
    /\ UNCHANGED vars

ServiceInit == Init /\ setup = NoSetup

ServiceNext ==
    \/ Next /\ UNCHANGED setup
    \/ \E request \in Requests : GnbConnects(request)
    \/ NgSetup

ServiceSpec == ServiceInit /\ [][ServiceNext]_serviceVars

ServiceFairSpec ==
    /\ ServiceSpec
    /\ WF_vars(MainStep)
    /\ WF_vars(SignalTaskStep)

-----------------------------------------------------------------------------
(* Properties                                                              *)

Answered == setup.answer # None
Accepted == Answered /\ setup.answer.cause = None

\* item is the TAI in the encoding of TS 38.413; only an MNC of two digits
\* leaves room for a filler, and the code takes any.  The items of a request
\* are those of public networks, which have no NID.
Announces(item, tai) ==
    /\ tai.nid = None
    /\ item.tac = HexDecode(tai.tac)
    /\ \E filler \in 10 .. 15 : item.plmn = ReferencePlmn(tai.plmn_id, filler)

AnnouncesSupported ==
    \E i \in DOMAIN setup.request, j \in DOMAIN app.support_tai_list :
        Announces(setup.request[i], app.support_tai_list[j])

AnnouncesReadable == \A i \in DOMAIN setup.request : Readable(setup.request[i].plmn)

\* The answer fits the request: a gNB is accepted only if it announces a
\* configured TAI, it is told of a semantic error exactly when one of its PLMN
\* identities cannot be read, and its task always finds the application context
\* ("calling this function would always return an initialized context").
AnswerFitsRequest ==
    Answered =>
        /\ Accepted => AnnouncesSupported
        /\ setup.answer.cause = "semantic_error" <=> ~AnnouncesReadable
        /\ setup.answer.cause # "panicked"

\* ng_setup.rs: "Check if at least one TA is supported by AMF", where the
\* configuration gives a TAC as a "3 bytes hex string, range: 000000~FFFFFF".
SupportedIsAccepted == Answered /\ AnnouncesSupported /\ AnnouncesReadable => Accepted

\* A gNB is accepted only by an AMF that has joined the core network and knows
\* as whom.  Connection tasks go on while the main task deregisters, so the NRF
\* may hold the registration no longer, but only because this process has asked
\* for that.
AcceptedByMember ==
    Accepted =>
        /\ KnownId # None
        /\ \/ nrf.id = KnownId
           \/ nrf = NoRegistration /\ pc \in {"await_deregister"} \cup Ended

\* gNB and NRF are told the same: the GUAMIs and PLMNs of the answer, read by
\* the encoding rules, are those of the registered profile, in its order.
SameIdentityEverywhere ==
    Accepted /\ nrf # NoRegistration =>
        LET guamis == setup.answer.guamis
            plmns == setup.answer.plmns
        IN  /\ DOMAIN guamis = DOMAIN nrf.profile.guami_list
            /\ \A i \in DOMAIN guamis :
                  /\ guamis[i].plmn = ReferencePlmn(nrf.profile.guami_list[i].plmn_id, 15)
                  /\ guamis[i].amf_id = nrf.profile.guami_list[i].amf_id
            /\ guamis[1].amf_id.region = nrf.profile.amf_region
            /\ guamis[1].amf_id.set = nrf.profile.amf_set
            /\ DOMAIN plmns = DOMAIN nrf.profile.plmn_list
            /\ \A i \in DOMAIN plmns : plmns[i].plmn = ReferencePlmn(nrf.profile.plmn_list[i], 15)

\* The slices of the answer, converted as the handler converts a gNB's, are
\* the configured ones up to the case of their differentiators.
SlicesSurviveConversion ==
    Accepted =>
        \A i \in DOMAIN setup.answer.plmns : \A k \in DOMAIN setup.answer.plmns[i].slices :
            LET sent == ConvertNgapSnssaiToSbiSnssai(setup.answer.plmns[i].slices[k])
                configured == app.plmn_support_list[i].snssai_list[k]
            IN  /\ sent.sst = configured.sst
                /\ sent.sd = None <=> configured.sd = None
                /\ sent.sd # None =>
                      \A c \in 1 .. 6 : sent.sd[c] = configured.sd[c] % 16
=============================================================================
