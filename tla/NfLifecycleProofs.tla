------------------------- MODULE NfLifecycleProofs -------------------------
(***************************************************************************)
(* Proofs about the life of the process, for any configuration files, host *)
(* names and ids.                                                          *)
(*                                                                         *)
(* The invariant is about who knows of the registration.  Before the       *)
(* profile is sent there is none; from then on the NRF may hold it without *)
(* the client knowing, until an answer that the client still awaits tells  *)
(* it the id; and from then on client and NRF agree for as long as the     *)
(* registration exists.                                                    *)
(***************************************************************************)
EXTENDS NfLifecycle, TLAPS

Requested(op) == \E r \in requests : r.op = op

\* The client has been told the id of its registration.
Knows == nf_config.nf_instance_id # Nil

\* What the client remembers is what the NRF holds, if it still holds it.
Agree ==
    nrf # NoRegistration =>
        /\ nrf.id = nf_config.nf_instance_id
        /\ nrf.oauth = nf_config.oauth_enabled

Shape ==
    /\ nrf # NoRegistration => nrf.id \in Ids
    /\ pc = "exited" => outcome \in {"AppSetupError", "InitializationFailedError", "Ok",
                                     "RuntimeError", "RuntimeWithDeregistrationError",
                                     "ShutdownDeregistrationFailedError"}

\* No registration, and no knowledge of one, before it is asked for; a process
\* that did not get that far has not asked.
NothingBefore ==
    /\ work = "register" => /\ ~Requested("register")
                            /\ nrf = NoRegistration
                            /\ nf_config = DefaultNfConfig
    /\ pc \in {"load", "initialize"} => work = "register"
    /\ pc = "exited" /\ outcome \in {"AppSetupError", "InitializationFailedError"}
           => work = "register"

\* The context is complete before anything is asked for, and what is asked for
\* and stored is the profile made from it.
Loaded(c) ==
    \E file \in Files :
        /\ c.served_guami_list = file.served_guami_list
        /\ c.support_tai_list = file.support_tai_list
        /\ c.plmn_support_list = file.plmn_support_list
        /\ c.service_name_list = file.service_name_list

Checked == Loaded(config) /\ Validated(config)

OwnProfile == BuildNfProfile(NewContext(config, Own))

ContextFirst ==
    /\ pc = "initialize" => Loaded(config)
    /\ pc \in {"select", "deregister", "await_token", "await_deregister"} =>
          global /\ Checked /\ app = NewContext(config, Own)
    /\ \A r \in requests : r.op = "register" => Checked /\ r.body.content = OwnProfile
    /\ nrf # NoRegistration => Checked /\ nrf.profile = OwnProfile

\* What is on its way: a registration of this NF, and at last, from the client
\* that waits for it, a deregistration of what it remembers.
RequestsInOrder ==
    \A r \in requests :
        /\ r.op \in Ops
        /\ r.op = "register" => r.id = app.nf_id
        /\ r.op = "token" => pc \in {"await_token", "await_deregister"} \cup Ended
        /\ r.op = "deregister" =>
              /\ pc \in {"await_deregister"} \cup Ended
              /\ r.id = nf_config.nf_instance_id
              /\ nf_config.oauth_enabled => r.authorization = r.id

\* An answer under way to register_nf_instance describes the registration.
AnswerIsTrue ==
    Awaits("register") /\ Registered(response) =>
        /\ ~Requested("register")
        /\ nrf # NoRegistration
        /\ nrf.id = RegisteredId(response)
        /\ nrf.oauth = response.oauth

\* From the answer on, client and NRF agree; gNBs are served only then.
KnownAgree ==
    /\ Knows => ~Requested("register") /\ Agree
    /\ Working("start") => Knows /\ nrf # NoRegistration

\* A successful answer to the deregistration means that nothing is left.
GoneMeansGone ==
    /\ pc = "await_deregister" /\ Deregistered(response) => Knows /\ nrf = NoRegistration
    /\ pc = "exited" /\ outcome \in {"Ok", "RuntimeError"}
           => ~Requested("register") /\ nrf = NoRegistration

IInv ==
    /\ TypeOK
    /\ Shape
    /\ NothingBefore
    /\ ContextFirst
    /\ RequestsInOrder
    /\ AnswerIsTrue
    /\ KnownAgree
    /\ GoneMeansGone

-----------------------------------------------------------------------------
(* The abbreviations of the model are expanded throughout; the operations  *)
(* and the conjuncts of IInv where they are cited.                         *)

USE LifecycleAssumption
    DEF NoAnswer, Answer, NoRegistration, Registration, DefaultNfConfig, Ended, Ops,
        Awaits, Working, Registered, RegisteredId, Deregistered,
        Requested, Knows, Agree, appVars, taskVars, netVars, netUnchanged

\* Nothing has been asked for in an initial state.
LEMMA InitIInv == Init => IInv
  <1> SUFFICES ASSUME Init PROVE IInv
    OBVIOUS
  <1> USE DEF Init
  <1>1. TypeOK
    BY DEF TypeOK
  <1>2. Shape /\ NothingBefore /\ ContextFirst /\ RequestsInOrder
    BY DEF Shape, NothingBefore, ContextFirst, RequestsInOrder
  <1>3. AnswerIsTrue /\ KnownAgree /\ GoneMeansGone
    BY DEF AnswerIsTrue, KnownAgree, GoneMeansGone
  <1>4. QED
    BY <1>1, <1>2, <1>3 DEF IInv

\* Parsing resolves addresses and leaves the other lists alone.
LEMMA ParseKeepsLists ==
    ASSUME NEW file \in Files, NEW dns, ParseConfig(dns, file) # None
    PROVE  Loaded(ParseConfig(dns, file))
  BY DEF ParseConfig, ConfigFile, Loaded


\* A loaded configuration comes from a file; an unusable one ends the process.
LEMMA LoadKeeps ==
    ASSUME IInv, NEW file \in Files, NEW dns, Load(file, dns)
    PROVE  IInv'
  BY ParseKeepsLists DEF IInv, TypeOK, Shape, NothingBefore, ContextFirst, RequestsInOrder, AnswerIsTrue,
         KnownAgree, GoneMeansGone,
         Load, Exit

\* Without a file the process ends before it asked for anything.
LEMMA LoadFailsKeeps ==
    ASSUME IInv, LoadFails
    PROVE  IInv'
  BY DEF IInv, TypeOK, Shape, NothingBefore, ContextFirst, RequestsInOrder, AnswerIsTrue,
         KnownAgree, GoneMeansGone,
         LoadFails, Exit

\* The context is made from the configuration that was validated.
LEMMA InitializeKeeps ==
    ASSUME IInv, Initialize
    PROVE  IInv'
  BY DEF IInv, TypeOK, Shape, NothingBefore, ContextFirst, RequestsInOrder, AnswerIsTrue,
         KnownAgree, GoneMeansGone,
         Initialize, Checked

\* An application that is not initialized asks for nothing.
LEMMA InitializeFailsKeeps ==
    ASSUME IInv, InitializeFails
    PROVE  IInv'
  BY DEF IInv, TypeOK, Shape, NothingBefore, ContextFirst, RequestsInOrder, AnswerIsTrue,
         KnownAgree, GoneMeansGone,
         InitializeFails, Exit

\* The one registration that is sent carries the profile of the context.
LEMMA RegisterNfKeeps ==
    ASSUME IInv, RegisterNf
    PROVE  IInv'
  BY DEF IInv, TypeOK, Shape, NothingBefore, ContextFirst, RequestsInOrder, AnswerIsTrue,
         KnownAgree, GoneMeansGone,
         RegisterNf, SelectWork, Send, PrepareRequest, SerializeBody, OwnProfile, Checked

\* The answer tells the client the id and the OAuth setting that the NRF holds.
LEMMA RegisterAnsweredKeeps ==
    ASSUME IInv, RegisterAnswered
    PROVE  IInv'
  BY DEF IInv, TypeOK, Shape, NothingBefore, ContextFirst, RequestsInOrder, AnswerIsTrue,
         KnownAgree, GoneMeansGone,
         RegisterAnswered, SelectWork, CommitNfId, NewContext, OwnProfile, Checked

\* The end of the service leaves the registration alone.
LEMMA StartEndsKeeps ==
    ASSUME IInv, StartEnds
    PROVE  IInv'
  BY DEF IInv, TypeOK, Shape, NothingBefore, ContextFirst, RequestsInOrder, AnswerIsTrue,
         KnownAgree, GoneMeansGone,
         StartEnds, SelectWork, OwnProfile, Checked

\* Work that a signal drops may leave a registration nobody knows of.
LEMMA SelectSignalKeeps ==
    ASSUME IInv, SelectSignal
    PROVE  IInv'
  BY DEF IInv, TypeOK, Shape, NothingBefore, ContextFirst, RequestsInOrder, AnswerIsTrue,
         KnownAgree, GoneMeansGone,
         SelectSignal, OwnProfile, Checked

\* What is deregistered is what the client remembers.
LEMMA DeregisterNfKeeps ==
    ASSUME IInv, DeregisterNf
    PROVE  IInv'
  BY DEF IInv, TypeOK, Shape, NothingBefore, ContextFirst, RequestsInOrder, AnswerIsTrue,
         KnownAgree, GoneMeansGone,
         DeregisterNf, Send, DeregisterRequest, DeregisterId, PrepareRequest,
         OwnProfile, Checked

\* The deregistration is sent with the token of the remembered id.
LEMMA TokenAnsweredKeeps ==
    ASSUME IInv, TokenAnswered
    PROVE  IInv'
  BY DEF IInv, TypeOK, Shape, NothingBefore, ContextFirst, RequestsInOrder, AnswerIsTrue,
         KnownAgree, GoneMeansGone,
         TokenAnswered, Send, DeregisterRequest, DeregisterId, PrepareRequest,
         SetAuthToken, Exit, NfResult, OwnProfile, Checked

\* The process ends well only if the NRF said that the registration is gone.
LEMMA DeregisterAnsweredKeeps ==
    ASSUME IInv, DeregisterAnswered
    PROVE  IInv'
  BY DEF IInv, TypeOK, Shape, NothingBefore, ContextFirst, RequestsInOrder, AnswerIsTrue,
         KnownAgree, GoneMeansGone,
         DeregisterAnswered, AfterDeregister, Exit, NfResult, OwnProfile, Checked

\* The signal task touches neither the work nor the registration.
LEMMA InstallHandlersKeeps ==
    ASSUME IInv, InstallHandlers
    PROVE  IInv'
  BY DEF IInv, TypeOK, Shape, NothingBefore, ContextFirst, RequestsInOrder, AnswerIsTrue,
         KnownAgree, GoneMeansGone,
         InstallHandlers, OwnProfile, Checked

\* Cancelling the token does not touch the registration.
LEMMA CancelTokenKeeps ==
    ASSUME IInv, CancelToken
    PROVE  IInv'
  BY DEF IInv, TypeOK, Shape, NothingBefore, ContextFirst, RequestsInOrder, AnswerIsTrue,
         KnownAgree, GoneMeansGone,
         CancelToken, OwnProfile, Checked

\* Nor does the end of the signal task.
LEMMA SignalTaskEndsKeeps ==
    ASSUME IInv, SignalTaskEnds
    PROVE  IInv'
  BY DEF IInv, TypeOK, Shape, NothingBefore, ContextFirst, RequestsInOrder, AnswerIsTrue,
         KnownAgree, GoneMeansGone,
         SignalTaskEnds, OwnProfile, Checked

\* A process that is killed reports nothing.
LEMMA SignalKeeps ==
    ASSUME IInv, Signal
    PROVE  IInv'
  BY DEF IInv, TypeOK, Shape, NothingBefore, ContextFirst, RequestsInOrder, AnswerIsTrue,
         KnownAgree, GoneMeansGone,
         Signal, OwnProfile, Checked

\* An answer is kept only for a caller that waits for it.
LEMMA RespondKeepsTypes ==
    ASSUME IInv, NEW r \in requests, NEW answer, Respond(r, answer), UNCHANGED <<pc, work>>
    PROVE  response' # NoAnswer => (pc = "killed" \/ \E op \in Ops : Awaits(op))'
  <1>1. r.op \in Ops
    BY DEF IInv, RequestsInOrder
  <1>2. CASE Awaits(r.op)
    BY <1>1, <1>2
  <1>3. CASE ~Awaits(r.op)
    <2>1. response' = response
      BY <1>3 DEF Respond
    <2>2. QED
      BY <2>1 DEF IInv, TypeOK
  <1>4. QED
    BY <1>2, <1>3

\* The answer to a registration describes what has just been stored.
LEMMA NrfRegistersKeeps ==
    ASSUME IInv, NEW r \in requests, NEW id \in Ids, NEW oauth \in BOOLEAN,
           NrfRegisters(r, id, oauth)
    PROVE  IInv'
  BY DEF IInv, TypeOK, Shape, NothingBefore, ContextFirst, RequestsInOrder, AnswerIsTrue,
         KnownAgree, GoneMeansGone,
         NrfRegisters, Respond, OwnProfile, Checked

\* Issuing a token leaves the registration alone.
LEMMA NrfIssuesTokenKeeps ==
    ASSUME IInv, NEW r \in requests, NrfIssuesToken(r)
    PROVE  IInv'
  <1> USE DEF NrfIssuesToken
  <1>0. response' # NoAnswer => (pc = "killed" \/ \E op \in Ops : Awaits(op))'
    BY RespondKeepsTypes
  <1>1. TypeOK'
    BY <1>0 DEF IInv, TypeOK, RequestsInOrder, Respond
  <1>2. (Shape /\ NothingBefore /\ ContextFirst /\ RequestsInOrder)'
    BY DEF IInv, TypeOK, Shape, NothingBefore, ContextFirst, RequestsInOrder, Respond,
           OwnProfile, Checked
  <1>3. (AnswerIsTrue /\ KnownAgree /\ GoneMeansGone)'
    BY DEF IInv, TypeOK, Shape, NothingBefore, RequestsInOrder, AnswerIsTrue, KnownAgree,
           GoneMeansGone, Respond
  <1>4. QED
    BY <1>1, <1>2, <1>3 DEF IInv

\* A removed registration is the remembered one: no other can follow it.
LEMMA NrfDeregistersKeeps ==
    ASSUME IInv, NEW r \in requests, NrfDeregisters(r)
    PROVE  IInv'
  <1> USE DEF NrfDeregisters
  <1>0. response' # NoAnswer => (pc = "killed" \/ \E op \in Ops : Awaits(op))'
    BY RespondKeepsTypes
  <1>1. TypeOK'
    BY <1>0 DEF IInv, TypeOK, RequestsInOrder, Respond
  <1>2. (Shape /\ NothingBefore /\ ContextFirst /\ RequestsInOrder)'
    BY DEF IInv, TypeOK, Shape, NothingBefore, ContextFirst, RequestsInOrder, Respond,
           OwnProfile, Checked
  <1>3. (AnswerIsTrue /\ KnownAgree /\ GoneMeansGone)'
    BY DEF IInv, TypeOK, Shape, NothingBefore, RequestsInOrder, AnswerIsTrue, KnownAgree,
           GoneMeansGone, Respond
  <1>4. QED
    BY <1>1, <1>2, <1>3 DEF IInv

\* An error status changes nothing at the NRF.
LEMMA NrfRefusesKeeps ==
    ASSUME IInv, NEW r \in requests, NrfRefuses(r)
    PROVE  IInv'
  <1> USE DEF NrfRefuses
  <1>0. response' # NoAnswer => (pc = "killed" \/ \E op \in Ops : Awaits(op))'
    BY RespondKeepsTypes
  <1>1. TypeOK'
    BY <1>0 DEF IInv, TypeOK, RequestsInOrder, Respond
  <1>2. (Shape /\ NothingBefore /\ ContextFirst /\ RequestsInOrder)'
    BY DEF IInv, TypeOK, Shape, NothingBefore, ContextFirst, RequestsInOrder, Respond,
           OwnProfile, Checked
  <1>3. (AnswerIsTrue /\ KnownAgree /\ GoneMeansGone)'
    BY DEF IInv, TypeOK, Shape, NothingBefore, RequestsInOrder, AnswerIsTrue, KnownAgree,
           GoneMeansGone, Respond
  <1>4. QED
    BY <1>1, <1>2, <1>3 DEF IInv

\* A lost request changes nothing at the NRF.
LEMMA LoseRequestKeeps ==
    ASSUME IInv, NEW r \in requests, LoseRequest(r)
    PROVE  IInv'
  BY DEF IInv, TypeOK, Shape, NothingBefore, ContextFirst, RequestsInOrder, AnswerIsTrue,
         KnownAgree, GoneMeansGone,
         LoseRequest, OwnProfile, Checked

\* A failed connection tells the client nothing about the registration.
LEMMA ExecuteFailsKeeps ==
    ASSUME IInv, ExecuteFails
    PROVE  IInv'
  BY DEF IInv, TypeOK, Shape, NothingBefore, ContextFirst, RequestsInOrder, AnswerIsTrue,
         KnownAgree, GoneMeansGone,
         ExecuteFails, OwnProfile, Checked

-----------------------------------------------------------------------------
\* Every step of the main task, the signal task, the network and the NRF
\* preserves the invariant.
LEMMA NextIInv == IInv /\ [Next]_vars => IInv'
  <1> SUFFICES ASSUME IInv, [Next]_vars PROVE IInv'
    OBVIOUS
  <1>1. CASE MainStep
    BY <1>1, LoadKeeps, LoadFailsKeeps, InitializeKeeps, InitializeFailsKeeps, RegisterNfKeeps,
       RegisterAnsweredKeeps, StartEndsKeeps, SelectSignalKeeps, DeregisterNfKeeps,
       TokenAnsweredKeeps, DeregisterAnsweredKeeps
    DEF MainStep
  <1>2. CASE SignalTaskStep \/ Signal
    BY <1>2, InstallHandlersKeeps, CancelTokenKeeps, SignalTaskEndsKeeps, SignalKeeps
    DEF SignalTaskStep
  <1>3. CASE NrfStep \/ ExecuteFails
    BY <1>3, NrfRegistersKeeps, NrfIssuesTokenKeeps, NrfDeregistersKeeps, NrfRefusesKeeps,
       LoseRequestKeeps, ExecuteFailsKeeps
    DEF NrfStep
  <1>4. CASE UNCHANGED vars
    BY <1>4 DEF vars, IInv, TypeOK, Shape, NothingBefore, ContextFirst, RequestsInOrder,
       AnswerIsTrue, KnownAgree, GoneMeansGone, OwnProfile, Checked
  <1>5. QED
    BY <1>1, <1>2, <1>3, <1>4 DEF Next

\* The invariant holds throughout.
THEOREM Invariance == Spec => []IInv
  BY InitIInv, NextIInv, PTL DEF Spec

\* The state of the process is well typed, with at most one request of each
\* kind under way and no answer that nobody waits for.
THEOREM TypeCorrect == Spec => []TypeOK
  <1>1. IInv => TypeOK
    BY DEF IInv
  <1>2. QED
    BY <1>1, Invariance, PTL

\* NfApp::run never ends well, or with the error of its work alone, while its
\* registration is at the NRF or on the way there.
THEOREM NoSilentOrphan == Spec => []OrphanIsReported
  <1>1. IInv => OrphanIsReported
    BY DEF IInv, Shape, NothingBefore, GoneMeansGone, OrphanIsReported
  <1>2. QED
    BY <1>1, Invariance, PTL

\* deregister_nf_instance names the id under which the NRF holds the
\* registration, and carries the token it asks for.
THEOREM DeregistrationFits == Spec => []DeregistersTheRegistration
  <1>1. IInv => DeregistersTheRegistration
    BY DEF IInv, TypeOK, RequestsInOrder, KnownAgree, DeregistersTheRegistration
  <1>2. QED
    BY <1>1, Invariance, PTL

\* OmniPathApp::start runs only while the NRF holds the registration that the
\* client remembers.
THEOREM ServedIsRegistered == Spec => []ServesRegistered
  <1>1. IInv => ServesRegistered
    BY DEF IInv, KnownAgree, ServesRegistered
  <1>2. QED
    BY <1>1, Invariance, PTL

\* The services of a registered profile have passed validation, whatever the
\* configuration file said.
THEOREM RegisteredIsValid == Spec => []ProfileIsValid
  <1>1. ASSUME IInv, nrf # NoRegistration
        PROVE  /\ DOMAIN nrf.profile.nf_services # {}
               /\ \A i, j \in DOMAIN nrf.profile.nf_services :
                     /\ nrf.profile.nf_services[i].service_name \in AmfServices
                     /\ nrf.profile.nf_services[i].ip_end_point \in nrf.profile.addresses
                     /\ i # j => nrf.profile.nf_services[i].service_instance_id
                                 # nrf.profile.nf_services[j].service_instance_id
    <2>1. nrf.profile = OwnProfile /\ Checked
      BY <1>1 DEF IInv, ContextFirst
    <2>2. /\ nrf.profile.nf_services = BuildNfServices(config)
          /\ nrf.profile.addresses = {config.register_ip}
      BY <2>1 DEF OwnProfile, BuildNfProfile, NewContext
    <2>3. config.service_name_list \in Seq(STRING)
      BY <2>1 DEF Checked, Loaded, ConfigFile
    <2>4. /\ DOMAIN config.service_name_list \subseteq Nat
          /\ DOMAIN config.service_name_list # {}
          /\ \A i \in DOMAIN config.service_name_list : config.service_name_list[i] \in AmfServices
      BY <2>1, <2>3 DEF Checked, Validated, ValidSbi, EnumList
    <2>5. QED
      BY <2>2, <2>4 DEF BuildNfServices
  <1>2. IInv => ProfileIsValid
    BY <1>1 DEF ProfileIsValid
  <1>3. QED
    BY <1>2, Invariance, PTL

-----------------------------------------------------------------------------
(* Shutdown                                                                *)

\* Nobody listens for signals before the configuration is loaded, and the
\* select! is over when the work is.
TasksInStep ==
    /\ pc = "load" => signal_task = "none"
    /\ pc = "select" => work \in {"register", "await_register", "start"}

\* Each task keeps its place.
LEMMA NextTasksInStep == IInv /\ TasksInStep /\ [Next]_vars => TasksInStep'
  <1> SUFFICES ASSUME IInv, TasksInStep, [Next]_vars PROVE TasksInStep'
    OBVIOUS
  <1> USE DEF TasksInStep
  <1>1. CASE MainStep
    BY <1>1 DEF MainStep, Load, LoadFails, Initialize, InitializeFails, RegisterNf,
       RegisterAnswered, StartEnds, SelectSignal, DeregisterNf, TokenAnswered,
       DeregisterAnswered, AfterDeregister, Exit, SelectWork, IInv, NothingBefore
  <1>2. CASE SignalTaskStep \/ Signal
    BY <1>2 DEF SignalTaskStep, InstallHandlers, CancelToken, SignalTaskEnds, Signal
  <1>3. CASE NrfStep \/ ExecuteFails \/ UNCHANGED vars
    BY <1>3 DEF NrfStep, NrfRegisters, NrfIssuesToken, NrfDeregisters, NrfRefuses, LoseRequest,
       ExecuteFails, vars
  <1> QED
    BY <1>1, <1>2, <1>3 DEF Next

\* So they do throughout.
LEMMA TasksStayInStep == Spec => []TasksInStep
  <1>1. Init => TasksInStep
    BY DEF Init, TasksInStep
  <1> QED
    BY <1>1, NextTasksInStep, Invariance, PTL DEF Spec

\* A step after a caught signal is one of the process towards its end, or none
\* of the process.
LEMMA StepNearerToShutdown ==
    ASSUME IInv, TasksInStep, [Next]_vars, Caught
    PROVE  /\ Caught'
           /\ <<pc, work, signal_task>>' # <<pc, work, signal_task>>
                 => ShutdownSteps' < ShutdownSteps
  <1> USE DEF Caught, ShutdownSteps
  <1>1. ASSUME NEW file \in Files, NEW dns \in [HostNames -> Families \cup {None}],
               Load(file, dns)
        PROVE  FALSE
    BY <1>1 DEF Load, TasksInStep
  <1>2. CASE LoadFails
    BY <1>2 DEF LoadFails, TasksInStep
  <1>3. CASE Initialize \/ InitializeFails
    BY <1>3 DEF Initialize, InitializeFails, Exit, IInv, NothingBefore
  <1>4. CASE RegisterNf \/ RegisterAnswered \/ StartEnds
    BY <1>4 DEF RegisterNf, RegisterAnswered, StartEnds, SelectWork
  <1>5. CASE SelectSignal
    BY <1>5 DEF SelectSignal, TasksInStep
  <1>6. CASE DeregisterNf
    BY <1>6 DEF DeregisterNf
  <1>7. CASE TokenAnswered
    <2>1. /\ pc = "await_token"
          /\ pc' \in {"await_deregister", "exited"}
          /\ UNCHANGED <<work, signal_task>>
      BY <1>7 DEF TokenAnswered, Exit
    <2> QED
      BY <2>1
  <1>8. CASE DeregisterAnswered
    BY <1>8 DEF DeregisterAnswered, AfterDeregister, Exit
  <1>9. CASE SignalTaskStep \/ Signal
    BY <1>9 DEF SignalTaskStep, InstallHandlers, CancelToken, SignalTaskEnds, Signal
  <1>10. CASE NrfStep \/ ExecuteFails \/ UNCHANGED vars
    BY <1>10 DEF NrfStep, NrfRegisters, NrfIssuesToken, NrfDeregisters, NrfRefuses, LoseRequest,
       ExecuteFails, vars
  <1> QED
    BY <1>1, <1>2, <1>3, <1>4, <1>5, <1>6, <1>7, <1>8, <1>9, <1>10
    DEF Next, MainStep

\* A caught signal leaves the two tasks nine steps at most.
THEOREM ShutdownCountsDown == Spec => ShutdownRunsOut
  <1>1. IInv /\ TasksInStep /\ [Next]_vars =>
          [Caught => /\ Caught'
                     /\ <<pc, work, signal_task>>' # <<pc, work, signal_task>>
                           => ShutdownSteps' < ShutdownSteps]_vars
    BY StepNearerToShutdown
  <1> QED
    BY <1>1, TasksStayInStep, Invariance, PTL DEF Spec, ShutdownRunsOut

-----------------------------------------------------------------------------
(* Membership                                                              *)

\* The registration is asked for once: while the request is under way the NRF
\* holds nothing, and until it is answered the client knows nothing.
AskedOnce ==
    /\ Requested("register") => nrf = NoRegistration
    /\ work = "await_register" => nf_config = DefaultNfConfig

\* Sending, storing and learning happen once each, in this order.
LEMMA NextAskedOnce == IInv /\ AskedOnce /\ [Next]_vars => AskedOnce'
  <1> SUFFICES ASSUME IInv, AskedOnce, [Next]_vars PROVE AskedOnce'
    OBVIOUS
  <1> USE DEF AskedOnce
  <1>1. CASE RegisterNf
    BY <1>1 DEF RegisterNf, IInv, NothingBefore, SelectWork, Send, PrepareRequest
  <1>2. CASE RegisterAnswered
    BY <1>2 DEF RegisterAnswered, SelectWork
  <1>3. ASSUME NEW r \in requests, NEW id \in Ids, NEW oauth \in BOOLEAN,
               NrfRegisters(r, id, oauth)
        PROVE  AskedOnce'
    <2>1. ~Requested("register")'
      BY <1>3 DEF NrfRegisters, Respond, IInv, TypeOK
    <2> QED
      BY <1>3, <2>1 DEF NrfRegisters
  <1>4. CASE DeregisterNf \/ TokenAnswered
    <2>1. DeregisterRequest.op = "deregister"
      BY DEF DeregisterRequest, PrepareRequest
    <2>2. SetAuthToken(DeregisterRequest, nf_config.nf_instance_id).op = "deregister"
      BY DEF DeregisterRequest, PrepareRequest, SetAuthToken
    <2>3. PrepareRequest("token", nf_config.nf_instance_id, "nnrf-nfm", "form").op = "token"
      BY DEF PrepareRequest
    <2>4. UNCHANGED <<work, nf_config, nrf>>
      BY <1>4 DEF DeregisterNf, TokenAnswered
    <2>5. \A r \in requests' : r \in requests \/ r.op # "register"
      BY <1>4, <2>1, <2>2, <2>3 DEF DeregisterNf, TokenAnswered, Send
    <2> QED
      BY <2>4, <2>5
  <1>5. ASSUME NEW r \in requests, NrfIssuesToken(r) \/ NrfDeregisters(r) \/ NrfRefuses(r) \/ LoseRequest(r)
        PROVE  AskedOnce'
    BY <1>5 DEF NrfIssuesToken, NrfDeregisters, NrfRefuses, LoseRequest, Respond
  <1>6. CASE UNCHANGED <<requests, nrf, nf_config>> /\ (work' = work \/ work' # "await_register")
    BY <1>6
  <1> QED
    BY <1>1, <1>2, <1>3, <1>4, <1>5, <1>6
    DEF Next, MainStep, SignalTaskStep, NrfStep, Load, LoadFails, Initialize, InitializeFails,
        StartEnds, SelectSignal, SelectWork, DeregisterAnswered, InstallHandlers, CancelToken,
        SignalTaskEnds, Signal, ExecuteFails, vars

\* A step that touches neither the registration nor what the client knows, nor
\* ends the process, is none of the membership's.
LEMMA MembershipStutters ==
    ASSUME UNCHANGED <<nrf, nf_config>>, Ending' = Ending
    PROVE  UNCHANGED Membership!vars
  BY DEF Membership!vars, KnownId

\* The process ends cleanly only when the NRF holds nothing.
LEMMA EndIsEnd ==
    ASSUME pc \notin Ended, pc' \in Ended, UNCHANGED <<nrf, nf_config>>,
           Ending' = "clean" => nrf = NoRegistration
    PROVE  Membership!Next
  <1>1. Ending = "running" /\ Ending' \in {"clean", "unclean"}
    BY DEF Ending
  <1>2. PICK how \in {"clean", "unclean"} : how = Ending'
    BY <1>1
  <1>3. Membership!End(how)
    BY <1>1, <1>2 DEF Membership!End, KnownId
  <1> QED
    BY <1>3 DEF Membership!Next

\* Storing the registration is the one Join.
LEMMA StoringJoins ==
    ASSUME IInv, AskedOnce, NEW r \in requests, NEW id \in Ids, NEW oauth \in BOOLEAN,
           NrfRegisters(r, id, oauth)
    PROVE  Membership!Next
  <1>1. nrf = NoRegistration /\ ~Knows
    BY DEF NrfRegisters, AskedOnce, IInv, KnownAgree
  <1>2. Ending # "clean" /\ Ending' = Ending
    BY DEF NrfRegisters, Ending, IInv, Shape, NothingBefore, GoneMeansGone
  <1>3. Membership!Join(id)
    BY <1>1, <1>2 DEF NrfRegisters, Membership!Join, KnownId
  <1> QED
    BY <1>3 DEF Membership!Next

\* An answered registration is what the client learns.
LEMMA AnswerIsLearned ==
    ASSUME IInv, AskedOnce, RegisterAnswered
    PROVE  Membership!Next \/ UNCHANGED Membership!vars
  <1>1. Ending' = "running" /\ Ending = "running" /\ UNCHANGED nrf
    BY DEF RegisterAnswered, SelectWork, Ending
  <1>2. CASE Registered(response)
    <2>1. /\ nrf # NoRegistration /\ nrf.id = RegisteredId(response)
          /\ nrf.id \in Ids
          /\ nf_config' = [nf_instance_id |-> nrf.id, oauth_enabled |-> response.oauth]
          /\ nf_config = DefaultNfConfig
      BY <1>2 DEF RegisterAnswered, IInv, AnswerIsTrue, Shape, AskedOnce
    <2>2. KnownId = None /\ KnownId' = nrf.id /\ nrf.id # None
      BY <2>1 DEF KnownId
    <2>3. Membership!Learn
      BY <1>1, <2>2 DEF Membership!Learn
    <2> QED
      BY <2>3 DEF Membership!Next
  <1>3. CASE ~Registered(response)
    <2>1. UNCHANGED nf_config
      BY <1>3 DEF RegisterAnswered
    <2> QED
      BY <1>1, <2>1, MembershipStutters
  <1> QED
    BY <1>2, <1>3

\* A deregistration that the NRF accepts comes from a client that knows its id.
LEMMA RemovingLeaves ==
    ASSUME IInv, NEW r \in requests, NrfDeregisters(r)
    PROVE  Membership!Next
  <1>1. nrf.id = nf_config.nf_instance_id /\ nrf.id \in Ids
    BY DEF NrfDeregisters, IInv, Shape, RequestsInOrder
  <1>2. nrf.id = KnownId /\ nrf.id # None /\ nrf'.id = None
    BY <1>1 DEF NrfDeregisters, KnownId
  <1>3. UNCHANGED <<nf_config, pc, outcome>>
    BY DEF NrfDeregisters
  <1>4. Membership!Leave
    BY <1>2, <1>3 DEF Membership!Leave, KnownId, Ending
  <1> QED
    BY <1>4 DEF Membership!Next

\* The ends of the process: before it asked for anything, after an answer to
\* the deregistration, in a panic or by a signal.
LEMMA EndingIsEnd ==
    ASSUME IInv, IInv', UNCHANGED <<nrf, nf_config>>, pc \notin Ended
    PROVE  Membership!Next \/ UNCHANGED Membership!vars
  <1>1. CASE pc' \in Ended
    <2>1. Ending' = "clean" => nrf' = NoRegistration
      BY DEF IInv, Shape, NothingBefore, GoneMeansGone, Ending
    <2> QED
      BY <1>1, <2>1, EndIsEnd
  <1>2. CASE pc' \notin Ended
    <2>1. Ending' = Ending
      BY <1>2 DEF Ending
    <2> QED
      BY <2>1, MembershipStutters
  <1> QED
    BY <1>1, <1>2

\* Every step of the process, the network and the NRF is a step of the
\* membership or none of its business.
LEMMA StepIsMembershipStep ==
    IInv /\ AskedOnce /\ [Next]_vars => [Membership!Next]_(Membership!vars)
  <1> SUFFICES ASSUME IInv, AskedOnce, [Next]_vars
               PROVE  Membership!Next \/ UNCHANGED Membership!vars
    OBVIOUS
  <1>0. IInv'
    BY NextIInv
  <1>1. CASE RegisterAnswered
    BY <1>1, AnswerIsLearned
  <1>2. CASE MainStep /\ ~RegisterAnswered
    <2>1. pc \notin Ended /\ UNCHANGED <<nrf, nf_config>>
      BY <1>2 DEF MainStep, Load, LoadFails, Initialize, InitializeFails, RegisterNf, StartEnds,
         SelectSignal, DeregisterNf, TokenAnswered, DeregisterAnswered
    <2> QED
      BY <1>0, <2>1, EndingIsEnd
  <1>3. CASE SignalTaskStep \/ Signal
    <2>1. pc \notin Ended /\ UNCHANGED <<nrf, nf_config>>
      BY <1>3 DEF SignalTaskStep, InstallHandlers, CancelToken, SignalTaskEnds, Signal
    <2> QED
      BY <1>0, <2>1, EndingIsEnd
  <1>4. CASE NrfStep
    <2>1. PICK r \in requests :
            \/ \E id \in Ids, oauth \in BOOLEAN : NrfRegisters(r, id, oauth)
            \/ NrfIssuesToken(r)
            \/ NrfDeregisters(r)
            \/ NrfRefuses(r)
            \/ LoseRequest(r)
      BY <1>4 DEF NrfStep
    <2>2. ASSUME NEW id \in Ids, NEW oauth \in BOOLEAN, NrfRegisters(r, id, oauth)
          PROVE  Membership!Next
      BY <2>2, StoringJoins
    <2>3. CASE NrfDeregisters(r)
      BY <2>3, RemovingLeaves
    <2>4. CASE NrfIssuesToken(r) \/ NrfRefuses(r) \/ LoseRequest(r)
      <3>1. UNCHANGED <<nrf, nf_config, pc, outcome>>
        BY <2>4 DEF NrfIssuesToken, NrfRefuses, LoseRequest
      <3>2. Ending' = Ending
        BY <3>1 DEF Ending
      <3> QED
        BY <3>1, <3>2, MembershipStutters
    <2> QED
      BY <2>1, <2>2, <2>3, <2>4
  <1>5. CASE ExecuteFails \/ UNCHANGED vars
    <2>1. UNCHANGED <<nrf, nf_config, pc, outcome>>
      BY <1>5 DEF ExecuteFails, vars
    <2>2. Ending' = Ending
      BY <2>1 DEF Ending
    <2> QED
      BY <2>1, <2>2, MembershipStutters
  <1> QED
    BY <1>1, <1>2, <1>3, <1>4, <1>5 DEF Next

\* The process, its requests and the NRF implement the membership: it is
\* joined at most once, left only by a client that knows who it is, and not
\* revived after that or after a clean end.
THEOREM MembershipKept == Spec => JoinsOnceAndLeaves
  <1>1. Init => AskedOnce
    BY DEF Init, AskedOnce
  <1>2. Init => Membership!Init
    BY DEF Init, Membership!Init, KnownId, Ending
  <1>3. Spec => []AskedOnce
    BY <1>1, NextAskedOnce, Invariance, PTL DEF Spec
  <1> QED
    BY <1>2, <1>3, StepIsMembershipStep, Invariance, PTL
    DEF Spec, JoinsOnceAndLeaves, Membership!Spec
=============================================================================
