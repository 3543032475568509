---------------------------- MODULE NfLifecycle ----------------------------
(***************************************************************************)
(* The life of the AMF process: NfApp::run (lightning-cli/src/nf_type.rs)  *)
(* loads the configuration, initializes the application, registers it at   *)
(* the NRF, serves until a signal arrives, and deregisters it.  The steps  *)
(* of the application are those of omnipath's lib.rs; the requests are     *)
(* those of NrfClient (utils/client/src/nrf_client.rs).                    *)
(*                                                                         *)
(* Three things run side by side: the main task, the task that waits for a *)
(* signal, and the NRF with the network before it.  A request that was     *)
(* sent may be lost or arrive late, also after its caller was dropped by   *)
(* the select! or was told that the connection failed.                     *)
(***************************************************************************)
EXTENDS AppConfig

CONSTANTS Files,      \* the configuration files
          HostNames,  \* the host names they may use
          Ids,        \* the NF instance ids the NRF may assign
          Own,        \* the UUID that Configuration::new draws
          Nil         \* the default NfInstanceId

ASSUME LifecycleAssumption ==
    /\ Own \in Ids
    /\ Nil \notin Ids
    /\ None \notin Ids \cup {Nil}
    /\ Files \subseteq ConfigFile(Families \cup HostNames)

VARIABLES
    pc,           \* the main task
    config,       \* the parsed configuration
    signal_task,  \* the task that waits for SIGTERM or SIGINT
    cancelled,    \* the cancellation token
    work,         \* the second branch of the select!: register_nf, then start
    app,          \* the AppContext
    global,       \* APP_CONTEXT, which the NGAP handlers read, has been set to it
    nf_config,    \* NrfClient::nf_config
    requests,     \* the requests on their way to the NRF
    response,     \* what the awaited request is answered with
    nrf,          \* this NF's registration at the NRF
    outcome       \* what the process ends with

netVars == <<requests, response, nrf>>
taskVars == <<signal_task, cancelled>>
appVars == <<config, app, global>>
vars == <<pc, work, outcome, nf_config, appVars, taskVars, netVars>>

DefaultNfConfig == [nf_instance_id |-> Nil, oauth_enabled |-> FALSE]

Answer(status, location, oauth) == [status |-> status, location |-> location, oauth |-> oauth]
NoAnswer == Answer("none", None, FALSE)

Registration(id, oauth, profile) == [id |-> id, oauth |-> oauth, profile |-> profile]
NoRegistration == Registration(None, FALSE, None)

Ops == {"register", "token", "deregister"}

Ended == {"exited", "panicked", "killed"}

Init ==
    /\ pc = "load"
    /\ config = None
    /\ signal_task = "none"
    /\ cancelled = FALSE
    /\ work = "register"
    /\ app = None
    /\ global = FALSE
    /\ nf_config = DefaultNfConfig
    /\ requests = {}
    /\ response = NoAnswer
    /\ nrf = NoRegistration
    /\ outcome = None

-----------------------------------------------------------------------------
(* Loading and initializing                                                *)

Exit(result) == pc' = "exited" /\ outcome' = result

\* NfApp::new, then the first lines of NfApp::run.
Load(file, dns) ==
    /\ pc = "load"
    /\ \/ /\ ParseConfig(dns, file) # None
          /\ config' = ParseConfig(dns, file)
          /\ pc' = "initialize"
          /\ signal_task' = "spawned"
          /\ UNCHANGED outcome
       \/ /\ ParseConfig(dns, file) = None
          /\ Exit("AppSetupError")
          /\ UNCHANGED <<config, signal_task>>
    /\ UNCHANGED <<work, nf_config, app, global, cancelled, netVars>>

\* The file cannot be opened: NfApp::new panics; or it cannot be read.
LoadFails ==
    /\ pc = "load"
    /\ \/ pc' = "panicked" /\ UNCHANGED outcome
       \/ Exit("AppSetupError")
    /\ UNCHANGED <<work, nf_config, appVars, taskVars, netVars>>

\* OmniPathApp::initialize gets to its end.
Initialize ==
    /\ pc = "initialize"
    /\ config.nrf_uri = "url"
    /\ Validated(config)
    /\ config.ngap_ip_list # <<>>
    /\ app' = NewContext(config, Own)
    /\ global' = TRUE
    /\ pc' = "select"
    /\ UNCHANGED <<work, outcome, nf_config, config, taskVars, netVars>>

\* An invalid URI or configuration, or an HTTP client or SCTP socket that
\* cannot be made, is an error; an empty ngap_ip_list passes validation, and
\* taking its first element panics.
InitializeFails ==
    /\ pc = "initialize"
    /\ \/ Exit("InitializationFailedError")
       \/ /\ config.nrf_uri = "url"
          /\ Validated(config)
          /\ config.ngap_ip_list = <<>>
          /\ pc' = "panicked"
          /\ UNCHANGED outcome
    /\ UNCHANGED <<work, nf_config, appVars, taskVars, netVars>>
-----------------------------------------------------------------------------
(* The signal task                                                         *)

\* The handlers are installed when the task is first polled.
InstallHandlers ==
    /\ pc \notin Ended
    /\ signal_task = "spawned"
    /\ signal_task' \in {"listening", "panicked"}
    /\ UNCHANGED <<pc, work, outcome, nf_config, appVars, cancelled, netVars>>

\* A signal before that ends the process; a later one wakes the task.  After
\* the task has panicked, a signal whose handler could not be installed ends
\* the process, and one whose handler was is not noticed.
Signal ==
    /\ pc \notin Ended
    /\ \/ /\ signal_task \in {"none", "spawned", "panicked"}
          /\ pc' = "killed"
          /\ UNCHANGED signal_task
       \/ /\ signal_task = "listening"
          /\ signal_task' = "received"
          /\ UNCHANGED pc
    /\ UNCHANGED <<work, outcome, nf_config, appVars, cancelled, netVars>>

CancelToken ==
    /\ pc \notin Ended
    /\ signal_task = "received"
    /\ signal_task' = "cancelling"
    /\ cancelled' = TRUE
    /\ UNCHANGED <<pc, work, outcome, nf_config, appVars, netVars>>

SignalTaskEnds ==
    /\ pc \notin Ended
    /\ signal_task = "cancelling"
    /\ signal_task' = "finished"
    /\ UNCHANGED <<pc, work, outcome, nf_config, appVars, cancelled, netVars>>

-----------------------------------------------------------------------------
(* The work: register_nf and start                                         *)

Working(step) == pc = "select" /\ work = step

\* The caller of a request, while it waits for the answer.
Awaits(op) ==
    \/ op = "register" /\ Working("await_register")
    \/ op = "token" /\ pc = "await_token"
    \/ op = "deregister" /\ pc = "await_deregister"

Send(request) == requests' = requests \cup {request}

\* The work has a result, which is the branch the select! takes: the poll that
\* completes it does not look at the signal task any more.
SelectWork(result) == work' = result /\ pc' = "deregister"

\* build_nf_profile may refuse the profile; otherwise it is sent.
RegisterNf ==
    /\ Working("register")
    /\ \/ SelectWork("err") /\ UNCHANGED requests
       \/ /\ Send(PrepareRequest("register", app.nf_id, BuildNfProfile(app), "json"))
          /\ work' = "await_register"
          /\ UNCHANGED pc
    /\ UNCHANGED <<outcome, nf_config, appVars, taskVars, response, nrf>>

\* Mutant: the Location of a 201 is not looked at.
RegisteredAnywhere(r) == r.status \in {"ok", "created"}

\* Mutant: an error status is taken for a registration without an id.
RegisteredOrRefused(r) ==
    r.status \in {"ok", "problem"} \/ (r.status = "created" /\ r.location # None)

\* Status 200, or 201 with a Location that ends in an id.
Registered(r) == r.status = "ok" \/ (r.status = "created" /\ r.location # None)

\* The id the NRF assigned, if it named one, and else the one asked for.
RegisteredId(r) == IF r.status = "created" THEN r.location ELSE app.nf_id

\* register_nf_instance has its answer: nf_config is stored, and the id is
\* committed to the application context when it is the one already there.
RegisterAnswered ==
    /\ Awaits("register")
    /\ response # NoAnswer
    /\ response' = NoAnswer
    /\ \/ /\ Registered(response)
          /\ nf_config' = [nf_instance_id |-> RegisteredId(response),
                           oauth_enabled |-> response.oauth]
          /\ app' = IF response.status = "created" /\ response.location = app.nf_id
                    THEN CommitNfId(app, response.location)
                    ELSE app
          /\ work' = "start"
          /\ UNCHANGED pc
       \/ /\ ~Registered(response)
          /\ SelectWork("err")
          /\ UNCHANGED <<nf_config, app>>
    /\ UNCHANGED <<outcome, config, global, taskVars, requests, nrf>>

\* NgapContext::run returns when the token is cancelled, and not before.
StartEnds ==
    /\ Working("start")
    /\ cancelled
    /\ SelectWork("ok")
    /\ UNCHANGED <<outcome, nf_config, appVars, taskVars, netVars>>

\* The other branch: the signal task has ended, be it in a panic, and the
\* work is dropped where it stands.
SelectSignal ==
    /\ pc = "select"
    /\ signal_task \in {"finished", "panicked"}
    /\ work' = "dropped"
    /\ pc' = "deregister"
    /\ response' = NoAnswer
    /\ UNCHANGED <<outcome, nf_config, appVars, taskVars, requests, nrf>>

-----------------------------------------------------------------------------
(* deregister_nf, in either branch                                         *)

\* Mutant: the id of the application context.
ContextId == app.nf_id

DeregisterId == nf_config.nf_instance_id

DeregisterRequest == PrepareRequest("deregister", DeregisterId, None, "json")

\* The NRF asked for OAuth: a token is requested first.
DeregisterNf ==
    /\ pc = "deregister"
    /\ \/ /\ nf_config.oauth_enabled
          /\ Send(PrepareRequest("token", nf_config.nf_instance_id, "nnrf-nfm", "form"))
          /\ pc' = "await_token"
       \/ /\ ~nf_config.oauth_enabled
          /\ Send(DeregisterRequest)
          /\ pc' = "await_deregister"
    /\ UNCHANGED <<work, outcome, nf_config, appVars, taskVars, response, nrf>>

\* What NfApp::run makes of the two results.
NfResult(deregistered) ==
    IF deregistered
    THEN IF work = "err" THEN "RuntimeError" ELSE "Ok"
    ELSE IF work = "err" THEN "RuntimeWithDeregistrationError"
                         ELSE "ShutdownDeregistrationFailedError"

TokenAnswered ==
    /\ Awaits("token")
    /\ response # NoAnswer
    /\ response' = NoAnswer
    /\ \/ /\ response.status = "ok"
          /\ Send(SetAuthToken(DeregisterRequest, nf_config.nf_instance_id))
          /\ pc' = "await_deregister"
          /\ UNCHANGED outcome
       \/ /\ response.status # "ok"
          /\ Exit(NfResult(FALSE))
          /\ UNCHANGED requests
    /\ UNCHANGED <<work, nf_config, appVars, taskVars, nrf>>

\* Mutant: an error status means that there is nothing left to deregister.
DeregisteredOrUnknown(r) == r.status \in {"no_content", "problem"}

Deregistered(r) == r.status = "no_content"

\* Mutant: a failed connection is tried again.
DeregisterAgain(r) ==
    IF r.status = "failed" THEN pc' = "deregister" /\ UNCHANGED outcome
                           ELSE Exit(NfResult(Deregistered(r)))

AfterDeregister(r) == Exit(NfResult(Deregistered(r)))

DeregisterAnswered ==
    /\ Awaits("deregister")
    /\ response # NoAnswer
    /\ response' = NoAnswer
    /\ AfterDeregister(response)
    /\ UNCHANGED <<work, nf_config, appVars, taskVars, requests, nrf>>

-----------------------------------------------------------------------------
(* The network and the NRF                                                 *)

\* The answer to r reaches whoever still waits for it.
Respond(r, answer) ==
    /\ requests' = requests \ {r}
    /\ response' = IF Awaits(r.op) /\ response = NoAnswer THEN answer ELSE response

netUnchanged == UNCHANGED <<pc, work, outcome, nf_config, appVars, taskVars>>

\* A registration is stored under the id asked for, or under one the NRF
\* assigns; the Location of a 201 may be unreadable.
NrfRegisters(r, id, oauth) ==
    /\ r.op = "register"
    /\ nrf' = Registration(id, oauth, r.body.content)
    /\ \/ Respond(r, Answer("created", id, oauth))
       \/ id = r.id /\ Respond(r, Answer("created", None, oauth))
       \/ id = r.id /\ Respond(r, Answer("ok", None, oauth))
    /\ netUnchanged

NrfIssuesToken(r) ==
    /\ r.op = "token"
    /\ Respond(r, Answer("ok", None, FALSE))
    /\ UNCHANGED nrf
    /\ netUnchanged

\* The registration is removed if the request names it and, where OAuth is
\* in use, carries the token of that NF.
NrfDeregisters(r) ==
    /\ r.op = "deregister"
    /\ nrf # NoRegistration
    /\ nrf.id = r.id
    /\ nrf.oauth => r.authorization = r.id
    /\ nrf' = NoRegistration
    /\ Respond(r, Answer("no_content", None, FALSE))
    /\ netUnchanged

\* An error status, for whatever reason.
NrfRefuses(r) ==
    /\ Respond(r, Answer("problem", None, FALSE))
    /\ UNCHANGED nrf
    /\ netUnchanged

LoseRequest(r) ==
    /\ requests' = requests \ {r}
    /\ UNCHANGED <<response, nrf>>
    /\ netUnchanged

\* The connection fails, or the answer cannot be decoded; the request itself
\* may still arrive.
ExecuteFails ==
    /\ \E op \in Ops : Awaits(op)
    /\ response = NoAnswer
    /\ response' = Answer("failed", None, FALSE)
    /\ UNCHANGED <<requests, nrf>>
    /\ netUnchanged

-----------------------------------------------------------------------------
MainStep ==
    \/ \E file \in Files, dns \in [HostNames -> Families \cup {None}] : Load(file, dns)
    \/ LoadFails
    \/ Initialize
    \/ InitializeFails
    \/ RegisterNf
    \/ RegisterAnswered
    \/ StartEnds
    \/ SelectSignal
    \/ DeregisterNf
    \/ TokenAnswered
    \/ DeregisterAnswered

SignalTaskStep == InstallHandlers \/ CancelToken \/ SignalTaskEnds

NrfStep ==
    \E r \in requests :
        \/ \E id \in Ids, oauth \in BOOLEAN : NrfRegisters(r, id, oauth)
        \/ NrfIssuesToken(r)
        \/ NrfDeregisters(r)
        \/ NrfRefuses(r)
        \/ LoseRequest(r)

Next == MainStep \/ SignalTaskStep \/ Signal \/ NrfStep \/ ExecuteFails

Spec == Init /\ [][Next]_vars

\* Both tasks are polled.  The NRF and the network owe nothing: the client has
\* no timeout, so a request may be awaited for ever.
FairSpec ==
    /\ Spec
    /\ WF_vars(MainStep)
    /\ WF_vars(SignalTaskStep)

-----------------------------------------------------------------------------
(* Properties                                                              *)

\* Every variable has the type the code gives it, at most one request of each
\* kind is under way, and nothing is answered that nobody waits for.
TypeOK ==
    /\ pc \in {"load", "initialize", "select", "deregister", "await_token",
               "await_deregister"} \cup Ended
    /\ signal_task \in {"none", "spawned", "listening", "panicked", "received",
                        "cancelling", "finished"}
    /\ cancelled \in BOOLEAN
    /\ work \in {"register", "await_register", "start", "ok", "err", "dropped"}
    /\ nf_config \in [nf_instance_id : Ids \cup {Nil}, oauth_enabled : BOOLEAN]
    /\ global \in BOOLEAN
    /\ nrf.id \in Ids \cup {None} /\ nrf.oauth \in BOOLEAN
    /\ \A r, s \in requests : r.op = s.op => r = s
    /\ response # NoAnswer => pc = "killed" \/ \E op \in Ops : Awaits(op)

\* A process that ends without reporting a failed deregistration has left
\* nothing at the NRF, and nothing on its way there: neither a registration
\* whose request was dropped by the signal, nor one whose answer was lost.
OrphanIsReported ==
    pc = "exited" /\ outcome \notin {"RuntimeWithDeregistrationError",
                                     "ShutdownDeregistrationFailedError"}
        => nrf = NoRegistration /\ \A r \in requests : r.op # "register"

\* The id the client was told, if any.
KnownId == IF nf_config.nf_instance_id = Nil THEN None ELSE nf_config.nf_instance_id

\* How the process ended: an end that reports a failed deregistration, a panic
\* or a kill is not a clean one.
Ending ==
    CASE pc \notin Ended -> "running"
      [] pc = "exited" /\ outcome \notin {"RuntimeWithDeregistrationError",
                                          "ShutdownDeregistrationFailedError"} -> "clean"
      [] OTHER -> "unclean"

Membership == INSTANCE NfMembership
              WITH member <- nrf.id, known <- KnownId, process <- Ending

\* Whatever a signal interrupts and whatever the network loses or delays, the
\* NF joins the NRF at most once, what the client remembers is who it joined
\* as, only a request of a client that knows it ends the membership, and no
\* late request revives it after that or after a clean end.
JoinsOnceAndLeaves == Membership!Spec

\* Once the registration has been answered, the request that ends it names the
\* id the NRF knows the NF by, and carries that NF's token where the NRF asked
\* for one; the id the application generated may be another.
DeregistersTheRegistration ==
    \A r \in requests :
        r.op = "deregister" /\ r.id # Nil /\ nrf # NoRegistration
            => r.id = nrf.id /\ (nrf.oauth => r.authorization = nrf.id)

\* gNBs are served only while the NRF holds the registration, under the id
\* that the client remembers.
ServesRegistered ==
    Working("start") => nrf # NoRegistration /\ nrf.id = nf_config.nf_instance_id

\* What the NRF is told of the services comes from a validated configuration:
\* at least one, all of them an AMF's, under distinct instance ids, each
\* reachable under the address that the profile itself names.
ProfileIsValid ==
    nrf # NoRegistration =>
        LET services == nrf.profile.nf_services
        IN  /\ DOMAIN services # {}
            /\ \A i, j \in DOMAIN services :
                   /\ services[i].service_name \in AmfServices
                   /\ services[i].ip_end_point \in nrf.profile.addresses
                   /\ i # j => services[i].service_instance_id # services[j].service_instance_id

\* A request made while deregistering that has no answer.
Unanswered == pc \in {"await_token", "await_deregister"} /\ response = NoAnswer

\* After a caught signal the process ends, whatever it was doing and whatever
\* becomes of its registration: a request for it is dropped if it is still
\* unanswered.  Only the requests of the deregistration itself can keep the
\* process, and only one of them, by never being answered.
SignalEndsProcess ==
    signal_task = "received" ~> (pc \in Ended \/ []Unanswered)

Caught == signal_task \in {"received", "cancelling", "finished"}

\* How many steps the two tasks can still take after a signal was caught, at
\* most.
ShutdownSteps ==
    (CASE signal_task = "received"   -> 2
       [] signal_task = "cancelling" -> 1
       [] OTHER                      -> 0)
    + (CASE pc = "initialize"         -> 7
         [] Working("register")       -> 6
         [] Working("await_register") -> 5
         [] Working("start")          -> 4
         [] pc = "deregister"         -> 3
         [] pc = "await_token"        -> 2
         [] pc = "await_deregister"   -> 1
         [] OTHER                     -> 0)

\* Once a signal was caught, whatever a task does brings the end of the process
\* nearer, and no answer, late or lost, puts it off: a registration may still be
\* sent and gNBs may still be served, but nothing is done twice.  From anywhere,
\* nine steps are the most.
ShutdownRunsOut ==
    [][Caught =>
          /\ Caught'
          /\ <<pc, work, signal_task>>' # <<pc, work, signal_task>>
                => ShutdownSteps' < ShutdownSteps]_vars
=============================================================================
