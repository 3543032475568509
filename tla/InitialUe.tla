----------------------------- MODULE InitialUe ------------------------------
(***************************************************************************)
(* The messages of one gNB: the tasks that run_ngap_loop spawns, the       *)
(* routing of ngap/core/ngap_route.rs and the responses of ngap/engine,    *)
(* the InitialUeMessage handler of ngap/core/initial_ue_message.rs and the *)
(* operations of ngap/manager/context_manager.rs that it uses.             *)
(*                                                                         *)
(* Each message is handled by a task of its own, so handlers of messages   *)
(* with the same RAN UE id interleave at every await, and go on after the  *)
(* connection has ended.  A UE context is named by the message that made   *)
(* it.                                                                     *)
(***************************************************************************)
EXTENDS Naturals

CONSTANTS Msgs,      \* the messages the gNB sends
          RanUeIds,  \* the RAN UE NGAP ids they carry
          None       \* "no context", "no id"

\* new_semantic_error: the error indication for a PDU that has no handler.
NewSemanticError == "semantic_error"

\* The error indication for bytes that are no PDU: "falsely constructed
\* message", with the diagnostics of the decoder.
BuildCriticalityDiagnostics == "falsely_constructed"

Pdus == {NewSemanticError, BuildCriticalityDiagnostics}

ASSUME InitialUeAssumption == None \notin Msgs \cup RanUeIds \cup Pdus

VARIABLES
    connected,            \* the message loop reads
    pc,                   \* per message: where its task is
    ran_ue_id,            \* per message: the id it carries
    amf_ue_id,            \* per message: the AMF UE NGAP id of its context
    amf_ue_id_generator,  \* the gNB's counter
    queues,               \* the ContextManager: id -> context
    target,               \* per message: the context its NAS PDU is given to
    response,             \* per message: the PDU still to be written, or None
    sent                  \* per message: the PDU written to the stream, or None

ioVars == <<response, sent>>
vars == <<connected, pc, ran_ue_id, amf_ue_id, amf_ue_id_generator, queues, target, ioVars>>

\* How handle_request returns.
Results == {"handled", "already_exists", "not_found"}

Ended == Results \cup {"panicked", "answered"}

TypeOK ==
    /\ connected \in BOOLEAN
    /\ pc \in [Msgs -> {"none", "check", "create", "add", "with", "scheduled", "reply"}
                       \cup Ended]
    /\ ran_ue_id \in [Msgs -> RanUeIds \cup {None}]
    /\ amf_ue_id \in [Msgs -> Nat]
    /\ amf_ue_id_generator \in Nat
    /\ queues \in [RanUeIds -> Msgs \cup {None}]
    /\ target \in [Msgs -> Msgs \cup {None}]
    /\ response \in [Msgs -> Pdus \cup {None}]
    /\ sent \in [Msgs -> Pdus \cup {None}]
    /\ \A m \in Msgs : amf_ue_id[m] < amf_ue_id_generator

Init ==
    /\ connected = TRUE
    /\ pc = [m \in Msgs |-> "none"]
    /\ ran_ue_id = [m \in Msgs |-> None]
    /\ amf_ue_id = [m \in Msgs |-> 0]
    /\ amf_ue_id_generator = 1
    /\ queues = [i \in RanUeIds |-> None]
    /\ target = [m \in Msgs |-> None]
    /\ response = [m \in Msgs |-> None]
    /\ sent = [m \in Msgs |-> None]

-----------------------------------------------------------------------------
\* The loop reads an InitialUeMessage and spawns its task.
ReceiveInitialUe(m, i) ==
    /\ connected
    /\ pc[m] = "none"
    /\ ran_ue_id' = [ran_ue_id EXCEPT ![m] = i]
    /\ pc' = [pc EXCEPT ![m] = "check"]
    /\ UNCHANGED <<connected, amf_ue_id, amf_ue_id_generator, queues, target, ioVars>>

\* Any other message: its task has its response before the first await.
ReceiveOther(m, pdu) ==
    /\ connected
    /\ pc[m] = "none"
    /\ pc' = [pc EXCEPT ![m] = "reply"]
    /\ response' = [response EXCEPT ![m] = pdu]
    /\ UNCHANGED <<connected, ran_ue_id, amf_ue_id, amf_ue_id_generator, queues, target, sent>>

\* decode_ngap_pdu fails.
ReceiveUndecodable(m) == ReceiveOther(m, BuildCriticalityDiagnostics)

\* ngap_route has no handler: another initiating message, or an outcome.
ReceiveUnrouted(m) == ReceiveOther(m, NewSemanticError)

\* write_data: the PDU of m is sent, or encoding or sending it fails.
WriteData(m) == sent' \in {sent, [sent EXCEPT ![m] = response[m]]}

\* Mutant: the response is written only while the loop still reads.
ReplyConnected(m) ==
    /\ connected
    /\ response[m] # None
    /\ pc' = [pc EXCEPT ![m] = "answered"]
    /\ response' = [response EXCEPT ![m] = None]
    /\ WriteData(m)
    /\ UNCHANGED <<connected, ran_ue_id, amf_ue_id, amf_ue_id_generator, queues, target>>

\* A response is written; a failure to do so is only logged.
Reply(m) ==
    /\ response[m] # None
    /\ pc' = [pc EXCEPT ![m] = "answered"]
    /\ response' = [response EXCEPT ![m] = None]
    /\ WriteData(m)
    /\ UNCHANGED <<connected, ran_ue_id, amf_ue_id, amf_ue_id_generator, queues, target>>

\* The stream ends or fails: no further message is read.
Disconnect ==
    /\ connected
    /\ connected' = FALSE
    /\ UNCHANGED <<pc, ran_ue_id, amf_ue_id, amf_ue_id_generator, queues, target, ioVars>>

\* EmptyResponse::to_pdu gives no PDU.
EmptyResponse == None

\* Mutant: an error is reported to the gNB.
NewGenericError == NewSemanticError

\* new_empty_failure_error: an error whose failure part is an EmptyResponse.
NewEmptyFailureError == EmptyResponse

\* log_and_convert_to_pdu: the response that a handler's result stands for.
LogAndConvertToPdu(result) ==
    IF result = "handled" THEN EmptyResponse ELSE NewEmptyFailureError

\* A handler that returns leaves its task with a response, or with none; one
\* that goes on, or panics, leaves nothing.
Respond(m) ==
    /\ response' = [response EXCEPT ![m] = IF pc'[m] \in Results
                                           THEN LogAndConvertToPdu(pc'[m]) ELSE None]
    /\ UNCHANGED sent

\* A message for a UE that has a context is dropped without an answer.
ContainsContext(m) ==
    /\ pc[m] = "check"
    /\ pc' = [pc EXCEPT ![m] = IF queues[ran_ue_id[m]] # None THEN "already_exists"
                               ELSE "create"]
    /\ Respond(m)
    /\ UNCHANGED <<connected, ran_ue_id, amf_ue_id, amf_ue_id_generator, queues, target>>

\* Mutant: the id is read, and stored back only later.
IncrementLost == UNCHANGED amf_ue_id_generator

Increment == amf_ue_id_generator' = amf_ue_id_generator + 1

\* The UE context gets the next AMF UE NGAP id.
NewUeContext(m) ==
    /\ pc[m] = "create"
    /\ amf_ue_id' = [amf_ue_id EXCEPT ![m] = amf_ue_id_generator]
    /\ Increment
    /\ pc' = [pc EXCEPT ![m] = "add"]
    /\ UNCHANGED <<connected, ran_ue_id, queues, target, ioVars>>

\* Arc::into_inner(queue).unwrap() with `references` strong references.
IntoInner(references) == IF references = 1 THEN "already_exists" ELSE "panicked"

\* Mutant: the outcome of the insert is ignored.
AddContextIgnored(m) ==
    /\ queues' = [queues EXCEPT ![ran_ue_id[m]] = IF @ = None THEN m ELSE @]
    /\ pc' = [pc EXCEPT ![m] = "with"]

\* add_context.  When the id is taken, the Arc that comes back from the
\* failed insert is a clone of the local one, which is still alive: there are
\* two references.
AddContext(m) ==
    \/ /\ queues[ran_ue_id[m]] = None
       /\ queues' = [queues EXCEPT ![ran_ue_id[m]] = m]
       /\ pc' = [pc EXCEPT ![m] = "with"]
    \/ /\ queues[ran_ue_id[m]] # None
       /\ pc' = [pc EXCEPT ![m] = IntoInner(2)]
       /\ UNCHANGED queues

AddUeContext(m) ==
    /\ pc[m] = "add"
    /\ AddContext(m)
    /\ Respond(m)
    /\ UNCHANGED <<connected, ran_ue_id, amf_ue_id, amf_ue_id_generator, target>>

\* with_context looks the context up and schedules the NAS handler on it.
WithContext(m) ==
    /\ pc[m] = "with"
    /\ target' = [target EXCEPT ![m] = queues[ran_ue_id[m]]]
    /\ pc' = [pc EXCEPT ![m] = IF queues[ran_ue_id[m]] # None THEN "scheduled"
                               ELSE "not_found"]
    /\ Respond(m)
    /\ UNCHANGED <<connected, ran_ue_id, amf_ue_id, amf_ue_id_generator, queues>>

\* The context's queue has run handle_nas, which does nothing yet.
HandleNas(m) ==
    /\ pc[m] = "scheduled"
    /\ pc' = [pc EXCEPT ![m] = "handled"]
    /\ Respond(m)
    /\ UNCHANGED <<connected, ran_ue_id, amf_ue_id, amf_ue_id_generator, queues, target>>

-----------------------------------------------------------------------------
TaskStep(m) ==
    \/ Reply(m)
    \/ ContainsContext(m)
    \/ NewUeContext(m)
    \/ AddUeContext(m)
    \/ WithContext(m)
    \/ HandleNas(m)

Next ==
    \/ \E m \in Msgs, i \in RanUeIds : ReceiveInitialUe(m, i)
    \/ \E m \in Msgs : ReceiveUndecodable(m) \/ ReceiveUnrouted(m)
    \/ Disconnect
    \/ \E m \in Msgs : TaskStep(m)

Spec == Init /\ [][Next]_vars

\* The runtime polls every task, writes return and the context queue runs
\* what was scheduled (its run shows that).  The gNB owes nothing.
FairSpec == Spec /\ \A m \in Msgs : WF_vars(TaskStep(m))

-----------------------------------------------------------------------------
(* Properties                                                              *)

\* However messages with one RAN UE id race between the check and the add,
\* a NAS PDU is only ever given to the context its own message made, under
\* its own id, and the look-up after the add always finds it
\* (UeContextNotFound is never returned).
NasReachesOwnContext ==
    \A m \in Msgs :
        /\ pc[m] # "not_found"
        /\ target[m] # None => target[m] = m /\ queues[ran_ue_id[m]] = m

\* What a message's task is to the ContextManager: a client whose one changing
\* call, add_context, is still to come, was accepted, or panicked.
AddCall(m) ==
    CASE pc[m] \in {"with", "scheduled", "handled", "not_found"} -> "ok"
      [] pc[m] = "panicked" -> "panicked"
      [] OTHER -> "idle"

Nothing == [m \in Msgs |-> None]

Manager == INSTANCE ContextManager
           WITH Clients <- Msgs, Ids <- RanUeIds,
                pc <- [m \in Msgs |-> AddCall(m)],
                old_id <- Nothing, new_id <- Nothing, element <- Nothing,
                dropped <- {m \in Msgs : pc[m] = "panicked"}

\* The handlers of a gNB, however they interleave, use the ContextManager as
\* its clients do: every change of the map is one accepted add_context of one
\* task, and an add that is refused loses exactly its own context.
HandlersAreClients == Manager!Spec

\* No two UE contexts of the gNB share an AMF UE NGAP id.
AmfUeIdsUnique ==
    \A i, j \in RanUeIds :
        queues[i] # None /\ queues[j] # None /\ i # j
            => amf_ue_id[queues[i]] # amf_ue_id[queues[j]]

\* "If the UE context already exists, return an empty response": whatever
\* becomes of an InitialUeMessage, handled, lost to a duplicate or to a panic,
\* the gNB is sent nothing for it, while any other message always has its
\* error indication ahead of it until a write of it was tried.
OnlyOthersAreAnswered ==
    \A m \in Msgs :
        /\ ran_ue_id[m] # None => response[m] = None /\ sent[m] = None
        /\ pc[m] # "none" /\ ran_ue_id[m] = None /\ response[m] = None => pc[m] = "answered"

\* Every message that was read is dealt with to the end, also when the
\* connection ends while its task is under way.
TasksEnd == \A m \in Msgs : pc[m] # "none" ~> pc[m] \in Ended /\ response[m] = None

\* add_context: "Err(ContextError::ContextAlreadyExists) if a context with
\* the same ID already exists"; it does not panic.
DuplicateIsReported == \A m \in Msgs : pc[m] # "panicked"
=============================================================================
