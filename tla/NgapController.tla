--------------------------- MODULE NgapController ---------------------------
(***************************************************************************)
(* The life of the RAN connections of the AMF: ngap/engine/controller.rs,  *)
(* the NG Setup handler of ngap/core/ng_setup.rs and the association table *)
(* of ngap/network/network.rs.                                             *)
(*                                                                         *)
(* The accept loop turns an SCTP connection into a TNLA association and    *)
(* spawns a task for it.  The task makes up to three attempts at an NG     *)
(* Setup (read a PDU, handle it, answer it); when one succeeds it          *)
(* registers the gNB under its global RAN node id and spawns the message   *)
(* loop, which runs until the stream ends or fails.                        *)
(*                                                                         *)
(* Each connection is a task of its own, so the tasks interleave at every  *)
(* await; the state they share is gnb_contexts (an scc::HashMap, atomic    *)
(* per operation) and the association table.                               *)
(***************************************************************************)
EXTENDS Naturals

CONSTANTS Conns,    \* the SCTP connections that are ever made
          Addrs,    \* the address pairs they come from
          RanIds,   \* the global RAN node ids
          Tais,     \* the tracking areas a gNB may announce
          AmfTais,  \* those the AMF's configuration supports
          BadTais,  \* those whose PLMN identity cannot be converted
          None      \* "no entry"

ASSUME ControllerAssumption ==
    /\ AmfTais \subseteq Tais
    /\ BadTais \subseteq Tais
    /\ None \notin Conns
    /\ None \notin Addrs
    /\ None \notin RanIds

INITIALIZATION_RETRIES == 3

VARIABLES
    sock,              \* per connection: the state of its stream
    remote,            \* per connection: the address pair
    pc,                \* per connection: where its task is
    attempt,           \* per connection: which NG Setup attempt this is
    ran,               \* per connection: global_ran_node_id of its GnbContext
    reply,             \* per connection: the PDU the attempt answers with
    gnb_contexts,      \* RAN node id -> the connection registered under it
    associations,      \* the connections in the association table
    associations_set,  \* the address pairs in the association table
    cancelled,         \* the CancellationToken
    accepting          \* the accept loop runs

connVars == <<sock, remote, pc, attempt, ran, reply>>
tableVars == <<gnb_contexts, associations, associations_set>>
runVars == <<cancelled, accepting>>
vars == <<connVars, tableVars, runVars>>

TypeOK ==
    /\ sock \in [Conns -> {"none", "open", "eof", "reset", "dropped"}]
    /\ remote \in [Conns -> Addrs \cup {None}]
    /\ pc \in [Conns -> {"none", "backlog", "refused", "setup", "respond", "register",
                         "loop", "closing", "closed", "errored", "failed", "panicked"}]
    /\ attempt \in [Conns -> 1 .. INITIALIZATION_RETRIES]
    /\ ran \in [Conns -> RanIds \cup {None}]
    /\ reply \in [Conns -> {"none", "NgSetupResponse", "NgSetupFailure", "ErrorIndication"}]
    /\ gnb_contexts \in [RanIds -> Conns \cup {None}]
    /\ associations \subseteq Conns
    /\ associations_set \subseteq Addrs
    /\ cancelled \in BOOLEAN
    /\ accepting \in BOOLEAN

Init ==
    /\ sock = [c \in Conns |-> "none"]
    /\ remote = [c \in Conns |-> None]
    /\ pc = [c \in Conns |-> "none"]
    /\ attempt = [c \in Conns |-> 1]
    /\ ran = [c \in Conns |-> None]
    /\ reply = [c \in Conns |-> "none"]
    /\ gnb_contexts = [r \in RanIds |-> None]
    /\ associations = {}
    /\ associations_set = {}
    /\ cancelled = FALSE
    /\ accepting = TRUE

-----------------------------------------------------------------------------
(* The peers and the operator (environment)                                *)

\* A gNB connects.  SCTP allows one open association per address pair.
PeerConnects(c, a) ==
    /\ pc[c] = "none"
    /\ \A d \in Conns : remote[d] = a => sock[d] # "open"
    /\ sock' = [sock EXCEPT ![c] = "open"]
    /\ remote' = [remote EXCEPT ![c] = a]
    /\ pc' = [pc EXCEPT ![c] = "backlog"]
    /\ UNCHANGED <<attempt, ran, reply, tableVars, runVars>>

\* The peer shuts its end down: from now on a read returns zero bytes.
PeerCloses(c) ==
    /\ sock[c] = "open"
    /\ sock' = [sock EXCEPT ![c] = "eof"]
    /\ UNCHANGED <<remote, pc, attempt, ran, reply, tableVars, runVars>>

Cancel ==
    /\ ~cancelled
    /\ cancelled' = TRUE
    /\ UNCHANGED <<connVars, tableVars, accepting>>

-----------------------------------------------------------------------------
(* The accept loop: NgapContext::run, Network::accept_and_create_tnla and  *)
(* Associations::add_tnla_association                                      *)

\* Mutant: the duplicate check is left out.
AddAnyAssociation(c) ==
    /\ associations' = associations \cup {c}
    /\ associations_set' = associations_set \cup {remote[c]}
    /\ pc' = [pc EXCEPT ![c] = "setup"]
    /\ UNCHANGED sock

\* A second association between the same addresses is refused and its stream
\* dropped; any other is entered and gets a task that starts with NG Setup.
AddTnlaAssociation(c) ==
    \/ /\ remote[c] \in associations_set
       /\ pc' = [pc EXCEPT ![c] = "refused"]
       /\ sock' = [sock EXCEPT ![c] = "dropped"]
       /\ UNCHANGED <<associations, associations_set>>
    \/ /\ remote[c] \notin associations_set
       /\ associations' = associations \cup {c}
       /\ associations_set' = associations_set \cup {remote[c]}
       /\ pc' = [pc EXCEPT ![c] = "setup"]
       /\ UNCHANGED sock

Accept(c) ==
    /\ accepting
    /\ pc[c] = "backlog"
    /\ AddTnlaAssociation(c)
    /\ UNCHANGED <<remote, attempt, ran, reply, gnb_contexts, runVars>>

\* Accepting a connection, or asking the new stream for its addresses, fails.
\* An error that leaves the connection in the backlog (the process is out of
\* file descriptors) changes nothing, and may recur at every poll.
AcceptFails(c) ==
    /\ accepting
    /\ pc[c] = "backlog"
    /\ pc' = [pc EXCEPT ![c] = "refused"]
    /\ sock' = [sock EXCEPT ![c] = "dropped"]
    /\ UNCHANGED <<remote, attempt, ran, reply, tableVars, runVars>>

\* Mutant: the loop is left when the connections it accepted have ended.
NobodyConnected == \A c \in Conns : sock[c] # "open" /\ pc[c] # "backlog"

\* The select is biased towards accepting: cancellation is only noticed when
\* no connection is waiting.
NobodyWaiting == \A c \in Conns : pc[c] # "backlog"

StopAccepting ==
    /\ accepting
    /\ cancelled
    /\ NobodyWaiting
    /\ accepting' = FALSE
    /\ UNCHANGED <<connVars, tableVars, cancelled>>

-----------------------------------------------------------------------------
(* NG Setup: try_ng_setup_with_retries, try_ng_setup and                   *)
(* handle_request(NgSetupRequest)                                          *)

SetupRequests == [ran : RanIds, tais : SUBSET Tais]

\* Mutant: one retry too many.
NextAttemptOffByOne(c) ==
    /\ \/ /\ attempt[c] > INITIALIZATION_RETRIES
          /\ pc' = [pc EXCEPT ![c] = "failed"]
          /\ UNCHANGED attempt
       \/ /\ attempt[c] <= INITIALIZATION_RETRIES
          /\ pc' = [pc EXCEPT ![c] = "setup"]
          /\ attempt' = [attempt EXCEPT ![c] = @ + 1]
    /\ ran' = [ran EXCEPT ![c] = None]
    /\ reply' = [reply EXCEPT ![c] = "none"]
    /\ UNCHANGED gnb_contexts

\* Mutant: a failed attempt cleans up by RAN node id.
NextAttemptRemovesById(c) ==
    /\ \/ /\ attempt[c] = INITIALIZATION_RETRIES
          /\ pc' = [pc EXCEPT ![c] = "failed"]
          /\ UNCHANGED attempt
       \/ /\ attempt[c] < INITIALIZATION_RETRIES
          /\ pc' = [pc EXCEPT ![c] = "setup"]
          /\ attempt' = [attempt EXCEPT ![c] = @ + 1]
    /\ ran' = [ran EXCEPT ![c] = None]
    /\ reply' = [reply EXCEPT ![c] = "none"]
    /\ gnb_contexts' = [r \in RanIds |-> IF r = ran[c] THEN None ELSE gnb_contexts[r]]

\* The attempt failed: its GnbContext is dropped, and the next attempt starts
\* with a fresh one, or the task gives up.
NextAttempt(c) ==
    /\ \/ /\ attempt[c] = INITIALIZATION_RETRIES
          /\ pc' = [pc EXCEPT ![c] = "failed"]
          /\ UNCHANGED attempt
       \/ /\ attempt[c] < INITIALIZATION_RETRIES
          /\ pc' = [pc EXCEPT ![c] = "setup"]
          /\ attempt' = [attempt EXCEPT ![c] = @ + 1]
    /\ ran' = [ran EXCEPT ![c] = None]
    /\ reply' = [reply EXCEPT ![c] = "none"]
    /\ UNCHANGED gnb_contexts

\* The stream ended or failed: the attempt ends without an answer.
SetupReadFails(c) ==
    /\ pc[c] = "setup"
    /\ \/ sock[c] = "eof" /\ UNCHANGED sock
       \/ sock[c] \in {"open", "reset"} /\ sock' = [sock EXCEPT ![c] = "reset"]
    /\ NextAttempt(c)
    /\ UNCHANGED <<remote, associations, associations_set, runVars>>

\* A PDU that does not decode, or is not an NG Setup request.
SetupUnexpectedPdu(c) ==
    /\ pc[c] = "setup"
    /\ sock[c] = "open"
    /\ reply' = [reply EXCEPT ![c] = "ErrorIndication"]
    /\ pc' = [pc EXCEPT ![c] = "respond"]
    /\ UNCHANGED <<sock, remote, attempt, ran, tableVars, runVars>>

\* An NG Setup request: refused when a gNB is registered under the id (before
\* the id is noted), when a PLMN identity cannot be converted, and when no
\* announced tracking area is one the AMF supports.
SetupRequest(c, request) ==
    /\ pc[c] = "setup"
    /\ sock[c] = "open"
    /\ \/ /\ gnb_contexts[request.ran] # None
          /\ reply' = [reply EXCEPT ![c] = "NgSetupFailure"]
          /\ UNCHANGED ran
       \/ /\ gnb_contexts[request.ran] = None
          /\ ran' = [ran EXCEPT ![c] = request.ran]
          /\ reply' = [reply EXCEPT ![c] =
                IF request.tais \cap BadTais = {} /\ request.tais \cap AmfTais # {}
                THEN "NgSetupResponse" ELSE "NgSetupFailure"]
    /\ pc' = [pc EXCEPT ![c] = "respond"]
    /\ UNCHANGED <<sock, remote, attempt, tableVars, runVars>>

\* The answer is written; a successful attempt goes on to registration.
SetupRespond(c) ==
    /\ pc[c] = "respond"
    /\ \/ /\ reply[c] = "NgSetupResponse"
          /\ pc' = [pc EXCEPT ![c] = "register"]
          /\ UNCHANGED <<attempt, ran, reply, gnb_contexts>>
       \/ /\ reply[c] # "NgSetupResponse"
          /\ NextAttempt(c)
    /\ UNCHANGED <<sock, remote, associations, associations_set, runVars>>

\* The answer cannot be encoded or written: the attempt fails, whatever its
\* result was.
SetupRespondFails(c) ==
    /\ pc[c] = "respond"
    /\ NextAttempt(c)
    /\ UNCHANGED <<sock, remote, associations, associations_set, runVars>>

-----------------------------------------------------------------------------
(* start_ngap_processing after NG Setup, run_ngap_loop and                 *)
(* close_ran_connection                                                    *)

\* Mutant: upsert instead of insert.
UpsertContext(c) ==
    /\ gnb_contexts' = [gnb_contexts EXCEPT ![ran[c]] = c]
    /\ pc' = [pc EXCEPT ![c] = "loop"]

\* insert_async(..).await.unwrap(): the message loop is spawned, or the id is
\* taken and the task panics.
InsertContext(c) ==
    \/ /\ gnb_contexts[ran[c]] = None
       /\ gnb_contexts' = [gnb_contexts EXCEPT ![ran[c]] = c]
       /\ pc' = [pc EXCEPT ![c] = "loop"]
    \/ /\ gnb_contexts[ran[c]] # None
       /\ pc' = [pc EXCEPT ![c] = "panicked"]
       /\ UNCHANGED gnb_contexts

Register(c) ==
    /\ pc[c] = "register"
    /\ InsertContext(c)
    /\ UNCHANGED <<sock, remote, attempt, ran, reply, associations, associations_set, runVars>>

\* Mutant: the end of the stream is taken for an empty message.
LoopIgnoresEof(c) == UNCHANGED pc

\* Mutant: a gNB whose stream has ended is set up anew.
LoopSetsUpAgain(c) == pc' = [pc EXCEPT ![c] = "setup"]

LoopReturnsOk(c) == pc' = [pc EXCEPT ![c] = "closing"]

\* The stream ended: the loop returns Ok.
LoopEof(c) ==
    /\ pc[c] = "loop"
    /\ sock[c] = "eof"
    /\ LoopReturnsOk(c)
    /\ UNCHANGED <<sock, remote, attempt, ran, reply, tableVars, runVars>>

\* A read failed: the loop returns the error, which is only logged.
LoopError(c) ==
    /\ pc[c] = "loop"
    /\ sock[c] \in {"open", "reset"}
    /\ sock' = [sock EXCEPT ![c] = "reset"]
    /\ pc' = [pc EXCEPT ![c] = "errored"]
    /\ UNCHANGED <<remote, attempt, ran, reply, tableVars, runVars>>

RemoveContext(c) == gnb_contexts' = [gnb_contexts EXCEPT ![ran[c]] = None]

CloseRanConnection(c) ==
    /\ pc[c] = "closing"
    /\ RemoveContext(c)
    /\ pc' = [pc EXCEPT ![c] = "closed"]
    /\ UNCHANGED <<sock, remote, attempt, ran, reply, associations, associations_set, runVars>>

-----------------------------------------------------------------------------
\* The steps the runtime owes a connection's task once they can be taken.
TaskStep(c) ==
    \/ SetupRespond(c)
    \/ SetupRespondFails(c)
    \/ Register(c)
    \/ LoopEof(c)
    \/ CloseRanConnection(c)
    \/ sock[c] = "eof" /\ SetupReadFails(c)

Next ==
    \/ \E c \in Conns, a \in Addrs : PeerConnects(c, a)
    \/ \E c \in Conns : PeerCloses(c)
    \/ Cancel
    \/ \E c \in Conns : Accept(c)
    \/ \E c \in Conns : AcceptFails(c)
    \/ StopAccepting
    \/ \E c \in Conns : SetupReadFails(c)
    \/ \E c \in Conns : SetupUnexpectedPdu(c)
    \/ \E c \in Conns, request \in SetupRequests : SetupRequest(c, request)
    \/ \E c \in Conns : SetupRespond(c)
    \/ \E c \in Conns : SetupRespondFails(c)
    \/ \E c \in Conns : Register(c)
    \/ \E c \in Conns : LoopEof(c)
    \/ \E c \in Conns : LoopError(c)
    \/ \E c \in Conns : CloseRanConnection(c)

Spec == Init /\ [][Next]_vars

\* Tasks that can run are polled.  Peers owe nothing: no PDU and no
\* disconnection has to come.  Nor does accepting have to succeed.
FairSpec ==
    /\ Spec
    /\ WF_vars(StopAccepting)
    /\ \A c \in Conns : WF_vars(TaskStep(c))

-----------------------------------------------------------------------------
(* Properties                                                              *)

\* As long as its loop runs and until it has closed, a gNB is registered
\* under its own id and by its own connection, although registration is by
\* id and several connections may pass NG Setup with the same id.
LoopOwnsItsEntry ==
    \A c \in Conns : pc[c] \in {"loop", "closing"} => gnb_contexts[ran[c]] = c

\* A registered id belongs to a connection whose loop runs, is being closed,
\* or was ended by a read error, the one way an entry outlives its loop.
EntryHasOwner ==
    \A r \in RanIds : gnb_contexts[r] # None =>
        /\ ran[gnb_contexts[r]] = r
        /\ pc[gnb_contexts[r]] \in {"loop", "closing", "errored"}

\* Loops and registry agree in both directions.
RegistryAgrees == LoopOwnsItsEntry /\ EntryHasOwner

\* An entry is never replaced, and only the close of the connection that made
\* it removes it: close_ran_connection goes by id and still never takes the
\* registration of a later connection.
EntryRemovedByOwnerOnly ==
    [][\A r \in RanIds :
          gnb_contexts[r] # None =>
              \/ gnb_contexts'[r] = gnb_contexts[r]
              \/ gnb_contexts'[r] = None /\ pc[gnb_contexts[r]] = "closing"]_vars

\* The two halves of the association table agree, and no two associations in
\* it share an address pair.
AssociationTableAgrees ==
    /\ associations_set = {remote[c] : c \in associations}
    /\ \A c, d \in associations : remote[c] = remote[d] => c = d

\* When the peer closes, an accepted connection's task ends, wherever it is:
\* no retry or read keeps it, and a running loop gives its RAN node id back.
EofEndsConnection ==
    \A c \in Conns :
        sock[c] = "eof" /\ pc[c] \in {"setup", "respond", "register", "loop", "closing"}
            ~> pc[c] \in {"closed", "failed", "panicked"}

\* How many steps an accepted connection's task can still take when its stream
\* has ended, at most.
StepsLeft(c) ==
    CASE pc[c] = "setup"    -> (INITIALIZATION_RETRIES - attempt[c]) + 1
      [] pc[c] = "respond"  -> 4
      [] pc[c] = "register" -> 3
      [] pc[c] = "loop"     -> 2
      [] pc[c] = "closing"  -> 1
      [] OTHER              -> 0

\* Once the peer has closed, whatever a task does brings its end nearer, and
\* nothing another task or the peer does puts it off: retries run out, an
\* answer that is still written starts no attempt for free, and a gNB that still
\* gets registered is closed.  From anywhere, four steps are the most.
EofRunsOut ==
    [][\A c \in Conns :
          sock[c] = "eof" /\ pc[c] # "backlog" =>
              /\ sock'[c] = "eof"
              /\ StepsLeft(c)' <= StepsLeft(c)
              /\ pc'[c] # pc[c] \/ attempt'[c] # attempt[c]
                    => StepsLeft(c)' < StepsLeft(c)]_vars

\* Cancelling the token ends the accept loop, although its select is biased
\* towards accepting: connections that keep coming only delay it, and those
\* that were accepted may stay open.  The one thing that holds it up is a
\* connection that waits for ever because accepting it keeps failing.
CancelEndsAccepting ==
    cancelled ~> (~accepting \/ [](\E c \in Conns : pc[c] = "backlog"))

\* start_ngap_processing: "We can safely unwrap here because: Duplicate gNB
\* connections are already handled during the NG setup process".
RegistrationNeverPanics == \A c \in Conns : pc[c] # "panicked"
=============================================================================
