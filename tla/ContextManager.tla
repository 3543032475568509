--------------------------- MODULE ContextManager ---------------------------
(***************************************************************************)
(* ngap/manager/context_manager.rs: the map from ids to context queues,    *)
(* used by clients that add contexts, change ids and run operations        *)
(* concurrently.  Each operation of the scc::HashMap is atomic; change_id  *)
(* makes up to three of them, with an await before each.                   *)
(*                                                                         *)
(* A context is named by the client whose add_context made it.  Nobody in  *)
(* the AMF calls change_id yet: this module is about the manager's own     *)
(* promises.                                                               *)
(***************************************************************************)
EXTENDS Naturals

CONSTANTS Clients,  \* tasks, each of which makes one call
          Ids,      \* the ids of contexts
          None      \* "no context", "no id"

ASSUME ManagerAssumption == None \notin Clients /\ None \notin Ids

VARIABLES
    queues,      \* id -> the context stored under it
    pc,          \* per client: where it is in its call
    old_id,      \* per client: the first argument of its change_id
    new_id,      \* per client: the second argument
    element,     \* per client: the queue change_id has taken out of the map
    dropped      \* the contexts whose queue was dropped

vars == <<queues, pc, old_id, new_id, element, dropped>>

TypeOK ==
    /\ queues \in [Ids -> Clients \cup {None}]
    /\ pc \in [Clients -> {"idle", "insert", "restore", "ok", "panicked", "not_found",
                           "new_id_exists", "cancelled"}]
    /\ old_id \in [Clients -> Ids \cup {None}]
    /\ new_id \in [Clients -> Ids \cup {None}]
    /\ element \in [Clients -> Clients \cup {None}]
    /\ dropped \subseteq Clients

Init ==
    /\ queues = [i \in Ids |-> None]
    /\ pc = [c \in Clients |-> "idle"]
    /\ old_id = [c \in Clients |-> None]
    /\ new_id = [c \in Clients |-> None]
    /\ element = [c \in Clients |-> None]
    /\ dropped = {}

-----------------------------------------------------------------------------
\* add_context.  When the id is taken, the queue handed back by the insert
\* shares its Arc with the local variable, so Arc::into_inner gives None and
\* the unwrap panics; unwinding drops the new context.
AddContext(c, id) ==
    /\ pc[c] = "idle"
    /\ \/ /\ queues[id] = None
          /\ queues' = [queues EXCEPT ![id] = c]
          /\ pc' = [pc EXCEPT ![c] = "ok"]
          /\ UNCHANGED dropped
       \/ /\ queues[id] # None
          /\ pc' = [pc EXCEPT ![c] = "panicked"]
          /\ dropped' = dropped \cup {c}
          /\ UNCHANGED queues
    /\ UNCHANGED <<old_id, new_id, element>>

\* Mutant: change_id copies the queue and leaves the old entry in place.
KeepOldEntry(id) == UNCHANGED queues

TakeOldEntry(id) == queues' = [queues EXCEPT ![id] = None]

\* change_id: remove_async(&old_id).
RemoveOld(c, old, new) ==
    /\ pc[c] = "idle"
    /\ \/ /\ queues[old] = None
          /\ pc' = [pc EXCEPT ![c] = "not_found"]
          /\ UNCHANGED <<queues, element, old_id, new_id>>
       \/ /\ queues[old] # None
          /\ element' = [element EXCEPT ![c] = queues[old]]
          /\ TakeOldEntry(old)
          /\ old_id' = [old_id EXCEPT ![c] = old]
          /\ new_id' = [new_id EXCEPT ![c] = new]
          /\ pc' = [pc EXCEPT ![c] = "insert"]
    /\ UNCHANGED dropped

\* change_id: insert_async(new_id, element_queue).
InsertNew(c) ==
    /\ pc[c] = "insert"
    /\ \/ /\ queues[new_id[c]] = None
          /\ queues' = [queues EXCEPT ![new_id[c]] = element[c]]
          /\ element' = [element EXCEPT ![c] = None]
          /\ pc' = [pc EXCEPT ![c] = "ok"]
       \/ /\ queues[new_id[c]] # None
          /\ pc' = [pc EXCEPT ![c] = "restore"]
          /\ UNCHANGED <<queues, element>>
    /\ UNCHANGED <<old_id, new_id, dropped>>

\* Mutant: the original state is not restored.
RestoreNothing(c) ==
    /\ dropped' = dropped \cup {element[c]}
    /\ UNCHANGED queues

\* insert_async(old_id, element_queue), its result ignored: where the old id
\* has been taken in the meantime, the queue is dropped.
RestoreOldEntry(c) ==
    \/ /\ queues[old_id[c]] = None
       /\ queues' = [queues EXCEPT ![old_id[c]] = element[c]]
       /\ UNCHANGED dropped
    \/ /\ queues[old_id[c]] # None
       /\ dropped' = dropped \cup {element[c]}
       /\ UNCHANGED queues

Restore(c) ==
    /\ pc[c] = "restore"
    /\ RestoreOldEntry(c)
    /\ element' = [element EXCEPT ![c] = None]
    /\ pc' = [pc EXCEPT ![c] = "new_id_exists"]
    /\ UNCHANGED <<old_id, new_id>>

\* The future of a change_id is dropped at one of its awaits after the first,
\* and the queue it holds with it.
DropChange(c) ==
    /\ pc[c] \in {"insert", "restore"}
    /\ dropped' = dropped \cup {element[c]}
    /\ element' = [element EXCEPT ![c] = None]
    /\ pc' = [pc EXCEPT ![c] = "cancelled"]
    /\ UNCHANGED <<queues, old_id, new_id>>

-----------------------------------------------------------------------------
Next ==
    \/ \E c \in Clients, id \in Ids : AddContext(c, id)
    \/ \E c \in Clients, old, new \in Ids : RemoveOld(c, old, new)
    \/ \E c \in Clients : InsertNew(c)
    \/ \E c \in Clients : Restore(c)
    \/ \E c \in Clients : DropChange(c)

Spec == Init /\ [][Next]_vars

-----------------------------------------------------------------------------
(* Properties                                                              *)

\* A context is in at most one place: under one id, in the hands of one
\* change_id, or dropped.  So two queues never serialise the same context,
\* whatever change_ids and adds race.
ContextInOnePlace ==
    /\ \A i, j \in Ids : queues[i] # None /\ queues[i] = queues[j] => i = j
    /\ \A c, d \in Clients : element[c] # None /\ element[c] = element[d] => c = d
    /\ \A i \in Ids, c \in Clients : queues[i] # None => queues[i] # element[c]
    /\ \A i \in Ids : queues[i] \notin dropped
    /\ \A c \in Clients : element[c] \notin dropped

\* An accepted context is only lost by a change_id that holds it, and only when
\* that is dropped halfway, or fails and finds the old id given to another
\* context in the meantime.
LostByChangeOnly ==
    [][\A c \in dropped' \ dropped :
          \/ pc[c] = "idle"
          \/ \E d \in Clients :
                /\ element[d] = c
                /\ \/ pc'[d] = "cancelled"
                   \/ pc[d] = "restore" /\ queues[old_id[d]] \notin {None, c}]_vars
=============================================================================
