----------------------------- MODULE TokenStore -----------------------------
(***************************************************************************)
(* utils/client/src/token_store.rs and NrfClient::get_token: the cache of  *)
(* OAuth tokens.  A client that finds no token for a key requests one from *)
(* the NRF and stores it; a client that finds an update in progress waits  *)
(* to be notified of its end.                                              *)
(*                                                                         *)
(* Keys do not interact, so the module is about one key.  Each operation   *)
(* of the scc::HashMap is atomic.  A client's TokenState, its id and its   *)
(* Notify are named by the client.                                         *)
(***************************************************************************)
EXTENDS Naturals

CONSTANTS Clients,    \* the tasks that call get_token
          ReadLimit,  \* how often get looks at the map (9 in the code)
          None        \* "nobody"

ASSUME TokenAssumption == None \notin Clients /\ ReadLimit \in Nat \ {0}

VARIABLES
    map,        \* the entry: who made it, and its state
    pc,         \* per client: where it is
    reads,      \* per client: how often get has looked at the map
    notify,     \* per client: whose Notify it waits for
    registered, \* per client: its Notified future has been created
    woken,      \* per client: that future has been notified
    answer,     \* per client: the NRF's answer to its request
    entry       \* per client: the TokenEntry that get_token returned

vars == <<map, pc, reads, notify, registered, woken, answer, entry>>

Absent == [by |-> None, state |-> "absent"]
States == [by : Clients, state : {"ready", "updating", "failed"}] \cup {Absent}

TypeOK ==
    /\ map \in States
    /\ pc \in [Clients -> {"idle", "read", "notified", "wait", "check", "upsert", "request",
                           "update", "notify", "ok", "read_error", "in_progress", "failed"}]
    /\ reads \in [Clients -> 0 .. ReadLimit]
    /\ notify \in [Clients -> Clients \cup {None}]
    /\ registered \in [Clients -> BOOLEAN]
    /\ woken \in [Clients -> BOOLEAN]
    /\ answer \in [Clients -> {"none", "ready", "failed"}]
    /\ entry \in [Clients -> States]

Init ==
    /\ map = Absent
    /\ pc = [c \in Clients |-> "idle"]
    /\ reads = [c \in Clients |-> 0]
    /\ notify = [c \in Clients |-> None]
    /\ registered = [c \in Clients |-> FALSE]
    /\ woken = [c \in Clients |-> FALSE]
    /\ answer = [c \in Clients |-> "none"]
    /\ entry = [c \in Clients |-> Absent]

-----------------------------------------------------------------------------
(* TokenStore::get                                                         *)

GetToken(c) ==
    /\ pc[c] = "idle"
    /\ pc' = [pc EXCEPT ![c] = "read"]
    /\ UNCHANGED <<map, reads, notify, registered, woken, answer, entry>>

\* Mutant: one look too many.
MayReadOnceMore(c) == reads[c] <= ReadLimit

MayRead(c) == reads[c] < ReadLimit

\* read_async, and the match on what it finds.
Read(c) ==
    /\ pc[c] = "read"
    /\ MayRead(c)
    /\ reads' = [reads EXCEPT ![c] = @ + 1]
    /\ \/ /\ map.state = "absent"
          /\ pc' = [pc EXCEPT ![c] = "check"]
          /\ UNCHANGED <<notify, entry>>
       \/ /\ map.state = "ready"
          /\ pc' = [pc EXCEPT ![c] = "ok"]
          /\ entry' = [entry EXCEPT ![c] = map]
          /\ UNCHANGED notify
       \/ /\ map.state = "failed"
          /\ pc' = [pc EXCEPT ![c] = "read_error"]
          /\ UNCHANGED <<notify, entry>>
       \/ /\ map.state = "updating"
          /\ pc' = [pc EXCEPT ![c] = "notified"]
          /\ notify' = [notify EXCEPT ![c] = map.by]
          /\ UNCHANGED entry
    /\ UNCHANGED <<map, registered, woken, answer>>

\* The loop is used up: get returns None, as for a key without a token.
ReadsUsedUp(c) ==
    /\ pc[c] = "read"
    /\ reads[c] = ReadLimit
    /\ pc' = [pc EXCEPT ![c] = "check"]
    /\ UNCHANGED <<map, reads, notify, registered, woken, answer, entry>>

\* notify.notified(): only from here on does a notification reach c.
Notified(c) ==
    /\ pc[c] = "notified"
    /\ registered' = [registered EXCEPT ![c] = TRUE]
    /\ woken' = [woken EXCEPT ![c] = FALSE]
    /\ pc' = [pc EXCEPT ![c] = "wait"]
    /\ UNCHANGED <<map, reads, notify, answer, entry>>

\* The await ends.
Wake(c) ==
    /\ pc[c] = "wait"
    /\ woken[c]
    /\ registered' = [registered EXCEPT ![c] = FALSE]
    /\ notify' = [notify EXCEPT ![c] = None]
    /\ pc' = [pc EXCEPT ![c] = "read"]
    /\ UNCHANGED <<map, reads, woken, answer, entry>>

-----------------------------------------------------------------------------
(* TokenStore::set, with the request to the NRF as its future              *)

\* get_async: an update in progress ends the call.
CheckUpdating(c) ==
    /\ pc[c] = "check"
    /\ pc' = [pc EXCEPT ![c] = IF map.state = "updating" THEN "in_progress" ELSE "upsert"]
    /\ UNCHANGED <<map, reads, notify, registered, woken, answer, entry>>

\* upsert_async, after the entry's lock was released.
Upsert(c) ==
    /\ pc[c] = "upsert"
    /\ map' = [by |-> c, state |-> "updating"]
    /\ pc' = [pc EXCEPT ![c] = "request"]
    /\ UNCHANGED <<reads, notify, registered, woken, answer, entry>>

\* Mutant: a failed request ends the call at once (future.await?).
FailEarly(c) == IF answer'[c] = "failed" THEN "failed" ELSE "update"

AfterRequest(c) == "update"

\* The NRF grants a token, or the request fails.
RequestEnds(c, outcome) ==
    /\ pc[c] = "request"
    /\ answer' = [answer EXCEPT ![c] = outcome]
    /\ pc' = [pc EXCEPT ![c] = AfterRequest(c)]
    /\ UNCHANGED <<map, reads, notify, registered, woken, entry>>

\* Mutant: the entry handed out is the one the map held before.
EntryBeforeUpdate(c) == map

EntryOf(c) == [by |-> c, state |-> answer[c]]

\* update_async replaces whatever is stored by the outcome of this update.
Update(c) ==
    /\ pc[c] = "update"
    /\ map' = [by |-> c, state |-> answer[c]]
    /\ entry' = [entry EXCEPT ![c] = IF answer[c] = "ready" THEN EntryOf(c) ELSE @]
    /\ pc' = [pc EXCEPT ![c] = "notify"]
    /\ UNCHANGED <<reads, notify, registered, woken, answer>>

\* Mutant: notify_one.
NotifyOne(c) ==
    LET waiting == {d \in Clients : registered[d] /\ notify[d] = c}
    IN  woken' = [d \in Clients |->
                    woken[d] \/ (waiting # {} /\ d = CHOOSE w \in waiting : TRUE)]

NotifyWaiters(c) ==
    woken' = [d \in Clients |-> woken[d] \/ (registered[d] /\ notify[d] = c)]

\* notify_waiters wakes those whose Notified future exists, and returns.
Finish(c) ==
    /\ pc[c] = "notify"
    /\ NotifyWaiters(c)
    /\ pc' = [pc EXCEPT ![c] = IF answer[c] = "ready" THEN "ok" ELSE "failed"]
    /\ UNCHANGED <<map, reads, notify, registered, answer, entry>>

-----------------------------------------------------------------------------
ClientStep(c) ==
    \/ Read(c)
    \/ ReadsUsedUp(c)
    \/ Notified(c)
    \/ Wake(c)
    \/ CheckUpdating(c)
    \/ Upsert(c)
    \/ Update(c)
    \/ Finish(c)

Answered(c) == \E outcome \in {"ready", "failed"} : RequestEnds(c, outcome)

Next == \E c \in Clients : GetToken(c) \/ ClientStep(c) \/ Answered(c)

Spec == Init /\ [][Next]_vars

\* Tasks that can run are polled.  The NRF owes nothing: the HTTP client has no
\* timeout, so a request need not end.
PolledSpec == Spec /\ \A c \in Clients : WF_vars(ClientStep(c))

\* And every request ends.
FairSpec == PolledSpec /\ \A c \in Clients : WF_vars(Answered(c))

-----------------------------------------------------------------------------
(* Properties                                                              *)

\* c's update is in progress: announced in the map, and not yet replaced.
Updating(c) == pc[c] \in {"request", "update"}

\* The key is never left in the updating state: whoever put it there is
\* still at work and will replace it, also when its request fails and when
\* updates overlap.
UpdatingHasUpdater == map.state = "updating" => Updating(map.by)

\* TokenEntry::get is never called on anything but a ready token ("should
\* not happen if used correctly"), though entries are made unchecked, and the
\* token is one that the NRF granted to the client whose update stored it.
EntriesAreReady ==
    \A c \in Clients :
        pc[c] = "ok" => entry[c].state = "ready" /\ answer[entry[c].by] = "ready"

\* d waits, and nobody is left who would wake it.
Stranded(d) ==
    pc[d] = "wait" /\ ~woken[d] /\ pc[notify[d]] \notin {"request", "update", "notify"}

\* A lost wake-up has one cause only: the Notified future is created after the
\* update has ended.  The end of an update, be it a failure or one of several
\* that overlap, strands nobody who waits already.
OnlyLateWaitersAreStranded ==
    [][\A d \in Clients :
          Stranded(d)' /\ ~Stranded(d) => pc[d] = "notified" /\ pc[notify[d]] \in {"ok", "failed"}]_vars

\* Whoever begins to wait while the update is at work is woken at its end,
\* however many wait, and even when another update has overwritten the entry
\* in the meantime.  Only a request of that update that never ends keeps it.
TimelyWaiterIsWoken ==
    \A c \in Clients :
        pc[c] = "wait" /\ Updating(notify[c])
            ~> (pc[c] # "wait" \/ [](pc[c] = "wait" /\ pc[notify[c]] = "request"))

\* set "early returns with error if another update is already in progress".
OneUpdateAtATime == \A c, d \in Clients : Updating(c) /\ Updating(d) => c = d

\* get "Waits if the token is in the Updating state", until "the update [is]
\* complete": a call that waits does return, if every request ends.
EveryGetReturns ==
    \A c \in Clients : pc[c] = "read" ~> pc[c] \in {"ok", "read_error", "in_progress", "failed"}
=============================================================================
