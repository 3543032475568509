-------------------------- MODULE TokenStoreProofs --------------------------
(***************************************************************************)
(* Proofs about the token store, for any number of clients.                *)
(***************************************************************************)
EXTENDS TokenStore, TLAPS

\* The NRF has answered before the outcome is stored, and a client that was
\* granted a token holds its own entry from then on.
AnswerIsKnown ==
    \A c \in Clients :
        /\ pc[c] \in {"update", "notify"} => answer[c] \in {"ready", "failed"}
        /\ pc[c] = "notify" /\ answer[c] = "ready" => entry[c] = EntryOf(c)

\* A ready token in the map was granted to the client that stored it, which
\* will make no second request.
ReadyWasGranted ==
    /\ map.state = "ready" => answer[map.by] = "ready"
    /\ \A c \in Clients :
          pc[c] \notin {"update", "notify", "ok", "failed"} => answer[c] = "none"

\* Who waits has created its Notified future; who waits or is about to knows
\* an update that has begun.
WaitersKnowUpdater ==
    \A c \in Clients :
        /\ pc[c] = "wait" => registered[c]
        /\ pc[c] \in {"notified", "wait"} =>
              /\ notify[c] \in Clients
              /\ pc[notify[c]] \in {"request", "update", "notify", "ok", "failed"}

IInv ==
    /\ TypeOK
    /\ AnswerIsKnown
    /\ ReadyWasGranted
    /\ UpdatingHasUpdater
    /\ EntriesAreReady
    /\ WaitersKnowUpdater

-----------------------------------------------------------------------------
\* The inductive invariant holds in the empty store.
LEMMA InitIInv == Init => IInv
  BY TokenAssumption
  DEF Init, IInv, TypeOK, States, Absent, AnswerIsKnown, ReadyWasGranted, UpdatingHasUpdater,
      EntriesAreReady, WaitersKnowUpdater

\* Every step keeps the types; get never looks more often than it may.
LEMMA NextTypeOK == IInv /\ [Next]_vars => TypeOK'
  <1> SUFFICES ASSUME IInv, [Next]_vars PROVE TypeOK'
    OBVIOUS
  <1> USE TokenAssumption DEF TypeOK, AnswerIsKnown, States, Absent
  <1>0. TypeOK /\ AnswerIsKnown
    BY DEF IInv
  <1>1. ASSUME NEW c \in Clients, GetToken(c) PROVE TypeOK'
    BY <1>0, <1>1 DEF GetToken
  <1>2. ASSUME NEW c \in Clients, Read(c) PROVE TypeOK'
    BY <1>0, <1>2 DEF Read, MayRead
  <1>3. ASSUME NEW c \in Clients, ReadsUsedUp(c) PROVE TypeOK'
    BY <1>0, <1>3 DEF ReadsUsedUp
  <1>4. ASSUME NEW c \in Clients, Notified(c) PROVE TypeOK'
    BY <1>0, <1>4 DEF Notified
  <1>5. ASSUME NEW c \in Clients, Wake(c) PROVE TypeOK'
    BY <1>0, <1>5 DEF Wake
  <1>6. ASSUME NEW c \in Clients, CheckUpdating(c) PROVE TypeOK'
    BY <1>0, <1>6 DEF CheckUpdating
  <1>7. ASSUME NEW c \in Clients, Upsert(c) PROVE TypeOK'
    BY <1>0, <1>7 DEF Upsert
  <1>8. ASSUME NEW c \in Clients, NEW outcome \in {"ready", "failed"}, RequestEnds(c, outcome)
       PROVE  TypeOK'
    BY <1>0, <1>8 DEF RequestEnds, AfterRequest
  <1>9. ASSUME NEW c \in Clients, Update(c) PROVE TypeOK'
    BY <1>0, <1>9 DEF Update, EntryOf
  <1>10. ASSUME NEW c \in Clients, Finish(c) PROVE TypeOK'
    BY <1>0, <1>10 DEF Finish, NotifyWaiters
  <1>11. CASE UNCHANGED vars
    BY <1>0, <1>11 DEF vars
  <1> QED
    BY <1>1, <1>2, <1>3, <1>4, <1>5, <1>6, <1>7, <1>8, <1>9, <1>10, <1>11
    DEF Next, ClientStep, Answered

\* Every step keeps AnswerIsKnown: only the end of a request answers.
LEMMA NextAnswerIsKnown == IInv /\ [Next]_vars => AnswerIsKnown'
  <1> SUFFICES ASSUME IInv, [Next]_vars PROVE AnswerIsKnown'
    OBVIOUS
  <1> USE TokenAssumption DEF TypeOK, AnswerIsKnown, EntryOf
  <1>0. TypeOK /\ AnswerIsKnown
    BY DEF IInv
  <1>1. ASSUME NEW c \in Clients, GetToken(c) PROVE AnswerIsKnown'
    BY <1>0, <1>1 DEF GetToken
  <1>2. ASSUME NEW c \in Clients, Read(c) PROVE AnswerIsKnown'
    BY <1>0, <1>2 DEF Read, MayRead
  <1>3. ASSUME NEW c \in Clients, ReadsUsedUp(c) PROVE AnswerIsKnown'
    BY <1>0, <1>3 DEF ReadsUsedUp
  <1>4. ASSUME NEW c \in Clients, Notified(c) PROVE AnswerIsKnown'
    BY <1>0, <1>4 DEF Notified
  <1>5. ASSUME NEW c \in Clients, Wake(c) PROVE AnswerIsKnown'
    BY <1>0, <1>5 DEF Wake
  <1>6. ASSUME NEW c \in Clients, CheckUpdating(c) PROVE AnswerIsKnown'
    BY <1>0, <1>6 DEF CheckUpdating
  <1>7. ASSUME NEW c \in Clients, Upsert(c) PROVE AnswerIsKnown'
    BY <1>0, <1>7 DEF Upsert
  <1>8. ASSUME NEW c \in Clients, NEW outcome \in {"ready", "failed"}, RequestEnds(c, outcome)
       PROVE  AnswerIsKnown'
    BY <1>0, <1>8 DEF RequestEnds, AfterRequest
  <1>9. ASSUME NEW c \in Clients, Update(c) PROVE AnswerIsKnown'
    BY <1>0, <1>9 DEF Update, EntryOf
  <1>10. ASSUME NEW c \in Clients, Finish(c) PROVE AnswerIsKnown'
    BY <1>0, <1>10 DEF Finish, NotifyWaiters
  <1>11. CASE UNCHANGED vars
    BY <1>0, <1>11 DEF vars
  <1> QED
    BY <1>1, <1>2, <1>3, <1>4, <1>5, <1>6, <1>7, <1>8, <1>9, <1>10, <1>11
    DEF Next, ClientStep, Answered

\* Every step keeps ReadyWasGranted: what is stored as ready was answered so.
LEMMA NextReadyWasGranted == IInv /\ [Next]_vars => ReadyWasGranted'
  <1> SUFFICES ASSUME IInv, [Next]_vars PROVE ReadyWasGranted'
    OBVIOUS
  <1> USE TokenAssumption DEF TypeOK, AnswerIsKnown, ReadyWasGranted, States, Absent
  <1>0. TypeOK /\ AnswerIsKnown /\ ReadyWasGranted
    BY DEF IInv
  <1>1. ASSUME NEW c \in Clients, GetToken(c) PROVE ReadyWasGranted'
    BY <1>0, <1>1 DEF GetToken
  <1>2. ASSUME NEW c \in Clients, Read(c) PROVE ReadyWasGranted'
    BY <1>0, <1>2 DEF Read, MayRead
  <1>3. ASSUME NEW c \in Clients, ReadsUsedUp(c) PROVE ReadyWasGranted'
    BY <1>0, <1>3 DEF ReadsUsedUp
  <1>4. ASSUME NEW c \in Clients, Notified(c) PROVE ReadyWasGranted'
    BY <1>0, <1>4 DEF Notified
  <1>5. ASSUME NEW c \in Clients, Wake(c) PROVE ReadyWasGranted'
    BY <1>0, <1>5 DEF Wake
  <1>6. ASSUME NEW c \in Clients, CheckUpdating(c) PROVE ReadyWasGranted'
    BY <1>0, <1>6 DEF CheckUpdating
  <1>7. ASSUME NEW c \in Clients, Upsert(c) PROVE ReadyWasGranted'
    BY <1>0, <1>7 DEF Upsert
  <1>8. ASSUME NEW c \in Clients, NEW outcome \in {"ready", "failed"}, RequestEnds(c, outcome)
       PROVE  ReadyWasGranted'
    BY <1>0, <1>8 DEF RequestEnds, AfterRequest
  <1>9. ASSUME NEW c \in Clients, Update(c) PROVE ReadyWasGranted'
    BY <1>0, <1>9 DEF Update, EntryOf
  <1>10. ASSUME NEW c \in Clients, Finish(c) PROVE ReadyWasGranted'
    BY <1>0, <1>10 DEF Finish, NotifyWaiters
  <1>11. CASE UNCHANGED vars
    BY <1>0, <1>11 DEF vars
  <1> QED
    BY <1>1, <1>2, <1>3, <1>4, <1>5, <1>6, <1>7, <1>8, <1>9, <1>10, <1>11
    DEF Next, ClientStep, Answered

\* Every step keeps UpdatingHasUpdater: an updater that ends its work has
\* just replaced the entry.
LEMMA NextUpdatingHasUpdater == IInv /\ [Next]_vars => UpdatingHasUpdater'
  <1> SUFFICES ASSUME IInv, [Next]_vars PROVE UpdatingHasUpdater'
    OBVIOUS
  <1> USE TokenAssumption DEF TypeOK, AnswerIsKnown, States, Absent, UpdatingHasUpdater, Updating
  <1>0. TypeOK /\ AnswerIsKnown /\ UpdatingHasUpdater
    BY DEF IInv
  <1>1. ASSUME NEW c \in Clients, GetToken(c) PROVE UpdatingHasUpdater'
    BY <1>0, <1>1 DEF GetToken
  <1>2. ASSUME NEW c \in Clients, Read(c) PROVE UpdatingHasUpdater'
    BY <1>0, <1>2 DEF Read, MayRead
  <1>3. ASSUME NEW c \in Clients, ReadsUsedUp(c) PROVE UpdatingHasUpdater'
    BY <1>0, <1>3 DEF ReadsUsedUp
  <1>4. ASSUME NEW c \in Clients, Notified(c) PROVE UpdatingHasUpdater'
    BY <1>0, <1>4 DEF Notified
  <1>5. ASSUME NEW c \in Clients, Wake(c) PROVE UpdatingHasUpdater'
    BY <1>0, <1>5 DEF Wake
  <1>6. ASSUME NEW c \in Clients, CheckUpdating(c) PROVE UpdatingHasUpdater'
    BY <1>0, <1>6 DEF CheckUpdating
  <1>7. ASSUME NEW c \in Clients, Upsert(c) PROVE UpdatingHasUpdater'
    BY <1>0, <1>7 DEF Upsert
  <1>8. ASSUME NEW c \in Clients, NEW outcome \in {"ready", "failed"}, RequestEnds(c, outcome)
       PROVE  UpdatingHasUpdater'
    BY <1>0, <1>8 DEF RequestEnds, AfterRequest
  <1>9. ASSUME NEW c \in Clients, Update(c) PROVE UpdatingHasUpdater'
    BY <1>0, <1>9 DEF Update, EntryOf
  <1>10. ASSUME NEW c \in Clients, Finish(c) PROVE UpdatingHasUpdater'
    BY <1>0, <1>10 DEF Finish, NotifyWaiters
  <1>11. CASE UNCHANGED vars
    BY <1>0, <1>11 DEF vars
  <1> QED
    BY <1>1, <1>2, <1>3, <1>4, <1>5, <1>6, <1>7, <1>8, <1>9, <1>10, <1>11
    DEF Next, ClientStep, Answered

\* Every step keeps EntriesAreReady: a call ends well only with a ready entry.
LEMMA NextEntriesAreReady == IInv /\ [Next]_vars => EntriesAreReady'
  <1> SUFFICES ASSUME IInv, [Next]_vars PROVE EntriesAreReady'
    OBVIOUS
  <1> USE TokenAssumption DEF TypeOK, AnswerIsKnown, ReadyWasGranted, EntriesAreReady, States, Absent
  <1>0. TypeOK /\ AnswerIsKnown /\ ReadyWasGranted /\ EntriesAreReady
    BY DEF IInv
  <1>1. ASSUME NEW c \in Clients, GetToken(c) PROVE EntriesAreReady'
    BY <1>0, <1>1 DEF GetToken
  <1>2. ASSUME NEW c \in Clients, Read(c) PROVE EntriesAreReady'
    BY <1>0, <1>2 DEF Read, MayRead
  <1>3. ASSUME NEW c \in Clients, ReadsUsedUp(c) PROVE EntriesAreReady'
    BY <1>0, <1>3 DEF ReadsUsedUp
  <1>4. ASSUME NEW c \in Clients, Notified(c) PROVE EntriesAreReady'
    BY <1>0, <1>4 DEF Notified
  <1>5. ASSUME NEW c \in Clients, Wake(c) PROVE EntriesAreReady'
    BY <1>0, <1>5 DEF Wake
  <1>6. ASSUME NEW c \in Clients, CheckUpdating(c) PROVE EntriesAreReady'
    BY <1>0, <1>6 DEF CheckUpdating
  <1>7. ASSUME NEW c \in Clients, Upsert(c) PROVE EntriesAreReady'
    BY <1>0, <1>7 DEF Upsert
  <1>8. ASSUME NEW c \in Clients, NEW outcome \in {"ready", "failed"}, RequestEnds(c, outcome)
       PROVE  EntriesAreReady'
    BY <1>0, <1>8 DEF RequestEnds, AfterRequest
  <1>9. ASSUME NEW c \in Clients, Update(c) PROVE EntriesAreReady'
    BY <1>0, <1>9 DEF Update, EntryOf
  <1>10. ASSUME NEW c \in Clients, Finish(c) PROVE EntriesAreReady'
    BY <1>0, <1>10 DEF Finish, NotifyWaiters, EntryOf
  <1>11. CASE UNCHANGED vars
    BY <1>0, <1>11 DEF vars
  <1> QED
    BY <1>1, <1>2, <1>3, <1>4, <1>5, <1>6, <1>7, <1>8, <1>9, <1>10, <1>11
    DEF Next, ClientStep, Answered

\* Every step keeps WaitersKnowUpdater: an update, once begun, only goes on.
LEMMA NextWaitersKnowUpdater == IInv /\ [Next]_vars => WaitersKnowUpdater'
  <1> SUFFICES ASSUME IInv, [Next]_vars PROVE WaitersKnowUpdater'
    OBVIOUS
  <1> USE TokenAssumption DEF TypeOK, UpdatingHasUpdater, Updating, WaitersKnowUpdater, States, Absent
  <1>0. TypeOK /\ UpdatingHasUpdater /\ WaitersKnowUpdater
    BY DEF IInv
  <1>1. ASSUME NEW c \in Clients, GetToken(c) PROVE WaitersKnowUpdater'
    BY <1>0, <1>1 DEF GetToken
  <1>2. ASSUME NEW c \in Clients, Read(c) PROVE WaitersKnowUpdater'
    BY <1>0, <1>2 DEF Read, MayRead
  <1>3. ASSUME NEW c \in Clients, ReadsUsedUp(c) PROVE WaitersKnowUpdater'
    BY <1>0, <1>3 DEF ReadsUsedUp
  <1>4. ASSUME NEW c \in Clients, Notified(c) PROVE WaitersKnowUpdater'
    BY <1>0, <1>4 DEF Notified
  <1>5. ASSUME NEW c \in Clients, Wake(c) PROVE WaitersKnowUpdater'
    BY <1>0, <1>5 DEF Wake
  <1>6. ASSUME NEW c \in Clients, CheckUpdating(c) PROVE WaitersKnowUpdater'
    BY <1>0, <1>6 DEF CheckUpdating
  <1>7. ASSUME NEW c \in Clients, Upsert(c) PROVE WaitersKnowUpdater'
    BY <1>0, <1>7 DEF Upsert
  <1>8. ASSUME NEW c \in Clients, NEW outcome \in {"ready", "failed"}, RequestEnds(c, outcome)
       PROVE  WaitersKnowUpdater'
    BY <1>0, <1>8 DEF RequestEnds, AfterRequest
  <1>9. ASSUME NEW c \in Clients, Update(c) PROVE WaitersKnowUpdater'
    BY <1>0, <1>9 DEF Update, EntryOf
  <1>10. ASSUME NEW c \in Clients, Finish(c) PROVE WaitersKnowUpdater'
    BY <1>0, <1>10 DEF Finish, NotifyWaiters
  <1>11. CASE UNCHANGED vars
    BY <1>0, <1>11 DEF vars
  <1> QED
    BY <1>1, <1>2, <1>3, <1>4, <1>5, <1>6, <1>7, <1>8, <1>9, <1>10, <1>11
    DEF Next, ClientStep, Answered

\* The conjunction of the step lemmas.
LEMMA NextIInv == IInv /\ [Next]_vars => IInv'
  BY NextTypeOK, NextAnswerIsKnown, NextReadyWasGranted, NextUpdatingHasUpdater,
     NextEntriesAreReady, NextWaitersKnowUpdater
  DEF IInv

-----------------------------------------------------------------------------
\* The inductive invariant holds in every reachable state.
THEOREM Invariance == Spec => []IInv
  BY InitIInv, NextIInv, PTL DEF Spec

\* The types are kept; in particular get never looks more often than it may.
THEOREM TypeCorrect == Spec => []TypeOK
  <1>1. IInv => TypeOK
    BY DEF IInv
  <1> QED
    BY Invariance, <1>1, PTL

\* No key is left in the updating state without an updater at work.
THEOREM NeverLeftUpdating == Spec => []UpdatingHasUpdater
  <1>1. IInv => UpdatingHasUpdater
    BY DEF IInv
  <1> QED
    BY Invariance, <1>1, PTL

\* The entries that get_token returns are ready, so TokenEntry::get is safe.
THEOREM ReturnedEntriesReady == Spec => []EntriesAreReady
  <1>1. IInv => EntriesAreReady
    BY DEF IInv
  <1> QED
    BY Invariance, <1>1, PTL

\* The end of an update wakes everybody who waits for it, so whoever is
\* stranded began to wait too late.
THEOREM OnlyLateWaiters == Spec => OnlyLateWaitersAreStranded
  <1>1. ASSUME IInv, [Next]_vars, NEW d \in Clients, Stranded(d)', ~Stranded(d)
        PROVE  pc[d] = "notified" /\ pc[notify[d]] \in {"ok", "failed"}
    <2> USE DEF TypeOK, WaitersKnowUpdater, Stranded
    <2>0. TypeOK /\ WaitersKnowUpdater
      BY <1>1 DEF IInv
    <2>1. ASSUME NEW c \in Clients, Finish(c) PROVE FALSE
      BY <1>1, <2>0, <2>1 DEF Finish, NotifyWaiters
    <2>2. ASSUME NEW c \in Clients, Notified(c)
          PROVE  pc[d] = "notified" /\ pc[notify[d]] \in {"ok", "failed"}
      BY <1>1, <2>0, <2>2 DEF Notified
    <2>3. ASSUME NEW c \in Clients, GetToken(c) \/ Read(c) \/ ReadsUsedUp(c) \/ CheckUpdating(c)
          PROVE  FALSE
      BY <1>1, <2>0, <2>3 DEF GetToken, Read, ReadsUsedUp, CheckUpdating
    <2>4. ASSUME NEW c \in Clients, Wake(c) PROVE FALSE
      BY <1>1, <2>0, <2>4 DEF Wake
    <2>5. ASSUME NEW c \in Clients, Upsert(c) \/ Update(c) PROVE FALSE
      BY <1>1, <2>0, <2>5 DEF Upsert, Update
    <2>6. ASSUME NEW c \in Clients, NEW outcome, RequestEnds(c, outcome) PROVE FALSE
      BY <1>1, <2>0, <2>6 DEF RequestEnds, AfterRequest
    <2>7. CASE UNCHANGED vars
      BY <1>1, <2>7 DEF vars
    <2> QED
      BY <1>1, <2>1, <2>2, <2>3, <2>4, <2>5, <2>6, <2>7 DEF Next, ClientStep, Answered
  <1>2. IInv /\ [Next]_vars =>
          [\A d \in Clients :
              Stranded(d)' /\ ~Stranded(d)
                  => pc[d] = "notified" /\ pc[notify[d]] \in {"ok", "failed"}]_vars
    BY <1>1
  <1> QED
    BY Invariance, <1>2, PTL DEF Spec, OnlyLateWaitersAreStranded
=============================================================================
