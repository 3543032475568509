------------------------ MODULE NgapControllerProofs ------------------------
(***************************************************************************)
(* Proofs that the registry of gNBs and the association table stay         *)
(* consistent, for any number of connections, addresses and RAN node ids.  *)
(***************************************************************************)
EXTENDS NgapController, TLAPS

\* A task that has passed NG Setup knows the id its gNB announced.
RanIsKnown ==
    \A c \in Conns :
        /\ pc[c] = "respond" /\ reply[c] = "NgSetupResponse" => ran[c] \in RanIds
        /\ pc[c] \in {"register", "loop", "closing"} => ran[c] \in RanIds

\* A connection has its stream and its address from the moment it waits to be
\* accepted.
RemoteIsKnown ==
    /\ \A c \in Conns : IF pc[c] = "none" THEN sock[c] = "none" ELSE remote[c] \in Addrs
    /\ \A c \in associations : pc[c] \notin {"none", "backlog"}

IInv ==
    /\ TypeOK
    /\ RanIsKnown
    /\ RemoteIsKnown
    /\ RegistryAgrees
    /\ AssociationTableAgrees

-----------------------------------------------------------------------------
\* The inductive invariant holds before any connection is made.
LEMMA InitIInv == Init => IInv
  <1> SUFFICES ASSUME Init PROVE IInv
    OBVIOUS
  <1>1. TypeOK
    <2>1. 1 \in 1 .. INITIALIZATION_RETRIES
      BY DEF INITIALIZATION_RETRIES
    <2> QED
      BY <2>1, Zenon DEF Init, TypeOK
  <1>2. RanIsKnown /\ RemoteIsKnown
    BY DEF Init, RanIsKnown, RemoteIsKnown
  <1>3. RegistryAgrees
    BY DEF Init, RegistryAgrees, LoopOwnsItsEntry, EntryHasOwner
  <1>4. AssociationTableAgrees
    BY DEF Init, AssociationTableAgrees
  <1> QED
    BY <1>1, <1>2, <1>3, <1>4 DEF IInv

\* Every step keeps the types.
LEMMA NextTypeOK == IInv /\ [Next]_vars => TypeOK'
  <1> SUFFICES ASSUME IInv, [Next]_vars PROVE TypeOK'
    OBVIOUS
  <1> USE DEF TypeOK, INITIALIZATION_RETRIES, connVars, tableVars, runVars
  <1>0. TypeOK /\ RanIsKnown /\ RemoteIsKnown
    BY DEF IInv
  <1>1. ASSUME NEW c \in Conns, NEW a \in Addrs, PeerConnects(c, a) PROVE TypeOK'
    BY <1>0, <1>1 DEF PeerConnects
  <1>2. ASSUME NEW c \in Conns, PeerCloses(c) PROVE TypeOK'
    BY <1>0, <1>2 DEF PeerCloses
  <1>3. CASE Cancel
    BY <1>0, <1>3 DEF Cancel
  <1>4. ASSUME NEW c \in Conns, Accept(c) PROVE TypeOK'
    BY <1>0, <1>4 DEF RemoteIsKnown, Accept, AddTnlaAssociation
  <1>5. ASSUME NEW c \in Conns, AcceptFails(c) PROVE TypeOK'
    BY <1>0, <1>5 DEF AcceptFails
  <1>6. CASE StopAccepting
    BY <1>0, <1>6 DEF StopAccepting
  <1>7. ASSUME NEW c \in Conns, SetupReadFails(c) PROVE TypeOK'
    BY <1>0, <1>7 DEF SetupReadFails, NextAttempt
  <1>8. ASSUME NEW c \in Conns, SetupUnexpectedPdu(c) PROVE TypeOK'
    BY <1>0, <1>8 DEF SetupUnexpectedPdu
  <1>9. ASSUME NEW c \in Conns, NEW q \in SetupRequests, SetupRequest(c, q) PROVE TypeOK'
    BY <1>0, <1>9 DEF SetupRequest, SetupRequests
  <1>10. ASSUME NEW c \in Conns, SetupRespond(c) PROVE TypeOK'
    BY <1>0, <1>10 DEF SetupRespond, NextAttempt
  <1>11. ASSUME NEW c \in Conns, SetupRespondFails(c) PROVE TypeOK'
    BY <1>0, <1>11 DEF SetupRespondFails, NextAttempt
  <1>12. ASSUME NEW c \in Conns, Register(c) PROVE TypeOK'
    BY <1>0, <1>12 DEF Register, InsertContext
  <1>13. ASSUME NEW c \in Conns, LoopEof(c) PROVE TypeOK'
    BY <1>0, <1>13 DEF LoopEof, LoopReturnsOk
  <1>14. ASSUME NEW c \in Conns, LoopError(c) PROVE TypeOK'
    BY <1>0, <1>14 DEF LoopError
  <1>15. ASSUME NEW c \in Conns, CloseRanConnection(c) PROVE TypeOK'
    BY <1>0, <1>15 DEF CloseRanConnection, RemoveContext
  <1>16. CASE UNCHANGED vars
    BY <1>0, <1>16 DEF vars
  <1> QED
    BY <1>1, <1>2, <1>3, <1>4, <1>5, <1>6, <1>7, <1>8, <1>9, <1>10, <1>11, <1>12,
       <1>13, <1>14, <1>15, <1>16 DEF Next

\* Every step keeps RanIsKnown: only a failed attempt forgets the id.
LEMMA NextRanIsKnown == IInv /\ [Next]_vars => RanIsKnown'
  <1> SUFFICES ASSUME IInv, [Next]_vars PROVE RanIsKnown'
    OBVIOUS
  <1> USE DEF TypeOK, RanIsKnown, connVars, tableVars, runVars
  <1>0. TypeOK /\ RanIsKnown
    BY DEF IInv
  <1>1. ASSUME NEW c \in Conns, NEW a \in Addrs, PeerConnects(c, a) PROVE RanIsKnown'
    BY <1>0, <1>1 DEF PeerConnects
  <1>2. ASSUME NEW c \in Conns, PeerCloses(c) PROVE RanIsKnown'
    BY <1>0, <1>2 DEF PeerCloses
  <1>3. CASE Cancel
    BY <1>0, <1>3 DEF Cancel
  <1>4. ASSUME NEW c \in Conns, Accept(c) PROVE RanIsKnown'
    BY <1>0, <1>4 DEF Accept, AddTnlaAssociation
  <1>5. ASSUME NEW c \in Conns, AcceptFails(c) PROVE RanIsKnown'
    BY <1>0, <1>5 DEF AcceptFails
  <1>6. CASE StopAccepting
    BY <1>0, <1>6 DEF StopAccepting
  <1>7. ASSUME NEW c \in Conns, SetupReadFails(c) PROVE RanIsKnown'
    BY <1>0, <1>7 DEF SetupReadFails, NextAttempt
  <1>8. ASSUME NEW c \in Conns, SetupUnexpectedPdu(c) PROVE RanIsKnown'
    BY <1>0, <1>8 DEF SetupUnexpectedPdu
  <1>9. ASSUME NEW c \in Conns, NEW q \in SetupRequests, SetupRequest(c, q) PROVE RanIsKnown'
    BY <1>0, <1>9 DEF SetupRequest, SetupRequests
  <1>10. ASSUME NEW c \in Conns, SetupRespond(c) PROVE RanIsKnown'
    BY <1>0, <1>10 DEF SetupRespond, NextAttempt
  <1>11. ASSUME NEW c \in Conns, SetupRespondFails(c) PROVE RanIsKnown'
    BY <1>0, <1>11 DEF SetupRespondFails, NextAttempt
  <1>12. ASSUME NEW c \in Conns, Register(c) PROVE RanIsKnown'
    BY <1>0, <1>12 DEF Register, InsertContext
  <1>13. ASSUME NEW c \in Conns, LoopEof(c) PROVE RanIsKnown'
    BY <1>0, <1>13 DEF LoopEof, LoopReturnsOk
  <1>14. ASSUME NEW c \in Conns, LoopError(c) PROVE RanIsKnown'
    BY <1>0, <1>14 DEF LoopError
  <1>15. ASSUME NEW c \in Conns, CloseRanConnection(c) PROVE RanIsKnown'
    BY <1>0, <1>15 DEF CloseRanConnection, RemoveContext
  <1>16. CASE UNCHANGED vars
    BY <1>0, <1>16 DEF vars
  <1> QED
    BY <1>1, <1>2, <1>3, <1>4, <1>5, <1>6, <1>7, <1>8, <1>9, <1>10, <1>11, <1>12,
       <1>13, <1>14, <1>15, <1>16 DEF Next

\* Every step keeps RemoteIsKnown: an address is set once, before the accept.
LEMMA NextRemoteIsKnown == IInv /\ [Next]_vars => RemoteIsKnown'
  <1> SUFFICES ASSUME IInv, [Next]_vars PROVE RemoteIsKnown'
    OBVIOUS
  <1> USE DEF TypeOK, RemoteIsKnown, connVars, tableVars, runVars
  <1>0. TypeOK /\ RemoteIsKnown
    BY DEF IInv
  <1>1. ASSUME NEW c \in Conns, NEW a \in Addrs, PeerConnects(c, a) PROVE RemoteIsKnown'
    BY <1>0, <1>1 DEF PeerConnects
  <1>2. ASSUME NEW c \in Conns, PeerCloses(c) PROVE RemoteIsKnown'
    BY <1>0, <1>2 DEF PeerCloses
  <1>3. CASE Cancel
    BY <1>0, <1>3 DEF Cancel
  <1>4. ASSUME NEW c \in Conns, Accept(c) PROVE RemoteIsKnown'
    BY <1>0, <1>4 DEF Accept, AddTnlaAssociation
  <1>5. ASSUME NEW c \in Conns, AcceptFails(c) PROVE RemoteIsKnown'
    BY <1>0, <1>5 DEF AcceptFails
  <1>6. CASE StopAccepting
    BY <1>0, <1>6 DEF StopAccepting
  <1>7. ASSUME NEW c \in Conns, SetupReadFails(c) PROVE RemoteIsKnown'
    BY <1>0, <1>7 DEF SetupReadFails, NextAttempt
  <1>8. ASSUME NEW c \in Conns, SetupUnexpectedPdu(c) PROVE RemoteIsKnown'
    BY <1>0, <1>8 DEF SetupUnexpectedPdu
  <1>9. ASSUME NEW c \in Conns, NEW q \in SetupRequests, SetupRequest(c, q) PROVE RemoteIsKnown'
    BY <1>0, <1>9 DEF SetupRequest, SetupRequests
  <1>10. ASSUME NEW c \in Conns, SetupRespond(c) PROVE RemoteIsKnown'
    BY <1>0, <1>10 DEF SetupRespond, NextAttempt
  <1>11. ASSUME NEW c \in Conns, SetupRespondFails(c) PROVE RemoteIsKnown'
    BY <1>0, <1>11 DEF SetupRespondFails, NextAttempt
  <1>12. ASSUME NEW c \in Conns, Register(c) PROVE RemoteIsKnown'
    BY <1>0, <1>12 DEF Register, InsertContext
  <1>13. ASSUME NEW c \in Conns, LoopEof(c) PROVE RemoteIsKnown'
    BY <1>0, <1>13 DEF LoopEof, LoopReturnsOk
  <1>14. ASSUME NEW c \in Conns, LoopError(c) PROVE RemoteIsKnown'
    BY <1>0, <1>14 DEF LoopError
  <1>15. ASSUME NEW c \in Conns, CloseRanConnection(c) PROVE RemoteIsKnown'
    BY <1>0, <1>15 DEF CloseRanConnection, RemoveContext
  <1>16. CASE UNCHANGED vars
    BY <1>0, <1>16 DEF vars
  <1> QED
    BY <1>1, <1>2, <1>3, <1>4, <1>5, <1>6, <1>7, <1>8, <1>9, <1>10, <1>11, <1>12,
       <1>13, <1>14, <1>15, <1>16 DEF Next

\* Every step keeps the association table consistent.
LEMMA NextAssociationTable == IInv /\ [Next]_vars => AssociationTableAgrees'
  <1> SUFFICES ASSUME IInv, [Next]_vars PROVE AssociationTableAgrees'
    OBVIOUS
  <1> USE DEF TypeOK, RemoteIsKnown, AssociationTableAgrees, connVars, tableVars, runVars
  <1>0. TypeOK /\ RemoteIsKnown /\ AssociationTableAgrees
    BY DEF IInv
  <1>1. ASSUME NEW c \in Conns, NEW a \in Addrs, PeerConnects(c, a) PROVE AssociationTableAgrees'
    BY <1>0, <1>1 DEF PeerConnects
  <1>2. ASSUME NEW c \in Conns, PeerCloses(c) PROVE AssociationTableAgrees'
    BY <1>0, <1>2 DEF PeerCloses
  <1>3. CASE Cancel
    BY <1>0, <1>3 DEF Cancel
  <1>4. ASSUME NEW c \in Conns, Accept(c) PROVE AssociationTableAgrees'
    BY <1>0, <1>4 DEF Accept, AddTnlaAssociation
  <1>5. ASSUME NEW c \in Conns, AcceptFails(c) PROVE AssociationTableAgrees'
    BY <1>0, <1>5 DEF AcceptFails
  <1>6. CASE StopAccepting
    BY <1>0, <1>6 DEF StopAccepting
  <1>7. ASSUME NEW c \in Conns, SetupReadFails(c) PROVE AssociationTableAgrees'
    BY <1>0, <1>7 DEF SetupReadFails, NextAttempt
  <1>8. ASSUME NEW c \in Conns, SetupUnexpectedPdu(c) PROVE AssociationTableAgrees'
    BY <1>0, <1>8 DEF SetupUnexpectedPdu
  <1>9. ASSUME NEW c \in Conns, NEW q \in SetupRequests, SetupRequest(c, q) PROVE AssociationTableAgrees'
    BY <1>0, <1>9 DEF SetupRequest, SetupRequests
  <1>10. ASSUME NEW c \in Conns, SetupRespond(c) PROVE AssociationTableAgrees'
    BY <1>0, <1>10 DEF SetupRespond, NextAttempt
  <1>11. ASSUME NEW c \in Conns, SetupRespondFails(c) PROVE AssociationTableAgrees'
    BY <1>0, <1>11 DEF SetupRespondFails, NextAttempt
  <1>12. ASSUME NEW c \in Conns, Register(c) PROVE AssociationTableAgrees'
    BY <1>0, <1>12 DEF Register, InsertContext
  <1>13. ASSUME NEW c \in Conns, LoopEof(c) PROVE AssociationTableAgrees'
    BY <1>0, <1>13 DEF LoopEof, LoopReturnsOk
  <1>14. ASSUME NEW c \in Conns, LoopError(c) PROVE AssociationTableAgrees'
    BY <1>0, <1>14 DEF LoopError
  <1>15. ASSUME NEW c \in Conns, CloseRanConnection(c) PROVE AssociationTableAgrees'
    BY <1>0, <1>15 DEF CloseRanConnection, RemoveContext
  <1>16. CASE UNCHANGED vars
    BY <1>0, <1>16 DEF vars
  <1> QED
    BY <1>1, <1>2, <1>3, <1>4, <1>5, <1>6, <1>7, <1>8, <1>9, <1>10, <1>11, <1>12,
       <1>13, <1>14, <1>15, <1>16 DEF Next

\* Every step keeps the registry: what a connection holds, no other touches.
LEMMA NextRegistry == IInv /\ [Next]_vars => RegistryAgrees'
  <1> SUFFICES ASSUME IInv, [Next]_vars PROVE RegistryAgrees'
    OBVIOUS
  <1> USE DEF TypeOK, RanIsKnown, RegistryAgrees, LoopOwnsItsEntry, EntryHasOwner, connVars, tableVars, runVars
  <1>0. TypeOK /\ RanIsKnown /\ RegistryAgrees
    BY DEF IInv
  <1>1. ASSUME NEW c \in Conns, NEW a \in Addrs, PeerConnects(c, a) PROVE RegistryAgrees'
    BY <1>0, <1>1 DEF PeerConnects
  <1>2. ASSUME NEW c \in Conns, PeerCloses(c) PROVE RegistryAgrees'
    BY <1>0, <1>2 DEF PeerCloses
  <1>3. CASE Cancel
    BY <1>0, <1>3 DEF Cancel
  <1>4. ASSUME NEW c \in Conns, Accept(c) PROVE RegistryAgrees'
    BY <1>0, <1>4 DEF Accept, AddTnlaAssociation
  <1>5. ASSUME NEW c \in Conns, AcceptFails(c) PROVE RegistryAgrees'
    BY <1>0, <1>5 DEF AcceptFails
  <1>6. CASE StopAccepting
    BY <1>0, <1>6 DEF StopAccepting
  <1>7. ASSUME NEW c \in Conns, SetupReadFails(c) PROVE RegistryAgrees'
    BY <1>0, <1>7 DEF SetupReadFails, NextAttempt
  <1>8. ASSUME NEW c \in Conns, SetupUnexpectedPdu(c) PROVE RegistryAgrees'
    BY <1>0, <1>8 DEF SetupUnexpectedPdu
  <1>9. ASSUME NEW c \in Conns, NEW q \in SetupRequests, SetupRequest(c, q) PROVE RegistryAgrees'
    BY <1>0, <1>9 DEF SetupRequest, SetupRequests
  <1>10. ASSUME NEW c \in Conns, SetupRespond(c) PROVE RegistryAgrees'
    BY <1>0, <1>10 DEF SetupRespond, NextAttempt
  <1>11. ASSUME NEW c \in Conns, SetupRespondFails(c) PROVE RegistryAgrees'
    BY <1>0, <1>11 DEF SetupRespondFails, NextAttempt
  <1>12. ASSUME NEW c \in Conns, Register(c) PROVE RegistryAgrees'
    <2>1. CASE gnb_contexts[ran[c]] # None
      BY <1>0, <1>12, <2>1 DEF Register, InsertContext
    <2>2. CASE gnb_contexts[ran[c]] = None
      <3>1. /\ ran[c] \in RanIds
            /\ gnb_contexts' = [gnb_contexts EXCEPT ![ran[c]] = c]
            /\ pc' = [pc EXCEPT ![c] = "loop"]
            /\ ran' = ran
        BY <1>0, <1>12, <2>2 DEF Register, InsertContext
      <3>2. LoopOwnsItsEntry'
        BY <1>0, <2>2, <3>1, ControllerAssumption
      <3>3. EntryHasOwner'
        BY <1>0, <1>12, <2>2, <3>1, ControllerAssumption DEF Register
      <3> QED
        BY <3>2, <3>3
    <2> QED
      BY <2>1, <2>2
  <1>13. ASSUME NEW c \in Conns, LoopEof(c) PROVE RegistryAgrees'
    BY <1>0, <1>13 DEF LoopEof, LoopReturnsOk
  <1>14. ASSUME NEW c \in Conns, LoopError(c) PROVE RegistryAgrees'
    BY <1>0, <1>14 DEF LoopError
  <1>15. ASSUME NEW c \in Conns, CloseRanConnection(c) PROVE RegistryAgrees'
    BY <1>0, <1>15 DEF CloseRanConnection, RemoveContext
  <1>16. CASE UNCHANGED vars
    BY <1>0, <1>16 DEF vars
  <1> QED
    BY <1>1, <1>2, <1>3, <1>4, <1>5, <1>6, <1>7, <1>8, <1>9, <1>10, <1>11, <1>12,
       <1>13, <1>14, <1>15, <1>16 DEF Next

\* An entry is removed by the close of its owner and by nothing else: with
\* the registry invariant, the id that close_ran_connection removes is held by
\* the connection that closes, and an insert never replaces.
LEMMA StepRemovesOwnOnly ==
    ASSUME IInv, [Next]_vars, NEW r \in RanIds, gnb_contexts[r] # None
    PROVE  \/ gnb_contexts'[r] = gnb_contexts[r]
           \/ gnb_contexts'[r] = None /\ pc[gnb_contexts[r]] = "closing"
  <1> DEFINE Kept == gnb_contexts'[r] = gnb_contexts[r]
  <1>0. TypeOK /\ RanIsKnown /\ LoopOwnsItsEntry
    BY DEF IInv, RegistryAgrees
  <1>1. ASSUME NEW c \in Conns, Register(c) PROVE Kept
    BY <1>0, <1>1 DEF Register, InsertContext, TypeOK, RanIsKnown
  <1>2. ASSUME NEW c \in Conns, CloseRanConnection(c)
        PROVE  Kept \/ (gnb_contexts'[r] = None /\ pc[gnb_contexts[r]] = "closing")
    BY <1>0, <1>2 DEF CloseRanConnection, RemoveContext, TypeOK, RanIsKnown, LoopOwnsItsEntry
  <1>3. CASE UNCHANGED gnb_contexts
    BY <1>3
  <1> QED
    BY <1>1, <1>2, <1>3
    DEF Next, vars, tableVars, PeerConnects, PeerCloses, Cancel, Accept, AcceptFails,
        StopAccepting, SetupReadFails, SetupUnexpectedPdu, SetupRequest, SetupRespond,
        SetupRespondFails, NextAttempt, LoopEof, LoopError

\* The conjunction of the step lemmas.
LEMMA NextIInv == IInv /\ [Next]_vars => IInv'
  BY NextTypeOK, NextRanIsKnown, NextRemoteIsKnown, NextAssociationTable, NextRegistry
  DEF IInv

-----------------------------------------------------------------------------
\* The inductive invariant holds in every reachable state.
THEOREM Invariance == Spec => []IInv
  BY InitIInv, NextIInv, PTL DEF Spec

\* The variables keep their types; an attempt number never passes
\* INITIALIZATION_RETRIES.
THEOREM TypeCorrect == Spec => []TypeOK
  <1>1. IInv => TypeOK
    BY DEF IInv
  <1> QED
    BY Invariance, <1>1, PTL

\* A gNB whose loop runs or is being closed is registered under its own id, and
\* every registered id has an owner that runs, closes or ended by a read error.
THEOREM RegistryConsistent == Spec => []RegistryAgrees
  <1>1. IInv => RegistryAgrees
    BY DEF IInv
  <1> QED
    BY Invariance, <1>1, PTL

\* The address pairs in the table are those of its associations, each once.
THEOREM AssociationsConsistent == Spec => []AssociationTableAgrees
  <1>1. IInv => AssociationTableAgrees
    BY DEF IInv
  <1> QED
    BY Invariance, <1>1, PTL

\* No connection ever replaces or removes the registration of another.
THEOREM RegistrationIsOwned == Spec => EntryRemovedByOwnerOnly
  <1>1. IInv /\ [Next]_vars =>
          [\A r \in RanIds :
              gnb_contexts[r] # None =>
                  \/ gnb_contexts'[r] = gnb_contexts[r]
                  \/ gnb_contexts'[r] = None /\ pc[gnb_contexts[r]] = "closing"]_vars
    BY StepRemovesOwnOnly
  <1> QED
    BY Invariance, <1>1, PTL DEF Spec, EntryRemovedByOwnerOnly

-----------------------------------------------------------------------------
(* The end of a stream                                                     *)

\* What EofRunsOut asks of a step, for one connection.
NearerToEnd(c) ==
    /\ sock'[c] = "eof"
    /\ StepsLeft(c)' <= StepsLeft(c)
    /\ pc'[c] # pc[c] \/ attempt'[c] # attempt[c] => StepsLeft(c)' < StepsLeft(c)

\* A step that leaves a connection alone keeps what it has left.
LEMMA OthersPutNothingOff ==
    ASSUME TypeOK, NEW c \in Conns, sock[c] = "eof", sock'[c] = sock[c], pc'[c] = pc[c],
           attempt'[c] = attempt[c]
    PROVE  NearerToEnd(c)
  <1>1. StepsLeft(c)' = StepsLeft(c)
    BY DEF StepsLeft
  <1>2. StepsLeft(c) \in Nat
    BY DEF StepsLeft, TypeOK, INITIALIZATION_RETRIES
  <1> QED
    BY <1>1, <1>2 DEF NearerToEnd

\* A failed attempt leaves fewer retries, or ends the task.
LEMMA RetriesRunOut ==
    ASSUME TypeOK, NEW c \in Conns, sock[c] = "eof", UNCHANGED sock,
           pc[c] \in {"setup", "respond"}, NextAttempt(c)
    PROVE  NearerToEnd(c)
  <1>1. attempt[c] \in 1 .. 3
    BY DEF TypeOK, INITIALIZATION_RETRIES
  <1>2. StepsLeft(c) >= (3 - attempt[c]) + 1 /\ StepsLeft(c) \in Nat
    BY <1>1 DEF StepsLeft, INITIALIZATION_RETRIES
  <1>3. CASE attempt[c] = 3
    <2>1. StepsLeft(c)' = 0
      BY <1>3 DEF NextAttempt, TypeOK, StepsLeft, INITIALIZATION_RETRIES
    <2> QED
      BY <1>1, <1>2, <1>3, <2>1 DEF NearerToEnd
  <1>4. CASE attempt[c] < 3
    <2>1. StepsLeft(c)' = (3 - (attempt[c] + 1)) + 1
      BY <1>1, <1>4 DEF NextAttempt, TypeOK, StepsLeft, INITIALIZATION_RETRIES
    <2> QED
      BY <1>1, <1>2, <1>4, <2>1 DEF NearerToEnd
  <1> QED
    BY <1>1, <1>3, <1>4

\* Every step of a task whose stream has ended brings its end nearer.
LEMMA StepNearerToEnd ==
    ASSUME IInv, [Next]_vars, NEW c \in Conns, sock[c] = "eof", pc[c] # "backlog"
    PROVE  NearerToEnd(c)
  <1> USE DEF connVars, tableVars, runVars
  <1>0. TypeOK
    BY DEF IInv
  <1>1. CASE /\ sock'[c] = sock[c]
             /\ pc'[c] = pc[c]
             /\ attempt'[c] = attempt[c]
    BY <1>0, <1>1, OthersPutNothingOff
  <1>2. ASSUME NEW d \in Conns, NEW a \in Addrs, PeerConnects(d, a) PROVE NearerToEnd(c)
    <2>1. d # c
      BY <1>2 DEF PeerConnects, IInv, RemoteIsKnown
    <2> QED
      BY <1>0, <1>1, <1>2, <2>1 DEF PeerConnects, TypeOK
  <1>3. ASSUME NEW d \in Conns, PeerCloses(d) \/ LoopError(d) PROVE NearerToEnd(c)
    BY <1>0, <1>1, <1>3 DEF PeerCloses, LoopError, TypeOK
  <1>4. ASSUME NEW d \in Conns, Accept(d) \/ AcceptFails(d) PROVE NearerToEnd(c)
    BY <1>0, <1>1, <1>4 DEF Accept, AddTnlaAssociation, AcceptFails, TypeOK
  <1>5. CASE Cancel \/ StopAccepting \/ UNCHANGED vars
    BY <1>1, <1>5 DEF Cancel, StopAccepting, vars
  <1>6. ASSUME NEW d \in Conns, NextAttempt(d), pc[d] \in {"setup", "respond"},
               \/ UNCHANGED sock
               \/ sock[d] # "eof" /\ sock' = [sock EXCEPT ![d] = "reset"]
        PROVE  NearerToEnd(c)
    <2>1. CASE d = c
      BY <1>0, <1>6, <2>1, RetriesRunOut
    <2>2. CASE d # c
      BY <1>0, <1>1, <1>6, <2>2 DEF NextAttempt, TypeOK
    <2> QED
      BY <2>1, <2>2
  <1>7. ASSUME NEW d \in Conns, SetupReadFails(d) \/ SetupRespondFails(d) PROVE NearerToEnd(c)
    BY <1>6, <1>7 DEF SetupReadFails, SetupRespondFails
  <1>8. ASSUME NEW d \in Conns, SetupUnexpectedPdu(d) PROVE NearerToEnd(c)
    BY <1>0, <1>1, <1>8 DEF SetupUnexpectedPdu, TypeOK
  <1>9. ASSUME NEW d \in Conns, NEW q \in SetupRequests, SetupRequest(d, q) PROVE NearerToEnd(c)
    BY <1>0, <1>1, <1>9 DEF SetupRequest, TypeOK
  <1>10. ASSUME NEW d \in Conns, NEW p, pc' = [pc EXCEPT ![d] = p], UNCHANGED <<sock, attempt>>,
                \/ pc[d] = "respond" /\ p = "register"
                \/ pc[d] = "register" /\ p \in {"loop", "panicked"}
                \/ pc[d] = "loop" /\ p = "closing"
                \/ pc[d] = "closing" /\ p = "closed"
         PROVE  NearerToEnd(c)
    <2>1. CASE d = c
      BY <1>0, <1>10, <2>1 DEF NearerToEnd, StepsLeft, TypeOK
    <2>2. CASE d # c
      BY <1>0, <1>1, <1>10, <2>2 DEF TypeOK
    <2> QED
      BY <2>1, <2>2
  <1>11. ASSUME NEW d \in Conns, SetupRespond(d) PROVE NearerToEnd(c)
    <2>1. CASE reply[d] = "NgSetupResponse"
      BY <1>10, <1>11, <2>1 DEF SetupRespond
    <2>2. CASE reply[d] # "NgSetupResponse"
      BY <1>6, <1>11, <2>2 DEF SetupRespond
    <2> QED
      BY <2>1, <2>2
  <1>12. ASSUME NEW d \in Conns, Register(d) PROVE NearerToEnd(c)
    BY <1>10, <1>12 DEF Register, InsertContext
  <1>13. ASSUME NEW d \in Conns, LoopEof(d) PROVE NearerToEnd(c)
    BY <1>10, <1>13 DEF LoopEof, LoopReturnsOk
  <1>14. ASSUME NEW d \in Conns, CloseRanConnection(d) PROVE NearerToEnd(c)
    BY <1>10, <1>14 DEF CloseRanConnection
  <1> QED
    BY <1>2, <1>3, <1>4, <1>5, <1>7, <1>8, <1>9, <1>11, <1>12, <1>13, <1>14 DEF Next

\* Once the peer has closed, a task has at most four steps left, and nothing
\* that happens elsewhere adds to them.
THEOREM EofCountsDown == Spec => EofRunsOut
  <1>1. IInv /\ [Next]_vars =>
          [\A c \in Conns : sock[c] = "eof" /\ pc[c] # "backlog" => NearerToEnd(c)]_vars
    BY StepNearerToEnd
  <1> QED
    BY Invariance, <1>1, PTL DEF Spec, EofRunsOut, NearerToEnd
=============================================================================
