-------------------------- MODULE InitialUeProofs ---------------------------
(***************************************************************************)
(* Proofs about the handlers of InitialUeMessage, for any number of        *)
(* messages and RAN UE ids.                                                *)
(***************************************************************************)
EXTENDS InitialUe, TLAPS

\* A task that handles an InitialUeMessage knows the id the message carries;
\* without a task there is no id and no answer.
IdIsKnown ==
    \A m \in Msgs :
        /\ pc[m] \in {"check", "create", "add", "with", "scheduled", "handled", "panicked"}
              => ran_ue_id[m] \in RanUeIds
        /\ pc[m] = "none" => ran_ue_id[m] = None /\ response[m] = None /\ sent[m] = None

\* The map holds exactly the contexts whose task has passed the add, each
\* under the id of its message.
MapHoldsAdded ==
    /\ \A m \in Msgs : pc[m] \in {"with", "scheduled", "handled"} => queues[ran_ue_id[m]] = m
    /\ \A i \in RanUeIds : queues[i] # None =>
          /\ ran_ue_id[queues[i]] = i
          /\ pc[queues[i]] \in {"with", "scheduled", "handled"}
    /\ \A m \in Msgs : target[m] # None => pc[m] \in {"scheduled", "handled"} /\ target[m] = m
    /\ \A m \in Msgs : pc[m] # "not_found"

\* Ids handed out are distinct; a context has one before it is added.
IdsDistinct ==
    /\ \A m, n \in Msgs : amf_ue_id[m] # 0 /\ amf_ue_id[m] = amf_ue_id[n] => m = n
    /\ \A m \in Msgs : pc[m] \in {"add", "with", "scheduled", "handled"} => amf_ue_id[m] # 0
    /\ amf_ue_id_generator # 0

IInv == TypeOK /\ IdIsKnown /\ MapHoldsAdded /\ IdsDistinct /\ OnlyOthersAreAnswered

-----------------------------------------------------------------------------
\* The inductive invariant holds before any message arrives.
LEMMA InitIInv == Init => IInv
  <1> SUFFICES ASSUME Init PROVE IInv
    OBVIOUS
  <1>1. TypeOK
    BY DEF Init, TypeOK, Ended, Results
  <1>2. IdIsKnown /\ MapHoldsAdded /\ OnlyOthersAreAnswered
    BY DEF Init, IdIsKnown, MapHoldsAdded, OnlyOthersAreAnswered
  <1>3. IdsDistinct
    BY DEF Init, IdsDistinct
  <1> QED
    BY <1>1, <1>2, <1>3 DEF IInv

\* Every step keeps the types, and hands out ids below the counter.
LEMMA NextTypeOK == IInv /\ [Next]_vars => TypeOK'
  <1> SUFFICES ASSUME IInv, [Next]_vars PROVE TypeOK'
    OBVIOUS
  <1> USE DEF TypeOK, IdIsKnown, Ended, Results, ioVars, EmptyResponse, NewEmptyFailureError
  <1>0. TypeOK /\ IdIsKnown
    BY DEF IInv
  <1>1. ASSUME NEW m \in Msgs, NEW i \in RanUeIds, ReceiveInitialUe(m, i) PROVE TypeOK'
    BY <1>0, <1>1, InitialUeAssumption DEF ReceiveInitialUe
  <1>2. ASSUME NEW m \in Msgs, NEW pdu \in Pdus, ReceiveOther(m, pdu) PROVE TypeOK'
    BY <1>0, <1>2, InitialUeAssumption DEF ReceiveOther
  <1>3. CASE Disconnect
    BY <1>0, <1>3, InitialUeAssumption DEF Disconnect
  <1>4. ASSUME NEW m \in Msgs, Reply(m) PROVE TypeOK'
    BY <1>0, <1>4, InitialUeAssumption DEF Reply, WriteData
  <1>5. ASSUME NEW m \in Msgs, ContainsContext(m) PROVE TypeOK'
    BY <1>0, <1>5, InitialUeAssumption DEF ContainsContext, Respond, LogAndConvertToPdu
  <1>6. ASSUME NEW m \in Msgs, NewUeContext(m) PROVE TypeOK'
    BY <1>0, <1>6, InitialUeAssumption DEF NewUeContext, Increment
  <1>7. ASSUME NEW m \in Msgs, AddUeContext(m) PROVE TypeOK'
    BY <1>0, <1>7, InitialUeAssumption DEF AddUeContext, AddContext, IntoInner, Respond, LogAndConvertToPdu
  <1>8. ASSUME NEW m \in Msgs, WithContext(m) PROVE TypeOK'
    BY <1>0, <1>8, InitialUeAssumption DEF WithContext, Respond, LogAndConvertToPdu
  <1>9. ASSUME NEW m \in Msgs, HandleNas(m) PROVE TypeOK'
    BY <1>0, <1>9, InitialUeAssumption DEF HandleNas, Respond, LogAndConvertToPdu
  <1>10. CASE UNCHANGED vars
    BY <1>0, <1>10 DEF vars
  <1> QED
    BY <1>1, <1>2, <1>3, <1>4, <1>5, <1>6, <1>7, <1>8, <1>9, <1>10
    DEF Next, TaskStep, ReceiveUndecodable, ReceiveUnrouted, Pdus

\* Every step keeps IdIsKnown: the id is set once, on receipt.
LEMMA NextIdIsKnown == IInv /\ [Next]_vars => IdIsKnown'
  <1> SUFFICES ASSUME IInv, [Next]_vars PROVE IdIsKnown'
    OBVIOUS
  <1> USE DEF TypeOK, IdIsKnown, Ended, Results, ioVars, EmptyResponse, NewEmptyFailureError
  <1>0. TypeOK /\ IdIsKnown
    BY DEF IInv
  <1>1. ASSUME NEW m \in Msgs, NEW i \in RanUeIds, ReceiveInitialUe(m, i) PROVE IdIsKnown'
    BY <1>0, <1>1, InitialUeAssumption DEF ReceiveInitialUe
  <1>2. ASSUME NEW m \in Msgs, NEW pdu \in Pdus, ReceiveOther(m, pdu) PROVE IdIsKnown'
    BY <1>0, <1>2, InitialUeAssumption DEF ReceiveOther
  <1>3. CASE Disconnect
    BY <1>0, <1>3, InitialUeAssumption DEF Disconnect
  <1>4. ASSUME NEW m \in Msgs, Reply(m) PROVE IdIsKnown'
    BY <1>0, <1>4, InitialUeAssumption DEF Reply, WriteData
  <1>5. ASSUME NEW m \in Msgs, ContainsContext(m) PROVE IdIsKnown'
    BY <1>0, <1>5, InitialUeAssumption DEF ContainsContext, Respond, LogAndConvertToPdu
  <1>6. ASSUME NEW m \in Msgs, NewUeContext(m) PROVE IdIsKnown'
    BY <1>0, <1>6, InitialUeAssumption DEF NewUeContext, Increment
  <1>7. ASSUME NEW m \in Msgs, AddUeContext(m) PROVE IdIsKnown'
    BY <1>0, <1>7, InitialUeAssumption DEF AddUeContext, AddContext, IntoInner, Respond, LogAndConvertToPdu
  <1>8. ASSUME NEW m \in Msgs, WithContext(m) PROVE IdIsKnown'
    BY <1>0, <1>8, InitialUeAssumption DEF WithContext, Respond, LogAndConvertToPdu
  <1>9. ASSUME NEW m \in Msgs, HandleNas(m) PROVE IdIsKnown'
    BY <1>0, <1>9, InitialUeAssumption DEF HandleNas, Respond, LogAndConvertToPdu
  <1>10. CASE UNCHANGED vars
    BY <1>0, <1>10 DEF vars
  <1> QED
    BY <1>1, <1>2, <1>3, <1>4, <1>5, <1>6, <1>7, <1>8, <1>9, <1>10
    DEF Next, TaskStep, ReceiveUndecodable, ReceiveUnrouted, Pdus

\* Every step keeps MapHoldsAdded: only the add writes the map, and only
\* where the map is empty.
LEMMA NextMapHoldsAdded == IInv /\ [Next]_vars => MapHoldsAdded'
  <1> SUFFICES ASSUME IInv, [Next]_vars PROVE MapHoldsAdded'
    OBVIOUS
  <1> USE DEF TypeOK, IdIsKnown, MapHoldsAdded, OnlyOthersAreAnswered
  <1>0. TypeOK /\ IdIsKnown /\ MapHoldsAdded /\ OnlyOthersAreAnswered
    BY DEF IInv
  <1>1. ASSUME NEW m \in Msgs, NEW i \in RanUeIds, ReceiveInitialUe(m, i) PROVE MapHoldsAdded'
    BY <1>0, <1>1, InitialUeAssumption DEF ReceiveInitialUe
  <1>2. ASSUME NEW m \in Msgs, NEW pdu \in Pdus, ReceiveOther(m, pdu) PROVE MapHoldsAdded'
    BY <1>0, <1>2, InitialUeAssumption DEF ReceiveOther
  <1>3. CASE Disconnect
    BY <1>0, <1>3, InitialUeAssumption DEF Disconnect
  <1>4. ASSUME NEW m \in Msgs, Reply(m) PROVE MapHoldsAdded'
    BY <1>0, <1>4, InitialUeAssumption DEF Reply, WriteData
  <1>5. ASSUME NEW m \in Msgs, ContainsContext(m) PROVE MapHoldsAdded'
    BY <1>0, <1>5, InitialUeAssumption DEF ContainsContext, Respond, LogAndConvertToPdu
  <1>6. ASSUME NEW m \in Msgs, NewUeContext(m) PROVE MapHoldsAdded'
    BY <1>0, <1>6, InitialUeAssumption DEF NewUeContext, Increment
  <1>7. ASSUME NEW m \in Msgs, AddUeContext(m) PROVE MapHoldsAdded'
    BY <1>0, <1>7, InitialUeAssumption DEF AddUeContext, AddContext, IntoInner, Respond, LogAndConvertToPdu
  <1>8. ASSUME NEW m \in Msgs, WithContext(m) PROVE MapHoldsAdded'
    BY <1>0, <1>8, InitialUeAssumption DEF WithContext, Respond, LogAndConvertToPdu
  <1>9. ASSUME NEW m \in Msgs, HandleNas(m) PROVE MapHoldsAdded'
    BY <1>0, <1>9, InitialUeAssumption DEF HandleNas, Respond, LogAndConvertToPdu
  <1>10. CASE UNCHANGED vars
    BY <1>0, <1>10 DEF vars
  <1> QED
    BY <1>1, <1>2, <1>3, <1>4, <1>5, <1>6, <1>7, <1>8, <1>9, <1>10
    DEF Next, TaskStep, ReceiveUndecodable, ReceiveUnrouted, Pdus

\* Every step keeps IdsDistinct: a new id is above all that were handed out.
LEMMA NextIdsDistinct == IInv /\ [Next]_vars => IdsDistinct'
  <1> SUFFICES ASSUME IInv, [Next]_vars PROVE IdsDistinct'
    OBVIOUS
  <1> USE DEF TypeOK, IdsDistinct
  <1>0. TypeOK /\ IdsDistinct
    BY DEF IInv
  <1>1. ASSUME NEW m \in Msgs, NEW i \in RanUeIds, ReceiveInitialUe(m, i) PROVE IdsDistinct'
    BY <1>0, <1>1, InitialUeAssumption DEF ReceiveInitialUe
  <1>2. ASSUME NEW m \in Msgs, NEW pdu \in Pdus, ReceiveOther(m, pdu) PROVE IdsDistinct'
    BY <1>0, <1>2, InitialUeAssumption DEF ReceiveOther
  <1>3. CASE Disconnect
    BY <1>0, <1>3, InitialUeAssumption DEF Disconnect
  <1>4. ASSUME NEW m \in Msgs, Reply(m) PROVE IdsDistinct'
    BY <1>0, <1>4, InitialUeAssumption DEF Reply, WriteData
  <1>5. ASSUME NEW m \in Msgs, ContainsContext(m) PROVE IdsDistinct'
    BY <1>0, <1>5, InitialUeAssumption DEF ContainsContext, Respond, LogAndConvertToPdu
  <1>6. ASSUME NEW m \in Msgs, NewUeContext(m) PROVE IdsDistinct'
    BY <1>0, <1>6, InitialUeAssumption DEF NewUeContext, Increment
  <1>7. ASSUME NEW m \in Msgs, AddUeContext(m) PROVE IdsDistinct'
    BY <1>0, <1>7, InitialUeAssumption DEF AddUeContext, AddContext, IntoInner, Respond, LogAndConvertToPdu
  <1>8. ASSUME NEW m \in Msgs, WithContext(m) PROVE IdsDistinct'
    BY <1>0, <1>8, InitialUeAssumption DEF WithContext, Respond, LogAndConvertToPdu
  <1>9. ASSUME NEW m \in Msgs, HandleNas(m) PROVE IdsDistinct'
    BY <1>0, <1>9, InitialUeAssumption DEF HandleNas, Respond, LogAndConvertToPdu
  <1>10. CASE UNCHANGED vars
    BY <1>0, <1>10 DEF vars
  <1> QED
    BY <1>1, <1>2, <1>3, <1>4, <1>5, <1>6, <1>7, <1>8, <1>9, <1>10
    DEF Next, TaskStep, ReceiveUndecodable, ReceiveUnrouted, Pdus

\* Every step keeps OnlyOthersAreAnswered: both results of a handler convert
\* to no PDU.
LEMMA NextOnlyOthers == IInv /\ [Next]_vars => OnlyOthersAreAnswered'
  <1> SUFFICES ASSUME IInv, [Next]_vars PROVE OnlyOthersAreAnswered'
    OBVIOUS
  <1> USE DEF TypeOK, IdIsKnown, OnlyOthersAreAnswered, Ended, Results, ioVars,
              EmptyResponse, NewEmptyFailureError
  <1>0. TypeOK /\ IdIsKnown /\ OnlyOthersAreAnswered
    BY DEF IInv
  <1>1. ASSUME NEW m \in Msgs, NEW i \in RanUeIds, ReceiveInitialUe(m, i) PROVE OnlyOthersAreAnswered'
    BY <1>0, <1>1, InitialUeAssumption DEF ReceiveInitialUe
  <1>2. ASSUME NEW m \in Msgs, NEW pdu \in Pdus, ReceiveOther(m, pdu) PROVE OnlyOthersAreAnswered'
    BY <1>0, <1>2, InitialUeAssumption DEF ReceiveOther
  <1>3. CASE Disconnect
    BY <1>0, <1>3, InitialUeAssumption DEF Disconnect
  <1>4. ASSUME NEW m \in Msgs, Reply(m) PROVE OnlyOthersAreAnswered'
    BY <1>0, <1>4, InitialUeAssumption DEF Reply, WriteData
  <1>5. ASSUME NEW m \in Msgs, ContainsContext(m) PROVE OnlyOthersAreAnswered'
    BY <1>0, <1>5, InitialUeAssumption DEF ContainsContext, Respond, LogAndConvertToPdu
  <1>6. ASSUME NEW m \in Msgs, NewUeContext(m) PROVE OnlyOthersAreAnswered'
    BY <1>0, <1>6, InitialUeAssumption DEF NewUeContext, Increment
  <1>7. ASSUME NEW m \in Msgs, AddUeContext(m) PROVE OnlyOthersAreAnswered'
    BY <1>0, <1>7, InitialUeAssumption DEF AddUeContext, AddContext, IntoInner, Respond, LogAndConvertToPdu
  <1>8. ASSUME NEW m \in Msgs, WithContext(m) PROVE OnlyOthersAreAnswered'
    BY <1>0, <1>8, InitialUeAssumption DEF WithContext, Respond, LogAndConvertToPdu
  <1>9. ASSUME NEW m \in Msgs, HandleNas(m) PROVE OnlyOthersAreAnswered'
    BY <1>0, <1>9, InitialUeAssumption DEF HandleNas, Respond, LogAndConvertToPdu
  <1>10. CASE UNCHANGED vars
    BY <1>0, <1>10 DEF vars
  <1> QED
    BY <1>1, <1>2, <1>3, <1>4, <1>5, <1>6, <1>7, <1>8, <1>9, <1>10
    DEF Next, TaskStep, ReceiveUndecodable, ReceiveUnrouted, Pdus

\* The conjunction of the step lemmas.
LEMMA NextIInv == IInv /\ [Next]_vars => IInv'
  BY NextTypeOK, NextIdIsKnown, NextMapHoldsAdded, NextIdsDistinct, NextOnlyOthers
  DEF IInv

-----------------------------------------------------------------------------
\* The inductive invariant holds in every reachable state.
THEOREM Invariance == Spec => []IInv
  BY InitIInv, NextIInv, PTL DEF Spec

\* The types are kept, and every id handed out is below the counter.
THEOREM TypeCorrect == Spec => []TypeOK
  <1>1. IInv => TypeOK
    BY DEF IInv
  <1> QED
    BY Invariance, <1>1, PTL

\* A NAS PDU is only given to the context its own message made.
THEOREM OwnContext == Spec => []NasReachesOwnContext
  <1>1. IInv => NasReachesOwnContext
    BY DEF IInv, MapHoldsAdded, NasReachesOwnContext
  <1> QED
    BY Invariance, <1>1, PTL

\* The UE contexts of a gNB have distinct AMF UE NGAP ids.
THEOREM UniqueAmfUeIds == Spec => []AmfUeIdsUnique
  <1>1. ASSUME IInv PROVE AmfUeIdsUnique
    <2> SUFFICES ASSUME NEW i \in RanUeIds, NEW j \in RanUeIds,
                        queues[i] # None, queues[j] # None, i # j
                 PROVE  amf_ue_id[queues[i]] # amf_ue_id[queues[j]]
      BY DEF AmfUeIdsUnique
    <2>1. queues[i] \in Msgs /\ queues[j] \in Msgs
      BY <1>1 DEF IInv, TypeOK
    <2>2. queues[i] # queues[j]
      BY <1>1 DEF IInv, MapHoldsAdded
    <2>3. amf_ue_id[queues[i]] # 0
      BY <1>1, <2>1 DEF IInv, MapHoldsAdded, IdsDistinct
    <2> QED
      BY <1>1, <2>1, <2>2, <2>3 DEF IInv, IdsDistinct
  <1> QED
    BY Invariance, <1>1, PTL

\* The gNB is sent nothing for an InitialUeMessage, and the error indication
\* of any other message is not lost before its write.
THEOREM SilentHandler == Spec => []OnlyOthersAreAnswered
  <1>1. IInv => OnlyOthersAreAnswered
    BY DEF IInv
  <1> QED
    BY Invariance, <1>1, PTL

\* add_context never replaces the context of a UE, whatever other messages do.
THEOREM ContextNeverReplaced ==
    Spec => [][\A i \in RanUeIds : queues[i] # None => queues'[i] = queues[i]]_vars
  <1>1. ASSUME IInv, [Next]_vars, NEW i \in RanUeIds, queues[i] # None
        PROVE  queues'[i] = queues[i]
    <2>1. ASSUME NEW m \in Msgs, AddUeContext(m) PROVE queues'[i] = queues[i]
      BY <1>1, <2>1 DEF IInv, TypeOK, IdIsKnown, AddUeContext, AddContext
    <2>2. CASE UNCHANGED queues
      BY <2>2
    <2> QED
      BY <1>1, <2>1, <2>2
      DEF Next, vars, TaskStep, ReceiveInitialUe, ReceiveUndecodable, ReceiveUnrouted, ReceiveOther,
          Disconnect, Reply,
          ContainsContext, NewUeContext, WithContext, HandleNas
  <1>2. IInv /\ [Next]_vars =>
          [\A i \in RanUeIds : queues[i] # None => queues'[i] = queues[i]]_vars
    BY <1>1
  <1> QED
    BY Invariance, <1>2, PTL DEF Spec

-----------------------------------------------------------------------------
(* The handlers as clients of the ContextManager                           *)

\* A step that leaves the map alone and every task on its side of the add is
\* none of the manager's.
LEMMA ManagerStutters ==
    ASSUME UNCHANGED queues, NEW m \in Msgs, NEW p, pc = [n \in Msgs |-> pc[n]],
           pc' = [pc EXCEPT ![m] = p], AddCall(m)' = AddCall(m),
           p = "panicked" <=> pc[m] = "panicked"
    PROVE  UNCHANGED Manager!vars
  <1>1. ASSUME NEW n \in Msgs PROVE AddCall(n)' = AddCall(n)
    <2>1. CASE n = m
      BY <2>1
    <2>2. CASE n # m
      BY <2>2 DEF AddCall
    <2> QED
      BY <2>1, <2>2
  <1>2. [n \in Msgs |-> AddCall(n)]' = [n \in Msgs |-> AddCall(n)]
    BY <1>1
  <1>3. {n \in Msgs : pc[n] = "panicked"}' = {n \in Msgs : pc[n] = "panicked"}
    OBVIOUS
  <1> QED
    BY <1>2, <1>3 DEF Manager!vars, Nothing

\* The add of a handler is the manager's add_context.
LEMMA AddIsAddContext ==
    ASSUME IInv, NEW m \in Msgs, AddUeContext(m), NEW i \in RanUeIds, i = ran_ue_id[m]
    PROVE  Manager!AddContext(m, i)
  <1> DEFINE calls == [n \in Msgs |-> AddCall(n)]
             lost == {n \in Msgs : pc[n] = "panicked"}
  <1>1. pc[m] = "add" /\ pc = [n \in Msgs |-> pc[n]]
    BY DEF IInv, TypeOK, AddUeContext, Ended, Results
  <1>2. calls[m] = "idle"
    BY <1>1 DEF AddCall
  <1>3. ASSUME NEW p, pc' = [pc EXCEPT ![m] = p]
        PROVE  calls' = [calls EXCEPT ![m] = AddCall(m)']
    <2>1. \A n \in Msgs : n # m => AddCall(n)' = AddCall(n)
      BY <1>1, <1>3 DEF AddCall
    <2> QED
      BY <2>1
  <1>4. CASE queues[i] = None
    <2>1. /\ queues' = [queues EXCEPT ![i] = m]
          /\ pc' = [pc EXCEPT ![m] = "with"]
      BY <1>4 DEF AddUeContext, AddContext
    <2>2. AddCall(m)' = "ok" /\ lost' = lost
      BY <2>1, <1>1 DEF AddCall
    <2> QED
      BY <1>2, <1>3, <1>4, <2>1, <2>2 DEF Manager!AddContext, Nothing
  <1>5. CASE queues[i] # None
    <2>1. UNCHANGED queues /\ pc' = [pc EXCEPT ![m] = "panicked"]
      BY <1>5 DEF AddUeContext, AddContext, IntoInner
    <2>2. AddCall(m)' = "panicked" /\ lost' = lost \cup {m}
      BY <2>1, <1>1 DEF AddCall
    <2> QED
      BY <1>2, <1>3, <1>5, <2>1, <2>2 DEF Manager!AddContext, Nothing
  <1> QED
    BY <1>4, <1>5

\* Every step of the handlers is an add_context, or nothing, to the manager.
LEMMA StepIsManagerStep == IInv /\ [Next]_vars => [Manager!Next]_(Manager!vars)
  <1> SUFFICES ASSUME IInv, [Next]_vars PROVE Manager!Next \/ UNCHANGED Manager!vars
    OBVIOUS
  <1>0. /\ pc = [n \in Msgs |-> pc[n]]
        /\ \A m \in Msgs : pc[m] # "not_found"
    BY DEF IInv, TypeOK, MapHoldsAdded
  <1>1. ASSUME NEW m \in Msgs, NEW i \in RanUeIds, ReceiveInitialUe(m, i)
        PROVE  UNCHANGED Manager!vars
    BY <1>0, <1>1, ManagerStutters DEF ReceiveInitialUe, AddCall
  <1>2. ASSUME NEW m \in Msgs, NEW pdu, ReceiveOther(m, pdu) PROVE UNCHANGED Manager!vars
    BY <1>0, <1>2, ManagerStutters DEF ReceiveOther, AddCall
  <1>3. CASE UNCHANGED <<pc, queues>>
    BY <1>3 DEF Manager!vars, AddCall, Nothing
  <1>4. ASSUME NEW m \in Msgs, Reply(m) PROVE UNCHANGED Manager!vars
    <2>1. pc[m] \notin {"with", "scheduled", "handled", "panicked"}
      BY <1>4, InitialUeAssumption DEF Reply, IInv, IdIsKnown, OnlyOthersAreAnswered
    <2> QED
      BY <1>0, <1>4, <2>1, ManagerStutters DEF Reply, AddCall
  <1>5. ASSUME NEW m \in Msgs, ContainsContext(m) PROVE UNCHANGED Manager!vars
    BY <1>0, <1>5, ManagerStutters DEF ContainsContext, AddCall
  <1>6. ASSUME NEW m \in Msgs, NewUeContext(m) PROVE UNCHANGED Manager!vars
    BY <1>0, <1>6, ManagerStutters DEF NewUeContext, AddCall
  <1>7. ASSUME NEW m \in Msgs, AddUeContext(m) PROVE Manager!Next
    <2>1. PICK i \in RanUeIds : i = ran_ue_id[m]
      BY <1>7 DEF IInv, IdIsKnown, AddUeContext
    <2>2. Manager!AddContext(m, i)
      BY <1>7, <2>1, AddIsAddContext
    <2> QED
      BY <2>2 DEF Manager!Next
  <1>8. ASSUME NEW m \in Msgs, WithContext(m) PROVE UNCHANGED Manager!vars
    BY <1>0, <1>8, ManagerStutters DEF WithContext, AddCall
  <1>9. ASSUME NEW m \in Msgs, HandleNas(m) PROVE UNCHANGED Manager!vars
    BY <1>0, <1>9, ManagerStutters DEF HandleNas, AddCall
  <1> QED
    BY <1>1, <1>2, <1>3, <1>4, <1>5, <1>6, <1>7, <1>8, <1>9
    DEF Next, TaskStep, ReceiveUndecodable, ReceiveUnrouted, Disconnect, vars

\* The handlers of one gNB implement the clients of the ContextManager, so
\* what ContextManagerProofs shows of its map is true of the UE contexts.
THEOREM HandlersUseManager == Spec => HandlersAreClients
  <1>1. Init => Manager!Init
    BY DEF Init, Manager!Init, AddCall, Nothing
  <1> QED
    BY <1>1, StepIsManagerStep, Invariance, PTL
    DEF Spec, HandlersAreClients, Manager!Spec
=============================================================================
