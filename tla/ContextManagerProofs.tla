------------------------ MODULE ContextManagerProofs ------------------------
(***************************************************************************)
(* Proofs that the context manager neither duplicates a context nor loses  *)
(* one without cause, for any number of clients and ids.                   *)
(***************************************************************************)
EXTENDS ContextManager, TLAPS

\* change_id holds a queue exactly between its first and last map operation.
ElementHeld ==
    \A c \in Clients :
        /\ pc[c] \in {"insert", "restore"} <=> element[c] # None
        /\ element[c] # None => old_id[c] \in Ids /\ new_id[c] \in Ids

\* A context that has not been added yet is nowhere.
FreshIsNowhere ==
    \A c \in Clients : pc[c] = "idle" =>
        /\ \A i \in Ids : queues[i] # c
        /\ \A d \in Clients : element[d] # c
        /\ c \notin dropped

IInv == TypeOK /\ ElementHeld /\ FreshIsNowhere /\ ContextInOnePlace

-----------------------------------------------------------------------------
\* The inductive invariant holds in the empty manager.
LEMMA InitIInv == Init => IInv
  BY ManagerAssumption
  DEF Init, IInv, TypeOK, ElementHeld, FreshIsNowhere, ContextInOnePlace

\* Adding a context keeps the invariant: it is new, and its id is free.
LEMMA AddContextStep ==
    ASSUME IInv, NEW c \in Clients, NEW id \in Ids, AddContext(c, id)
    PROVE  IInv'
  <1> USE ManagerAssumption DEF IInv, AddContext
  <1>1. TypeOK'
    BY DEF TypeOK
  <1>2. ElementHeld'
    BY DEF TypeOK, ElementHeld
  <1>3. FreshIsNowhere'
    BY DEF TypeOK, FreshIsNowhere
  <1>4. ContextInOnePlace'
    BY DEF TypeOK, FreshIsNowhere, ContextInOnePlace
  <1> QED
    BY <1>1, <1>2, <1>3, <1>4

\* Taking a queue out of the map moves it from its id to the client.
LEMMA RemoveOldStep ==
    ASSUME IInv, NEW c \in Clients, NEW old \in Ids, NEW new \in Ids, RemoveOld(c, old, new)
    PROVE  IInv'
  <1> USE ManagerAssumption DEF IInv, RemoveOld, TakeOldEntry
  <1>1. TypeOK'
    BY DEF TypeOK
  <1>2. ElementHeld'
    BY DEF TypeOK, ElementHeld
  <1>3. FreshIsNowhere'
    BY DEF TypeOK, FreshIsNowhere
  <1>4. ContextInOnePlace'
    <2>1. CASE queues[old] = None
      BY <2>1 DEF ContextInOnePlace
    <2>2. CASE queues[old] # None
      <3>1. /\ queues' = [queues EXCEPT ![old] = None]
            /\ element' = [element EXCEPT ![c] = queues[old]]
            /\ dropped' = dropped
        BY <2>2
      <3>2. None \notin dropped
        BY DEF TypeOK
      <3> QED
        BY <2>2, <3>1, <3>2 DEF TypeOK, ContextInOnePlace
    <2> QED
      BY <2>1, <2>2
  <1> QED
    BY <1>1, <1>2, <1>3, <1>4

\* Inserting it under the new id moves it from the client to a free id.
LEMMA InsertNewStep ==
    ASSUME IInv, NEW c \in Clients, InsertNew(c)
    PROVE  IInv'
  <1> USE ManagerAssumption DEF IInv, InsertNew
  <1>1. TypeOK'
    BY DEF TypeOK, ElementHeld
  <1>2. ElementHeld'
    BY DEF TypeOK, ElementHeld
  <1>3. FreshIsNowhere'
    BY DEF TypeOK, ElementHeld, FreshIsNowhere
  <1>4. ContextInOnePlace'
    BY DEF TypeOK, ElementHeld, ContextInOnePlace
  <1> QED
    BY <1>1, <1>2, <1>3, <1>4

\* Restoring moves it from the client to its old id, or drops it.
LEMMA RestoreStep ==
    ASSUME IInv, NEW c \in Clients, Restore(c)
    PROVE  IInv'
  <1> USE ManagerAssumption DEF IInv, Restore, RestoreOldEntry
  <1>1. TypeOK'
    BY DEF TypeOK, ElementHeld
  <1>2. ElementHeld'
    BY DEF TypeOK, ElementHeld
  <1>3. FreshIsNowhere'
    BY DEF TypeOK, ElementHeld, FreshIsNowhere
  <1>4. ContextInOnePlace'
    BY DEF TypeOK, ElementHeld, ContextInOnePlace
  <1> QED
    BY <1>1, <1>2, <1>3, <1>4

\* A dropped change_id takes its queue with it.
LEMMA DropChangeStep ==
    ASSUME IInv, NEW c \in Clients, DropChange(c)
    PROVE  IInv'
  <1> USE ManagerAssumption DEF IInv, DropChange
  <1>1. TypeOK'
    BY DEF TypeOK, ElementHeld
  <1>2. ElementHeld'
    BY DEF TypeOK, ElementHeld
  <1>3. FreshIsNowhere'
    BY DEF TypeOK, ElementHeld, FreshIsNowhere
  <1>4. ContextInOnePlace'
    BY DEF TypeOK, ElementHeld, ContextInOnePlace
  <1> QED
    BY <1>1, <1>2, <1>3, <1>4

\* Every step keeps the invariant.
LEMMA NextIInv == IInv /\ [Next]_vars => IInv'
  <1> SUFFICES ASSUME IInv, [Next]_vars PROVE IInv'
    OBVIOUS
  <1>1. CASE Next
    BY <1>1, AddContextStep, RemoveOldStep, InsertNewStep, RestoreStep, DropChangeStep DEF Next
  <1>2. CASE UNCHANGED vars
    BY <1>2 DEF vars, IInv, TypeOK, ElementHeld, FreshIsNowhere, ContextInOnePlace
  <1> QED
    BY <1>1, <1>2

-----------------------------------------------------------------------------
\* The inductive invariant holds in every reachable state.
THEOREM Invariance == Spec => []IInv
  BY InitIInv, NextIInv, PTL DEF Spec

\* The types are kept, whatever adds and change_ids race.
THEOREM TypeCorrect == Spec => []TypeOK
  <1>1. IInv => TypeOK
    BY DEF IInv
  <1> QED
    BY Invariance, <1>1, PTL

\* No race of adds and change_ids puts a context in two places.
THEOREM NeverDuplicated == Spec => []ContextInOnePlace
  <1>1. IInv => ContextInOnePlace
    BY DEF IInv
  <1> QED
    BY Invariance, <1>1, PTL

\* A context is lost only by a change_id that is dropped, or whose old id was
\* taken meanwhile.
THEOREM LossHasCause == Spec => LostByChangeOnly
  <1> DEFINE Cause(c) ==
        \/ pc[c] = "idle"
        \/ \E d \in Clients :
              /\ element[d] = c
              /\ \/ pc'[d] = "cancelled"
                 \/ pc[d] = "restore" /\ queues[old_id[d]] \notin {None, c}
  <1>1. ASSUME IInv, [Next]_vars, NEW c \in dropped' \ dropped PROVE Cause(c)
    <2>1. ASSUME NEW d \in Clients, NEW id \in Ids, AddContext(d, id) PROVE Cause(c)
      BY <1>1, <2>1 DEF AddContext
    <2>2. ASSUME NEW d \in Clients, Restore(d) PROVE Cause(c)
      <3>1. /\ c = element[d]
            /\ queues[old_id[d]] # None
            /\ old_id[d] \in Ids
        BY <1>1, <2>2 DEF Restore, RestoreOldEntry, IInv, ElementHeld
      <3> QED
        BY <1>1, <2>2, <3>1 DEF Restore, IInv, ContextInOnePlace
    <2>3. ASSUME NEW d \in Clients, DropChange(d) PROVE Cause(c)
      BY <1>1, <2>3 DEF DropChange, IInv, TypeOK
    <2>4. CASE UNCHANGED dropped
      BY <1>1, <2>4
    <2> QED
      BY <1>1, <2>1, <2>2, <2>3, <2>4 DEF Next, vars, RemoveOld, InsertNew
  <1>2. IInv /\ [Next]_vars =>
          [\A c \in dropped' \ dropped :
              \/ pc[c] = "idle"
              \/ \E d \in Clients :
                    /\ element[d] = c
                    /\ \/ pc'[d] = "cancelled"
                       \/ pc[d] = "restore" /\ queues[old_id[d]] \notin {None, c}]_vars
    BY <1>1
  <1> QED
    BY Invariance, <1>2, PTL DEF Spec, LostByChangeOnly
=============================================================================
