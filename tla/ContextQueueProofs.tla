------------------------- MODULE ContextQueueProofs -------------------------
(***************************************************************************)
(* Proofs about ContextQueue, for every set of calls, whichever of them    *)
(* panic and whichever callers are dropped.                                *)
(***************************************************************************)
EXTENDS ContextQueue, SequenceTheorems, TLAPS

\* Where a call's future can be.  A call that has not been pushed is nowhere
\* in the machinery, a future being awaited is a call's, and the write guard
\* belongs to the future of a processor that runs.
FuturesInPlace ==
    /\ \A c \in Calls : pc[c] \in {"idle", "locking"} =>
          /\ ~Enqueued(c)
          /\ \A w \in Calls : Awaiting(w) => fut[w] # c
          /\ result[c] = "pending"
    /\ \A w \in Calls : Awaiting(w) => fut[w] \in Calls
    /\ writer # None => \E w \in Calls : proc[w] = "running"

\* A processor that died of a panic left the flag set, so no other follows.
PanicIsFinal == \A v, w \in Calls : proc[v] = "panicked" => ~Live(w)

\* The inductive invariant.
IInv ==
    /\ TypeOK
    /\ OneProcessor
    /\ NoStrandedWork
    /\ UncontendedContext
    /\ FuturesInPlace
    /\ PanicIsFinal

-----------------------------------------------------------------------------
(* Sequences                                                               *)

\* Taking an element out of a sequence leaves a sequence over the same set.
LEMMA WithoutType ==
    ASSUME NEW S, NEW s \in Seq(S), NEW i \in DOMAIN s
    PROVE  Without(s, i) \in Seq(S)
BY DEF Without

\* Taking out an element that is not the first leaves the first in place:
\* the holder of a mutex is not disturbed by a waiter that goes away.
LEMMA WithoutHead ==
    ASSUME NEW S, NEW s \in Seq(S), NEW i \in DOMAIN s, i # 1
    PROVE  /\ Without(s, i) # <<>>
           /\ Head(Without(s, i)) = Head(s)
BY DEF Without

\* Joining the wait list does not disturb the holder.
LEMMA AppendHead ==
    ASSUME NEW S, NEW s \in Seq(S), NEW e \in S
    PROVE  /\ Append(s, e) \in Seq(S)
           /\ Append(s, e) # <<>>
           /\ s # <<>> => Head(Append(s, e)) = Head(s)
           /\ \A j \in DOMAIN Append(s, e) :
                 Append(s, e)[j] = e \/ \E i \in DOMAIN s : s[i] = Append(s, e)[j]
<1>1. /\ Append(s, e) \in Seq(S)
      /\ Append(s, e) # <<>>
      /\ Len(Append(s, e)) = Len(s) + 1
      /\ \A i \in 1 .. Len(s) : Append(s, e)[i] = s[i]
      /\ Append(s, e)[Len(s) + 1] = e
  BY AppendProperties
<1>2. s # <<>> => Head(Append(s, e)) = Head(s)
  BY <1>1, EmptySeq
<1>3. ASSUME NEW j \in DOMAIN Append(s, e)
      PROVE  Append(s, e)[j] = e \/ \E i \in DOMAIN s : s[i] = Append(s, e)[j]
  BY <1>1
<1> QED
  BY <1>1, <1>2, <1>3

\* The elements of a tail are elements of the sequence.
LEMMA TailElements ==
    ASSUME NEW S, NEW s \in Seq(S), s # <<>>
    PROVE  /\ Tail(s) \in Seq(S)
           /\ Head(s) \in S
           /\ \A j \in DOMAIN Tail(s) : \E i \in DOMAIN s : s[i] = Tail(s)[j]
<1>1. Tail(s) \in Seq(S) /\ Head(s) \in S
  OBVIOUS
<1>2. \A j \in DOMAIN Tail(s) : j + 1 \in DOMAIN s /\ s[j + 1] = Tail(s)[j]
  OBVIOUS
<1> QED
  BY <1>1, <1>2

-----------------------------------------------------------------------------
(* Type correctness and the safety invariants                              *)

\* The inductive invariant holds before any call is made.
LEMMA InitIInv == Init => IInv
<1> SUFFICES ASSUME Init PROVE IInv
  OBVIOUS
<1>1. TypeOK
  <2>1. lock \in Seq({"caller", "processor"} \X Calls) /\ queue \in Seq(Calls)
    BY EmptySeq DEF Init
  <2> QED
    BY <2>1, Zenon DEF Init, TypeOK
<1>2. \A w \in Calls : ~Live(w) /\ ~Awaiting(w) /\ proc[w] = "none"
  BY DEF Init, Live, Awaiting
<1> QED
  BY <1>1, <1>2 DEF Init, IInv, OneProcessor, NoStrandedWork, UncontendedContext,
                    FuturesInPlace, PanicIsFinal, Enqueued

\* Steps of a caller that leave the queue, the flag and the processors alone.
LEMMA CallerOnlySteps ==
    ASSUME IInv, NEW c \in Calls, Schedule(c) \/ Return(c) \/ DropReceiver(c)
    PROVE  IInv'
<1> USE DEF IInv
<1>1. TypeOK'
  <2>1. CASE Schedule(c)
    <3>1. Caller(c) \in {"caller", "processor"} \X Calls
      BY DEF Caller
    <3>2. lock' \in Seq({"caller", "processor"} \X Calls)
      BY <2>1, <3>1, AppendHead DEF Schedule, TypeOK
    <3> QED
      BY <2>1, <3>2 DEF Schedule, TypeOK
  <2>2. CASE Return(c)
    BY <2>2 DEF Return, Unwrapped, TypeOK
  <2>3. CASE DropReceiver(c)
    BY <2>3 DEF DropReceiver, TypeOK
  <2> QED
    BY <2>1, <2>2, <2>3
<1>2. UNCHANGED <<queue, processor_active, proc, fut, writer, result>>
  BY DEF Schedule, Return, DropReceiver
<1>3. OneProcessor' /\ NoStrandedWork' /\ PanicIsFinal'
  BY <1>2 DEF OneProcessor, NoStrandedWork, PanicIsFinal, Live
<1>4. \A task : Holds(task) => Holds(task)'
  <2>1. CASE Schedule(c)
    <3>1. Caller(c) \in {"caller", "processor"} \X Calls
      BY DEF Caller
    <3>2. lock # <<>> => lock' # <<>> /\ Head(lock') = Head(lock)
      BY <2>1, <3>1, AppendHead DEF Schedule, TypeOK
    <3> QED
      BY <3>2 DEF Holds
  <2>2. CASE lock' = lock
    BY <2>2 DEF Holds
  <2> QED
    BY <2>1, <2>2 DEF Return, DropReceiver
<1>5. UncontendedContext'
  BY <1>2, <1>4 DEF UncontendedContext, Awaiting
<1>6. \A d \in Calls : pc'[d] \in {"idle", "locking"} => pc[d] \in {"idle", "locking"}
  BY DEF Schedule, Return, Unwrapped, DropReceiver, TypeOK
<1>7. FuturesInPlace'
  BY <1>2, <1>6 DEF FuturesInPlace, Enqueued, Awaiting
<1> QED
  BY <1>1, <1>3, <1>5, <1>7

\* A caller that leaves the mutex's wait list does not take the mutex from a
\* processor that holds it.
LEMMA DropBeforePushStep ==
    ASSUME IInv, NEW c \in Calls, DropBeforePush(c)
    PROVE  IInv'
<1> USE DEF IInv
<1>1. PICK i \in DOMAIN lock : lock[i] = Caller(c) /\ lock' = Without(lock, i)
  BY DEF DropBeforePush
<1>2. TypeOK'
  <2>1. lock' \in Seq({"caller", "processor"} \X Calls)
    BY <1>1, WithoutType DEF TypeOK
  <2> QED
    BY <2>1 DEF DropBeforePush, TypeOK
<1>3. UNCHANGED <<queue, processor_active, proc, fut, writer, result>>
  BY DEF DropBeforePush
<1>4. OneProcessor' /\ NoStrandedWork' /\ PanicIsFinal'
  BY <1>3 DEF OneProcessor, NoStrandedWork, PanicIsFinal, Live
<1>5. \A w \in Calls : Holds(Processor(w)) => Holds(Processor(w))'
  <2> SUFFICES ASSUME NEW w \in Calls, Holds(Processor(w))
               PROVE  Holds(Processor(w))'
    OBVIOUS
  <2>1. Processor(w) # Caller(c)
    BY DEF Processor, Caller
  <2>2. i # 1
    BY <1>1, <2>1 DEF Holds, TypeOK
  <2>3. lock' # <<>> /\ Head(lock') = Head(lock)
    BY <1>1, <2>2, WithoutHead DEF TypeOK
  <2> QED
    BY <2>3 DEF Holds, Processor
<1>6. UncontendedContext'
  BY <1>3, <1>5 DEF UncontendedContext, Awaiting
<1>7. FuturesInPlace'
  <2>1. \A d \in Calls : pc'[d] \in {"idle", "locking"} => pc[d] \in {"idle", "locking"}
    BY DEF DropBeforePush, TypeOK
  <2> QED
    BY <1>3, <2>1 DEF FuturesInPlace, Enqueued, Awaiting
<1> QED
  BY <1>2, <1>4, <1>6, <1>7

\* A push: the processor it spawns is the only one, because the flag is down
\* only when none lives.
LEMMA PushStep ==
    ASSUME IInv, NEW c \in Calls, Push(c)
    PROVE  IInv'
<1> USE DEF IInv, Push, PushFutureBack, SpawnIfInactive
<1>1. lock # <<>> /\ Head(lock) = Caller(c)
  BY DEF Holds
<1>2. TypeOK'
  <2>1. lock' \in Seq({"caller", "processor"} \X Calls)
    BY <1>1, TailElements DEF TypeOK
  <2>2. queue' \in Seq(Calls)
    BY AppendHead DEF TypeOK
  <2>3. proc' \in [Calls -> {"none", "runnable", "locking", "popped", "running",
                             "exited", "panicked"}]
    BY DEF TypeOK
  <2> QED
    BY <2>1, <2>2, <2>3 DEF TypeOK
<1>3. \A w \in Calls : ~Awaiting(w)
  BY <1>1 DEF UncontendedContext, Holds, Caller, Processor
<1>4. OneProcessor' /\ NoStrandedWork' /\ PanicIsFinal'
  <2>1. CASE processor_active
    BY <2>1 DEF OneProcessor, NoStrandedWork, PanicIsFinal, Live
  <2>2. CASE ~processor_active
    <3>1. \A w \in Calls : ~Live(w) /\ proc[w] # "panicked"
      BY <2>2 DEF NoStrandedWork
    <3>2. \A w \in Calls : (Live(w)' <=> w = c) /\ proc'[w] # "panicked"
      BY <2>2, <3>1 DEF Live, TypeOK
    <3> QED
      BY <3>2 DEF OneProcessor, NoStrandedWork, PanicIsFinal
  <2> QED
    BY <2>1, <2>2
<1>5. \A w \in Calls : ~Awaiting(w)'
  BY <1>3 DEF Awaiting, TypeOK
<1>6. UncontendedContext'
  BY <1>5 DEF UncontendedContext, Awaiting
<1>7. FuturesInPlace'
  <2>1. \A d \in Calls : pc'[d] \in {"idle", "locking"} =>
                            d # c /\ pc[d] \in {"idle", "locking"}
    BY DEF TypeOK
  <2>2. \A d \in Calls : Enqueued(d)' => d = c \/ Enqueued(d)
    BY AppendHead DEF Enqueued, TypeOK
  <2>3. writer' = None
    BY <1>3 DEF FuturesInPlace, Awaiting
  <2> QED
    BY <1>5, <2>1, <2>2, <2>3 DEF FuturesInPlace
<1> QED
  BY <1>2, <1>4, <1>6, <1>7

\* The processor asks for the mutex.
LEMMA LockQueueStep ==
    ASSUME IInv, NEW w \in Calls, LockQueue(w)
    PROVE  IInv'
<1> USE DEF IInv, LockQueue
<1>1. Processor(w) \in {"caller", "processor"} \X Calls
  BY DEF Processor
<1>2. TypeOK'
  BY <1>1, AppendHead DEF TypeOK
<1>3. \A v \in Calls : (Live(v)' <=> Live(v)) /\ (Awaiting(v)' <=> Awaiting(v))
  BY DEF Live, Awaiting, TypeOK
<1>4. \A v \in Calls : (proc'[v] = "panicked" <=> proc[v] = "panicked")
                      /\ (proc'[v] = "popped" <=> proc[v] = "popped")
                      /\ (proc'[v] = "running" <=> proc[v] = "running")
  BY DEF TypeOK
<1>5. OneProcessor' /\ NoStrandedWork' /\ PanicIsFinal'
  BY <1>3, <1>4 DEF OneProcessor, NoStrandedWork, PanicIsFinal
<1>6. lock # <<>> => lock' # <<>> /\ Head(lock') = Head(lock)
  BY <1>1, AppendHead DEF TypeOK
<1>7. UncontendedContext'
  BY <1>3, <1>4, <1>6 DEF UncontendedContext, Holds, Processor
<1>8. FuturesInPlace'
  BY <1>3, <1>4 DEF FuturesInPlace, Enqueued
<1> QED
  BY <1>2, <1>5, <1>7, <1>8

\* The processor ends: it was the only one, and the queue is empty.
LEMMA GoIdleStep ==
    ASSUME IInv, NEW w \in Calls, GoIdle(w)
    PROVE  IInv'
<1> USE DEF IInv, GoIdle, ClearFlag
<1>1. TypeOK'
  BY TailElements, Zenon DEF TypeOK, Holds
<1>2. \A v \in Calls : Live(v) => v = w
  BY DEF OneProcessor, Live
<1>3. \A v \in Calls : ~Live(v)' /\ ~Awaiting(v)'
  BY <1>2 DEF Live, Awaiting, TypeOK
<1>4. \A v \in Calls : proc'[v] # "panicked"
  BY DEF PanicIsFinal, Live, TypeOK
<1>5. OneProcessor' /\ NoStrandedWork' /\ UncontendedContext' /\ PanicIsFinal'
  BY <1>3, <1>4 DEF OneProcessor, NoStrandedWork, UncontendedContext, PanicIsFinal, Awaiting
<1>6. FuturesInPlace'
  <2>1. writer = None
    <3>1. \A v \in Calls : proc[v] # "running"
      BY <1>2 DEF Live
    <3> QED
      BY <3>1 DEF FuturesInPlace
  <2> QED
    BY <1>3, <2>1 DEF FuturesInPlace, Enqueued
<1> QED
  BY <1>1, <1>5, <1>6

\* The processor takes a future: no other is being awaited, since the
\* processor that would await it is this one.
LEMMA PopFrontStep ==
    ASSUME IInv, NEW w \in Calls, PopFront(w)
    PROVE  IInv'
<1> USE DEF IInv, PopFront, KeepLockedDuringAwait
<1>1. Head(queue) \in Calls /\ Enqueued(Head(queue)) /\ Tail(queue) \in Seq(Calls)
  BY TailElements DEF TypeOK, Enqueued
<1>2. TypeOK'
  BY <1>1 DEF TypeOK
<1>3. \A v \in Calls : Live(v) => v = w
  BY DEF OneProcessor, Live
<1>4. \A v \in Calls : /\ Live(v)' <=> v = w
                       /\ Awaiting(v)' <=> v = w
                       /\ proc'[v] = "panicked" <=> proc[v] = "panicked"
  BY <1>3 DEF Live, Awaiting, TypeOK
<1>5. processor_active /\ \A v \in Calls : proc[v] # "panicked"
  BY DEF NoStrandedWork, PanicIsFinal, Live
<1>6. OneProcessor' /\ NoStrandedWork' /\ PanicIsFinal'
  BY <1>4, <1>5 DEF OneProcessor, NoStrandedWork, PanicIsFinal
<1>7. writer = None
  BY <1>3 DEF FuturesInPlace, Live
<1>8. UncontendedContext'
  BY <1>4, <1>7 DEF UncontendedContext, Holds, Processor
<1>9. FuturesInPlace'
  <2>1. \A d \in Calls : Enqueued(d)' => Enqueued(d)
    BY TailElements DEF Enqueued, TypeOK
  <2>2. fut'[w] = Head(queue)
    BY DEF TypeOK
  <2> QED
    BY <1>1, <1>4, <1>7, <2>1, <2>2 DEF FuturesInPlace
<1> QED
  BY <1>2, <1>6, <1>8, <1>9

\* The future obtains the write guard.
LEMMA WriteOwnedStep ==
    ASSUME IInv, NEW w \in Calls, WriteOwned(w)
    PROVE  IInv'
<1> USE DEF IInv, WriteOwned
<1>1. Awaiting(w) /\ fut[w] \in Calls
  BY DEF Awaiting, FuturesInPlace
<1>2. TypeOK'
  BY <1>1 DEF TypeOK
<1>3. \A v \in Calls : /\ Live(v)' <=> Live(v)
                       /\ Awaiting(v)' <=> Awaiting(v)
                       /\ proc'[v] = "panicked" <=> proc[v] = "panicked"
                       /\ proc'[v] # "popped"
  BY DEF OneProcessor, Live, Awaiting, TypeOK
<1>4. OneProcessor' /\ NoStrandedWork' /\ PanicIsFinal'
  BY <1>3 DEF OneProcessor, NoStrandedWork, PanicIsFinal
<1>5. UncontendedContext'
  BY <1>3 DEF UncontendedContext, Holds, Processor
<1>6. FuturesInPlace'
  <2>1. proc'[w] = "running"
    BY DEF TypeOK
  <2> QED
    BY <1>3, <2>1 DEF FuturesInPlace, Enqueued
<1> QED
  BY <1>2, <1>4, <1>5, <1>6

\* A future ends, with a result or by a panic: its processor was the only one
\* and held the mutex.
LEMMA FutureEndsStep ==
    ASSUME IInv, NEW w \in Calls, Complete(w) \/ Panic(w)
    PROVE  IInv'
<1> USE DEF IInv, Complete, Panic, DropWriteGuard
<1>1. Awaiting(w) /\ Live(w) /\ fut[w] \in Calls
  BY DEF Awaiting, Live, FuturesInPlace
<1>2. TypeOK'
  <2>1. lock # <<>>
    BY <1>1 DEF UncontendedContext, Holds
  <2>2. Tail(lock) \in Seq({"caller", "processor"} \X Calls)
    BY <2>1, TailElements DEF TypeOK
  <2>3. lock' = Tail(lock)
    OBVIOUS
  <2> QED
    BY <1>1, <2>2, <2>3, Zenon DEF TypeOK
<1>3. \A v \in Calls : Live(v) => v = w
  BY <1>1 DEF OneProcessor
<1>4. \A v \in Calls : v # w => ~Live(v)' /\ ~Awaiting(v)' /\ proc'[v] = proc[v]
  BY <1>3 DEF Live, Awaiting, TypeOK
<1>5. \A v \in Calls : proc[v] # "panicked"
  BY <1>1 DEF PanicIsFinal
<1>6. processor_active'
  BY <1>1 DEF NoStrandedWork
<1>7. \/ proc'[w] = "runnable" /\ Live(w)' /\ ~Awaiting(w)'
      \/ proc'[w] = "panicked" /\ ~Live(w)' /\ ~Awaiting(w)'
  BY DEF Live, Awaiting, TypeOK
<1>8. OneProcessor' /\ NoStrandedWork' /\ PanicIsFinal'
  BY <1>4, <1>5, <1>6, <1>7 DEF OneProcessor, NoStrandedWork, PanicIsFinal
<1>9. UncontendedContext'
  BY <1>4, <1>7 DEF UncontendedContext, Awaiting
<1>10. FuturesInPlace'
  <2>1. \A v \in Calls : ~Awaiting(v)'
    BY <1>4, <1>7
  <2>2. \A d \in Calls : d # fut[w] => result'[d] = result[d]
    BY <1>1 DEF TypeOK
  <2>3. \A d \in Calls : pc[d] \in {"idle", "locking"} => d # fut[w]
    BY <1>1 DEF FuturesInPlace
  <2> QED
    BY <2>1, <2>2, <2>3 DEF FuturesInPlace, Enqueued
<1> QED
  BY <1>2, <1>8, <1>9, <1>10

\* Every step keeps the inductive invariant.
LEMMA NextIInv == IInv /\ [Next]_vars => IInv'
<1> SUFFICES ASSUME IInv, [Next]_vars PROVE IInv'
  OBVIOUS
<1>1. CASE \E c \in Calls : Schedule(c) \/ CallerStep(c) \/ DropBeforePush(c) \/ DropReceiver(c)
  BY <1>1, CallerOnlySteps, PushStep, DropBeforePushStep DEF CallerStep
<1>2. CASE \E w \in Calls : ProcessorStep(w)
  BY <1>2, LockQueueStep, GoIdleStep, PopFrontStep, WriteOwnedStep, FutureEndsStep
     DEF ProcessorStep
<1>3. CASE UNCHANGED vars
  BY <1>3 DEF vars, IInv, TypeOK, OneProcessor, NoStrandedWork, UncontendedContext,
              FuturesInPlace, PanicIsFinal, Live, Awaiting, Holds, Processor, Enqueued
<1> QED
  BY <1>1, <1>2, <1>3 DEF Next

\* The inductive invariant holds in every reachable state.
THEOREM Invariance == Spec => []IInv
BY InitIInv, NextIInv, PTL DEF Spec

\* Every variable keeps its type, for any set of calls.
THEOREM TypeCorrect == Spec => []TypeOK
BY Invariance, PTL DEF IInv

\* At most one processor task serves the queue (the promise of the
\* processor_active flag), whatever the interleaving of pushes, panics,
\* dropped callers and ending processors.
THEOREM SingleProcessor == Spec => []OneProcessor
BY Invariance, PTL DEF IInv

\* A future in the queue always has a processor that will come back for it,
\* unless a panic killed it: no wake-up is lost when a processor ends.
THEOREM NothingStranded == Spec => []NoStrandedWork
BY Invariance, PTL DEF IInv

\* The write lock of the context is never contended.
THEOREM WriteLockUncontended == Spec => []UncontendedContext
BY Invariance, PTL DEF IInv

-----------------------------------------------------------------------------
(* Refinement: the queue implements the serial executor                    *)

\* The future being awaited is the one of the only processor.
LEMMA CurrentCallIs ==
    ASSUME IInv, NEW w \in Calls, Awaiting(w)
    PROVE  CurrentCall = fut[w]
<1>1. \A v \in Calls : Awaiting(v) => v = w
  BY DEF IInv, OneProcessor, Live, Awaiting
<1> QED
  BY <1>1 DEF CurrentCall

\* Steps that leave the awaited future alone.
LEMMA CurrentKept ==
    ASSUME IInv, IInv', NEW c \in Calls,
           \/ Schedule(c) \/ Push(c) \/ Return(c) \/ DropBeforePush(c) \/ DropReceiver(c)
           \/ LockQueue(c) \/ GoIdle(c) \/ WriteOwned(c)
    PROVE  CurrentCall' = CurrentCall
<1>1. CASE Schedule(c) \/ Return(c) \/ DropBeforePush(c) \/ DropReceiver(c)
  BY <1>1, Zenon DEF Schedule, Return, DropBeforePush, DropReceiver, CurrentCall, Awaiting
<1>2. CASE Push(c) \/ LockQueue(c) \/ GoIdle(c)
  <2>1. \A w \in Calls : ~Awaiting(w)
    BY <1>2 DEF IInv, UncontendedContext, OneProcessor, Push, LockQueue, GoIdle,
                Live, Awaiting, Holds, Caller, Processor
  <2>2. \A w \in Calls : ~Awaiting(w)'
    BY <1>2, <2>1 DEF Push, SpawnIfInactive, LockQueue, GoIdle, Awaiting, IInv, TypeOK
  <2> QED
    BY <2>1, <2>2 DEF CurrentCall
<1>3. CASE WriteOwned(c)
  <2>1. Awaiting(c) /\ Awaiting(c)'
    BY <1>3 DEF WriteOwned, Awaiting, IInv, TypeOK
  <2>2. CurrentCall = fut[c]
    BY <2>1, CurrentCallIs
  <2>3. \A v \in Calls : Awaiting(v)' => v = c
    BY <2>1 DEF IInv, OneProcessor, Live, Awaiting
  <2>4. CurrentCall' = fut'[c]
    BY <2>1, <2>3 DEF CurrentCall
  <2> QED
    BY <1>3, <2>2, <2>4 DEF WriteOwned
<1> QED
  BY <1>1, <1>2, <1>3

\* A future is taken up when none is being awaited.
LEMMA CurrentStarts ==
    ASSUME IInv, IInv', NEW w \in Calls, PopFront(w)
    PROVE  CurrentCall = None /\ CurrentCall' = Head(queue)
<1>1. \A v \in Calls : ~Awaiting(v)
  BY DEF IInv, OneProcessor, Live, Awaiting, PopFront
<1>2. CurrentCall = None
  BY <1>1 DEF CurrentCall
<1>3. Awaiting(w)' /\ fut'[w] = Head(queue)
  BY DEF PopFront, Awaiting, IInv, TypeOK
<1>4. \A v \in Calls : Awaiting(v)' => v = w
  BY <1>3 DEF IInv, OneProcessor, Live, Awaiting
<1>5. CurrentCall' = Head(queue)
  BY <1>3, <1>4 DEF CurrentCall
<1> QED
  BY <1>2, <1>5

\* The future that ends is the awaited one, and no other follows at once.
LEMMA CurrentEnds ==
    ASSUME IInv, NEW w \in Calls, Complete(w) \/ Panic(w)
    PROVE  CurrentCall = fut[w] /\ CurrentCall # None /\ CurrentCall' = None
<1>1. Awaiting(w) /\ fut[w] \in Calls
  BY DEF Complete, Panic, Awaiting, IInv, FuturesInPlace
<1>2. CurrentCall = fut[w] /\ CurrentCall # None
  BY <1>1, CurrentCallIs, CallsAssumption
<1>3. \A v \in Calls : ~Awaiting(v)'
  BY <1>1 DEF Complete, Panic, IInv, OneProcessor, TypeOK, Live, Awaiting
<1> QED
  BY <1>2, <1>3 DEF CurrentCall

\* Every step of the queue is a step of the executor or leaves it alone.
LEMMA StepRefines == IInv /\ IInv' /\ [Next]_vars => [Accepted!Next]_(Accepted!vars)
<1> SUFFICES ASSUME IInv, IInv', [Next]_vars
             PROVE  [Accepted!Next]_(Accepted!vars)
  OBVIOUS
<1> USE DEF Accepted!vars
<1>1. ASSUME NEW c \in Calls,
             \/ Schedule(c) \/ Return(c) \/ DropBeforePush(c) \/ DropReceiver(c)
             \/ LockQueue(c) \/ GoIdle(c) \/ WriteOwned(c)
      PROVE  UNCHANGED Accepted!vars
  <2>1. CurrentCall' = CurrentCall
    BY <1>1, CurrentKept
  <2> QED
    BY <1>1, <2>1 DEF Schedule, Return, DropBeforePush, DropReceiver, LockQueue, GoIdle,
                      WriteOwned
<1>2. ASSUME NEW c \in Calls, Push(c)
      PROVE  Accepted!Next
  <2>1. \A w \in Calls : ~Awaiting(w)
    BY <1>2 DEF IInv, UncontendedContext, Push, Holds, Caller, Processor
  <2>2. CurrentCall = None /\ CurrentCall' = None
    BY <1>2, <2>1, CurrentKept DEF CurrentCall
  <2>3. ~Accepted!Submitted(c)
    BY <1>2, <2>2, CallsAssumption
       DEF Accepted!Submitted, IInv, FuturesInPlace, Push, Enqueued
  <2>4. Accepted!Submit(c)
    BY <1>2, <2>2, <2>3 DEF Accepted!Submit, Push, PushFutureBack
  <2> QED
    BY <2>4 DEF Accepted!Next
<1>3. ASSUME NEW w \in Calls, PopFront(w)
      PROVE  Accepted!Next
  <2>1. Accepted!Start
    BY <1>3, CurrentStarts, Zenon DEF Accepted!Start, PopFront
  <2> QED
    BY <2>1 DEF Accepted!Next
<1>4. ASSUME NEW w \in Calls, Complete(w) \/ Panic(w)
      PROVE  Accepted!Next
  <2>1. CurrentCall = fut[w] /\ CurrentCall # None /\ CurrentCall' = None
    BY <1>4, CurrentEnds
  <2>2. \E how \in {"sent", "closed"} : Accepted!Finish(how)
    BY <1>4, <2>1 DEF Accepted!Finish, Complete, Panic
  <2> QED
    BY <2>2 DEF Accepted!Next
<1>5. CASE UNCHANGED vars
  BY <1>5 DEF vars, CurrentCall, Awaiting
<1> QED
  BY <1>1, <1>2, <1>3, <1>4, <1>5 DEF Next, CallerStep, ProcessorStep

\* The queue runs the accepted operations one at a time, in FIFO order, each
\* at most once: it implements SerialExecutor, for any calls and any panics.
THEOREM QueueIsSerialExecutor == Spec => AcceptedInOrder
<1>1. Init => Accepted!Init
  BY DEF Init, Accepted!Init, CurrentCall, Awaiting
<1> QED
  BY <1>1, StepRefines, Invariance, PTL DEF Spec, AcceptedInOrder, Accepted!Spec

-----------------------------------------------------------------------------
(* The wait list of the mutex: who is on it, and in which order the callers   *)
(* on it will push.                                                          *)

\* The tasks that ask for the mutex.
Tasks == {"caller", "processor"} \X Calls

Contains(s, x) == \E i \in DOMAIN s : s[i] = x

Distinct(s) == \A i, j \in DOMAIN s : s[i] = s[j] => i = j

\* What taking out an element, or the place after the last, leaves.
LEMMA WithoutElements ==
    ASSUME NEW S, NEW s \in Seq(S), NEW i \in 1 .. Len(s) + 1
    PROVE  /\ Without(s, i) \in Seq(S)
           /\ Len(Without(s, i)) = IF i = Len(s) + 1 THEN Len(s) ELSE Len(s) - 1
           /\ \A j \in 1 .. Len(Without(s, i)) :
                 Without(s, i)[j] = IF j < i THEN s[j] ELSE s[j + 1]
<1> DEFINE a == SubSeq(s, 1, i - 1)
           b == SubSeq(s, i + 1, Len(s))
<1>1. a \in Seq(S) /\ Len(a) = i - 1 /\ \A j \in 1 .. i - 1 : a[j] = s[j]
  OBVIOUS
<1>2. b \in Seq(S) /\ Len(b) = (IF i = Len(s) + 1 THEN 0 ELSE Len(s) - i)
      /\ \A j \in 1 .. Len(b) : b[j] = s[i + j]
  OBVIOUS
<1> HIDE DEF a, b
<1>3. /\ a \o b \in Seq(S)
      /\ Len(a \o b) = Len(a) + Len(b)
      /\ \A j \in 1 .. Len(a) + Len(b) :
            (a \o b)[j] = IF j <= Len(a) THEN a[j] ELSE b[j - Len(a)]
  BY <1>1, <1>2, ConcatProperties, Zenon
<1>4. Without(s, i) = a \o b
  BY DEF Without, a, b
<1>5. Len(Without(s, i)) = IF i = Len(s) + 1 THEN Len(s) ELSE Len(s) - 1
  <2>1. Len(s) \in Nat /\ i \in Nat /\ Len(Without(s, i)) = Len(a) + Len(b)
    BY <1>3, <1>4
  <2> QED
    BY <2>1, <1>1, <1>2
<1>6. ASSUME NEW j \in 1 .. Len(Without(s, i))
      PROVE  Without(s, i)[j] = IF j < i THEN s[j] ELSE s[j + 1]
  <2>1. CASE j < i
    BY <2>1, <1>1, <1>2, <1>3, <1>4, <1>5
  <2>2. CASE j >= i
    <3>1. (a \o b)[j] = b[j - (i - 1)] /\ j - (i - 1) \in 1 .. Len(b)
      BY <2>2, <1>1, <1>2, <1>3, <1>4, <1>5
    <3>2. b[j - (i - 1)] = s[i + (j - (i - 1))] /\ i + (j - (i - 1)) = j + 1
      BY <3>1, <1>2
    <3> QED
      BY <2>2, <3>1, <3>2, <1>4
  <2> QED
    BY <2>1, <2>2
<1> QED
  BY <1>3, <1>4, <1>5, <1>6

\* Joining a wait list.
LEMMA AppendContains ==
    ASSUME NEW S, NEW s \in Seq(S), NEW e \in S, Distinct(s), ~Contains(s, e)
    PROVE  /\ Distinct(Append(s, e))
           /\ \A x : Contains(Append(s, e), x) <=> x = e \/ Contains(s, x)
<1>1. /\ Append(s, e) \in Seq(S)
      /\ Len(Append(s, e)) = Len(s) + 1
      /\ \A i \in 1 .. Len(s) : Append(s, e)[i] = s[i]
      /\ Append(s, e)[Len(s) + 1] = e
  BY AppendProperties
<1>2. DOMAIN Append(s, e) = 1 .. Len(s) + 1 /\ DOMAIN s = 1 .. Len(s) /\ Len(s) \in Nat
  BY <1>1
<1>3. Distinct(Append(s, e))
  BY <1>1, <1>2 DEF Distinct, Contains
<1>4. ASSUME NEW x PROVE Contains(Append(s, e), x) <=> x = e \/ Contains(s, x)
  <2>1. Contains(Append(s, e), x) => x = e \/ Contains(s, x)
    BY <1>1, <1>2 DEF Contains
  <2>2. Contains(s, x) => Contains(Append(s, e), x)
    BY <1>1, <1>2 DEF Contains
  <2>3. Contains(Append(s, e), e)
    BY <1>1, <1>2 DEF Contains
  <2> QED
    BY <2>1, <2>2, <2>3
<1> QED
  BY <1>3, <1>4

\* The holder goes.
LEMMA TailContains ==
    ASSUME NEW S, NEW s \in Seq(S), s # <<>>, Distinct(s)
    PROVE  /\ Distinct(Tail(s))
           /\ \A x : Contains(Tail(s), x) <=> x # Head(s) /\ Contains(s, x)
<1>1. /\ Tail(s) \in Seq(S)
      /\ Len(Tail(s)) = Len(s) - 1
      /\ \A i \in 1 .. Len(Tail(s)) : Tail(s)[i] = s[i + 1]
  BY HeadTailProperties
<1>2. DOMAIN Tail(s) = 1 .. Len(s) - 1 /\ DOMAIN s = 1 .. Len(s) /\ Len(s) \in Nat \ {0}
  BY <1>1, EmptySeq
<1>3. Head(s) = s[1]
  OBVIOUS
<1>4. Distinct(Tail(s))
  <2> SUFFICES ASSUME NEW i \in 1 .. Len(s) - 1, NEW j \in 1 .. Len(s) - 1,
                      Tail(s)[i] = Tail(s)[j]
               PROVE  i = j
    BY <1>2 DEF Distinct
  <2>1. s[i + 1] = s[j + 1] /\ i + 1 \in DOMAIN s /\ j + 1 \in DOMAIN s
    BY <1>1, <1>2
  <2>2. i + 1 = j + 1
    BY <2>1 DEF Distinct
  <2> QED
    BY <2>2
<1>5. ASSUME NEW x PROVE Contains(Tail(s), x) <=> x # Head(s) /\ Contains(s, x)
  <2>1. ASSUME Contains(Tail(s), x) PROVE x # Head(s) /\ Contains(s, x)
    <3>1. PICK i \in 1 .. Len(s) - 1 : Tail(s)[i] = x
      BY <2>1, <1>2 DEF Contains
    <3>2. s[i + 1] = x /\ i + 1 \in DOMAIN s /\ i + 1 # 1
      BY <3>1, <1>1, <1>2
    <3> QED
      BY <3>2, <1>2, <1>3 DEF Contains, Distinct
  <2>2. ASSUME x # Head(s), Contains(s, x) PROVE Contains(Tail(s), x)
    <3>1. PICK i \in 1 .. Len(s) : s[i] = x
      BY <2>2, <1>2 DEF Contains
    <3>2. i - 1 \in 1 .. Len(s) - 1 /\ (i - 1) + 1 = i
      BY <3>1, <2>2, <1>2, <1>3
    <3>3. Tail(s)[i - 1] = x
      BY <3>1, <3>2, <1>1
    <3> QED
      BY <3>2, <3>3, <1>2, Zenon DEF Contains
  <2> QED
    BY <2>1, <2>2
<1> QED
  BY <1>4, <1>5

\* A waiter goes.
LEMMA WithoutContains ==
    ASSUME NEW S, NEW s \in Seq(S), NEW i \in DOMAIN s, Distinct(s)
    PROVE  /\ Distinct(Without(s, i))
           /\ \A x : Contains(Without(s, i), x) <=> x # s[i] /\ Contains(s, x)
<1> DEFINE t == Without(s, i)
<1>1. DOMAIN s = 1 .. Len(s) /\ Len(s) \in Nat /\ i \in 1 .. Len(s)
  OBVIOUS
<1>2. /\ t \in Seq(S)
      /\ Len(t) = Len(s) - 1
      /\ \A j \in 1 .. Len(t) : t[j] = IF j < i THEN s[j] ELSE s[j + 1]
  <2>1. i \in 1 .. Len(s) + 1 /\ i # Len(s) + 1
    BY <1>1
  <2> QED
    BY <2>1, WithoutElements
<1>3. DOMAIN t = 1 .. Len(s) - 1
  BY <1>2
<1> HIDE DEF t
<1>4. Distinct(t)
  <2> SUFFICES ASSUME NEW j \in 1 .. Len(s) - 1, NEW k \in 1 .. Len(s) - 1, t[j] = t[k]
               PROVE  j = k
    BY <1>3 DEF Distinct
  <2> DEFINE jj == IF j < i THEN j ELSE j + 1
             kk == IF k < i THEN k ELSE k + 1
  <2>1. jj \in DOMAIN s /\ kk \in DOMAIN s /\ t[j] = s[jj] /\ t[k] = s[kk]
    BY <1>1, <1>2
  <2>2. jj = kk
    BY <2>1, Zenon DEF Distinct
  <2> QED
    BY <2>2, <1>1
<1>5. ASSUME NEW x, Contains(t, x) PROVE x # s[i] /\ Contains(s, x)
  <2>1. PICK j \in 1 .. Len(s) - 1 : t[j] = x
    BY <1>5, <1>3 DEF Contains
  <2> DEFINE jj == IF j < i THEN j ELSE j + 1
  <2>2. jj \in DOMAIN s /\ jj # i /\ s[jj] = x
    BY <2>1, <1>1, <1>2
  <2> QED
    BY <2>2, <1>1 DEF Contains, Distinct
<1>6. ASSUME NEW x, x # s[i], Contains(s, x) PROVE Contains(t, x)
  <2>1. PICK k \in 1 .. Len(s) : s[k] = x
    BY <1>6, <1>1 DEF Contains
  <2> DEFINE j == IF k < i THEN k ELSE k - 1
  <2>2. k # i
    BY <2>1, <1>6
  <2>3. j \in 1 .. Len(s) - 1 /\ (IF j < i THEN j ELSE j + 1) = k
    BY <2>2, <1>1
  <2>4. t[j] = x
    BY <2>1, <2>3, <1>2
  <2> QED
    BY <2>3, <2>4, <1>3 DEF Contains
<1> QED
  BY <1>4, <1>5, <1>6 DEF t

\* What joins the second of two sequences joins both.
LEMMA ConcatAppend ==
    ASSUME NEW S, NEW s \in Seq(S), NEW t \in Seq(S), NEW e \in S
    PROVE  s \o Append(t, e) = Append(s \o t, e)
<1>1. <<e>> \in Seq(S) /\ s \o t \in Seq(S)
  BY ConcatProperties
<1>2. Append(t, e) = t \o <<e>> /\ Append(s \o t, e) = (s \o t) \o <<e>>
  BY <1>1, AppendIsConcat
<1> QED
  BY <1>1, <1>2, ConcatAssociative

\* An element that moves from the head of the second to the end of the first
\* of two sequences keeps its place in both.
LEMMA ConcatMove ==
    ASSUME NEW S, NEW s \in Seq(S), NEW t \in Seq(S), t # <<>>
    PROVE  Append(s, Head(t)) \o Tail(t) = s \o t
<1> DEFINE e == Head(t)
           u == Tail(t)
           v == <<e>> \o u
<1>1. e \in S /\ u \in Seq(S) /\ Len(u) = Len(t) - 1 /\ e = t[1]
      /\ (\A i \in 1 .. Len(u) : u[i] = t[i + 1]) /\ Len(t) \in Nat \ {0}
  BY HeadTailProperties, EmptySeq
<1>2. <<e>> \in Seq(S) /\ Len(<<e>>) = 1 /\ <<e>>[1] = e
  BY <1>1
<1> HIDE DEF e, u
<1>3. /\ v \in Seq(S)
      /\ Len(v) = 1 + Len(u)
      /\ \A i \in 1 .. 1 + Len(u) : v[i] = IF i <= 1 THEN <<e>>[i] ELSE u[i - 1]
  BY <1>1, <1>2, ConcatProperties
<1> HIDE DEF v
<1>4. Len(v) = Len(t)
  BY <1>1, <1>3
<1>5. ASSUME NEW i \in 1 .. Len(v) PROVE v[i] = t[i]
  <2>1. CASE i = 1
    BY <2>1, <1>1, <1>2, <1>3
  <2>2. CASE i # 1
    <3>1. i \in 1 .. 1 + Len(u) /\ i - 1 \in 1 .. Len(u) /\ (i - 1) + 1 = i
      BY <2>2, <1>1, <1>3, <1>4
    <3> QED
      BY <2>2, <3>1, <1>1, <1>3
  <2> QED
    BY <2>1, <2>2
<1>6. v = t
  BY <1>3, <1>4, <1>5, SeqEqual
<1>7. Append(s, e) = s \o <<e>>
  BY <1>1, AppendIsConcat
<1>8. (s \o <<e>>) \o u = s \o (<<e>> \o u)
  BY <1>1, <1>2, ConcatAssociative
<1> QED
  BY <1>6, <1>7, <1>8 DEF e, u, v

\* The head of the first of two sequences is the head of both.
LEMMA ConcatHead ==
    ASSUME NEW S, NEW s \in Seq(S), NEW t \in Seq(S), s # <<>>
    PROVE  /\ s \o t # <<>>
           /\ Head(s \o t) = Head(s)
           /\ Tail(s \o t) = Tail(s) \o t
<1> DEFINE c == s \o t
           m == Len(s)
           n == Len(t)
           u == Tail(s)
           v == Tail(c)
           x == u \o t
<1>1. m \in Nat \ {0} /\ n \in Nat
  BY EmptySeq
<1>2. /\ c \in Seq(S)
      /\ Len(c) = m + n
      /\ \A i \in 1 .. m + n : c[i] = IF i <= m THEN s[i] ELSE t[i - m]
  BY ConcatProperties
<1>3. u \in Seq(S) /\ Len(u) = m - 1 /\ \A i \in 1 .. m - 1 : u[i] = s[i + 1]
  BY HeadTailProperties
<1>4. c # <<>> /\ Head(c) = Head(s)
  <2> HIDE DEF c
  <2>1. Len(c) # 0
    BY <1>1, <1>2
  <2>2. c # <<>>
    BY <2>1
  <2>3. c[1] = s[1]
    BY <1>1, <1>2
  <2> QED
    BY <2>2, <2>3, <1>2
<1>5. v \in Seq(S) /\ Len(v) = (m + n) - 1 /\ \A i \in 1 .. (m + n) - 1 : v[i] = c[i + 1]
  BY <1>2, <1>4, HeadTailProperties
<1> HIDE DEF c, u, v
<1>6. /\ x \in Seq(S)
      /\ Len(x) = (m - 1) + n
      /\ \A i \in 1 .. (m - 1) + n : x[i] = IF i <= m - 1 THEN u[i] ELSE t[i - (m - 1)]
  BY <1>3, ConcatProperties
<1> HIDE DEF x, m, n
<1>7. Len(x) = Len(v)
  BY <1>1, <1>5, <1>6
<1>8. ASSUME NEW i \in 1 .. Len(v) PROVE v[i] = x[i]
  <2>1. i \in 1 .. (m + n) - 1 /\ i \in 1 .. (m - 1) + n /\ i + 1 \in 1 .. m + n
        /\ (i + 1) - m = i - (m - 1) /\ (i + 1 <= m <=> i <= m - 1)
        /\ (i <= m - 1 => i \in 1 .. m - 1)
    BY <1>1, <1>5
  <2> QED
    BY <2>1, <1>2, <1>3, <1>5, <1>6, Zenon
<1>9. v = x
  BY <1>5, <1>6, <1>7, <1>8, SeqEqual
<1> QED
  BY <1>4, <1>9 DEF c, u, v, x

\* Taking an element out of the second of two sequences takes it out of both.
LEMMA ConcatWithout ==
    ASSUME NEW S, NEW s \in Seq(S), NEW t \in Seq(S), NEW k \in DOMAIN t
    PROVE  /\ Len(s) + k \in DOMAIN (s \o t)
           /\ (s \o t)[Len(s) + k] = t[k]
           /\ s \o Without(t, k) = Without(s \o t, Len(s) + k)
<1> DEFINE c == s \o t
           m == Len(s)
           n == Len(t)
           u == Without(t, k)
           v == Without(c, m + k)
           x == s \o u
<1>1. m \in Nat /\ n \in Nat /\ k \in 1 .. n
  OBVIOUS
<1>2. /\ c \in Seq(S)
      /\ Len(c) = m + n
      /\ \A i \in 1 .. m + n : c[i] = IF i <= m THEN s[i] ELSE t[i - m]
  BY ConcatProperties
<1>3. /\ u \in Seq(S)
      /\ Len(u) = n - 1
      /\ \A j \in 1 .. n - 1 : u[j] = IF j < k THEN t[j] ELSE t[j + 1]
  <2>1. k \in 1 .. Len(t) + 1 /\ k # Len(t) + 1
    BY <1>1
  <2> QED
    BY <2>1, WithoutElements
<1>4. m + k \in 1 .. Len(c) /\ DOMAIN c = 1 .. Len(c) /\ c[m + k] = t[k]
  <2>1. DOMAIN c = 1 .. Len(c)
    BY <1>2
  <2> HIDE DEF c, m, n
  <2>2. m + k \in 1 .. m + n /\ ~(m + k <= m) /\ (m + k) - m = k
    BY <1>1
  <2> QED
    BY <2>1, <2>2, <1>2
<1>5. /\ v \in Seq(S)
      /\ Len(v) = (m + n) - 1
      /\ \A j \in 1 .. Len(v) : v[j] = IF j < m + k THEN c[j] ELSE c[j + 1]
  <2> HIDE DEF c, m
  <2>1. m + k \in 1 .. Len(c) + 1 /\ m + k # Len(c) + 1
    <3> HIDE DEF n
    <3> QED
      BY <1>1, <1>2, <1>4
  <2> QED
    BY <2>1, <1>2, WithoutElements, Zenon
<1> HIDE DEF c, u, v
<1>6. /\ x \in Seq(S)
      /\ Len(x) = (m + n) - 1
      /\ \A i \in 1 .. (m + n) - 1 : x[i] = IF i <= m THEN s[i] ELSE u[i - m]
  <2>1. /\ x \in Seq(S)
        /\ Len(x) = m + Len(u)
        /\ \A i \in 1 .. m + Len(u) : x[i] = IF i <= m THEN s[i] ELSE u[i - m]
    BY <1>3, ConcatProperties, Zenon
  <2> HIDE DEF x, m, n
  <2>2. m + Len(u) = (m + n) - 1
    BY <1>1, <1>3
  <2> QED
    BY <2>1, <2>2
<1> HIDE DEF x, m, n
<1>7. Len(x) = Len(v)
  BY <1>1, <1>5, <1>6
<1>8. ASSUME NEW i \in 1 .. Len(v) PROVE x[i] = v[i]
  <2>1. i \in 1 .. (m + n) - 1 /\ i \in 1 .. m + n /\ i + 1 \in 1 .. m + n
    BY <1>1, <1>5
  <2>2. CASE i <= m
    <3>1. i < m + k
      BY <2>1, <2>2, <1>1
    <3> QED
      BY <2>1, <2>2, <3>1, <1>2, <1>5, <1>6
  <2>3. CASE ~(i <= m)
    <3>1. i - m \in 1 .. n - 1 /\ (i - m < k <=> i < m + k)
          /\ (i + 1) - m = (i - m) + 1 /\ ~(i + 1 <= m)
      BY <2>1, <2>3, <1>1
    <3>2. x[i] = u[i - m]
      BY <2>1, <2>3, <1>6
    <3>3. u[i - m] = IF i - m < k THEN t[i - m] ELSE t[(i - m) + 1]
      BY <3>1, <1>3
    <3>4. c[i] = t[i - m] /\ c[i + 1] = t[(i - m) + 1]
      BY <2>1, <2>3, <3>1, <1>2
    <3> QED
      BY <3>1, <3>2, <3>3, <3>4, <1>5
  <2> QED
    BY <2>2, <2>3
<1>9. x = v
  BY <1>5, <1>6, <1>7, <1>8, SeqEqual
<1> QED
  BY <1>4, <1>9 DEF c, u, v, x, m

-----------------------------------------------------------------------------
\* p is the place that ProcessorPlace looks for.
IsPlace(s, p) ==
    /\ p \in 1 .. Len(s) + 1
    /\ \A i \in DOMAIN s : s[i][1] = "processor" <=> i = p

\* The place is the only one of its kind.
LEMMA PlaceUnique ==
    ASSUME NEW s \in Seq(Tasks), NEW p, IsPlace(s, p)
    PROVE  ProcessorPlace(s) = p
<1>1. DOMAIN s = 1 .. Len(s) /\ Len(s) \in Nat
  OBVIOUS
<1>2. CASE p \in DOMAIN s
  BY <1>2 DEF IsPlace, ProcessorPlace
<1>3. CASE p \notin DOMAIN s
  <2>1. p = Len(s) + 1
    BY <1>1, <1>3 DEF IsPlace
  <2> QED
    BY <1>3, <2>1 DEF IsPlace, ProcessorPlace
<1> QED
  BY <1>2, <1>3

\* On a list with at most one processor the place is what it is meant to be.
LEMMA PlaceExists ==
    ASSUME NEW s \in Seq(Tasks),
           \A i, j \in DOMAIN s : s[i][1] = "processor" /\ s[j][1] = "processor" => i = j
    PROVE  IsPlace(s, ProcessorPlace(s))
<1>1. DOMAIN s = 1 .. Len(s) /\ Len(s) \in Nat
  OBVIOUS
<1>2. CASE \E i \in DOMAIN s : s[i][1] = "processor"
  <2>1. ProcessorPlace(s) \in DOMAIN s /\ s[ProcessorPlace(s)][1] = "processor"
    BY <1>2 DEF ProcessorPlace
  <2>2. ProcessorPlace(s) \in 1 .. Len(s) + 1
    BY <1>1, <2>1
  <2> QED
    BY <2>1, <2>2 DEF IsPlace
<1>3. CASE ~\E i \in DOMAIN s : s[i][1] = "processor"
  BY <1>1, <1>3 DEF ProcessorPlace, IsPlace
<1> QED
  BY <1>2, <1>3

\* r lists the callers of s, which has its processor at place p.
AreCallers(s, p, r) ==
    /\ r \in Seq(Calls)
    /\ Len(r) = IF p = Len(s) + 1 THEN Len(s) ELSE Len(s) - 1
    /\ \A j \in 1 .. Len(r) : r[j] = IF j < p THEN s[j][2] ELSE s[j + 1][2]

\* CallersOf, element by element.
LEMMA CallersOfElements ==
    ASSUME NEW s \in Seq(Tasks), NEW p, IsPlace(s, p)
    PROVE  AreCallers(s, p, CallersOf(s))
<1> DEFINE t == Without(s, p)
           n == IF p = Len(s) + 1 THEN Len(s) ELSE Len(s) - 1
           r == CallersOf(s)
<1>1. Len(s) \in Nat /\ p \in 1 .. Len(s) + 1 /\ n \in Nat
  BY DEF IsPlace
<1>2. /\ t \in Seq(Tasks)
      /\ Len(t) = n
      /\ \A j \in 1 .. Len(t) : t[j] = IF j < p THEN s[j] ELSE s[j + 1]
  BY <1>1, WithoutElements
<1>3. r = [j \in DOMAIN t |-> t[j][2]]
  BY PlaceUnique DEF CallersOf
<1> HIDE DEF t, n, r
<1>4. DOMAIN t = 1 .. n /\ \A j \in 1 .. n : t[j][2] \in Calls
  BY <1>1, <1>2 DEF Tasks
<1>5. r \in [1 .. n -> Calls]
  BY <1>3, <1>4
<1>6. r \in Seq(Calls) /\ Len(r) = n
  BY <1>1, <1>5
<1>7. ASSUME NEW j \in 1 .. n
      PROVE  r[j] = IF j < p THEN s[j][2] ELSE s[j + 1][2]
  BY <1>1, <1>2, <1>3, <1>4
<1> QED
  BY <1>6, <1>7 DEF n, r, AreCallers

\* The callers of a list are determined by its elements.
LEMMA CallersEqual ==
    ASSUME NEW s \in Seq(Tasks), NEW p, IsPlace(s, p), NEW r, AreCallers(s, p, r)
    PROVE  CallersOf(s) = r
<1> DEFINE v == CallersOf(s)
<1>1. AreCallers(s, p, v)
  BY CallersOfElements
<1> HIDE DEF v
<1>2. v \in Seq(Calls) /\ r \in Seq(Calls) /\ Len(v) = Len(r)
  BY <1>1 DEF AreCallers
<1>3. \A j \in 1 .. Len(v) : v[j] = r[j]
  BY <1>1, <1>2 DEF AreCallers
<1>4. v = r
  BY <1>2, <1>3, SeqEqual
<1> QED
  BY <1>4 DEF v

\* A caller that joins the wait list is its last caller.
LEMMA CallerJoins ==
    ASSUME NEW s \in Seq(Tasks), IsPlace(s, ProcessorPlace(s)), NEW c \in Calls
    PROVE  CallersOf(Append(s, Caller(c))) = Append(CallersOf(s), c)
<1> DEFINE p == ProcessorPlace(s)
           t == Append(s, Caller(c))
           m == Len(s)
           q == IF p = m + 1 THEN m + 2 ELSE p
           r == CallersOf(s)
           n == Len(r)
           u == Append(r, c)
<1>0. Caller(c) \in Tasks /\ Caller(c)[1] # "processor" /\ Caller(c)[2] = c
  BY DEF Caller, Tasks
<1>1. /\ t \in Seq(Tasks)
      /\ Len(t) = m + 1
      /\ DOMAIN t = 1 .. m + 1
      /\ \A i \in 1 .. m : t[i] = s[i]
      /\ t[m + 1] = Caller(c)
  BY <1>0, AppendProperties
<1>2. AreCallers(s, p, r)
  BY CallersOfElements
<1>3. IsPlace(s, p)
  OBVIOUS
<1>4. /\ m \in Nat /\ p \in 1 .. m + 1 /\ DOMAIN s = 1 .. m
      /\ \A i \in 1 .. m : s[i][1] = "processor" <=> i = p
  BY <1>3 DEF IsPlace
<1>5. /\ u \in Seq(Calls)
      /\ Len(u) = n + 1
      /\ \A j \in 1 .. n : u[j] = r[j]
      /\ u[n + 1] = c
      /\ r \in Seq(Calls)
  BY <1>2, AppendProperties DEF AreCallers
<1>6. /\ n = IF p = m + 1 THEN m ELSE m - 1
      /\ \A j \in 1 .. n : r[j] = IF j < p THEN s[j][2] ELSE s[j + 1][2]
  BY <1>2 DEF AreCallers
<1> HIDE DEF p, t, r, u, m, n
<1>7. IsPlace(t, q)
  BY <1>0, <1>1, <1>4 DEF IsPlace
<1>8. AreCallers(t, q, u)
  <2>1. n = (IF p = m + 1 THEN m ELSE m - 1) /\ n \in Nat
    BY <1>4, <1>6
  <2>2. Len(u) = IF q = Len(t) + 1 THEN Len(t) ELSE Len(t) - 1
    BY <2>1, <1>1, <1>4, <1>5
  <2>3. ASSUME NEW j \in 1 .. Len(u)
        PROVE  u[j] = IF j < q THEN t[j][2] ELSE t[j + 1][2]
    <3>1. CASE j = n + 1
      BY <3>1, <2>1, <1>0, <1>1, <1>4, <1>5
    <3>2. CASE j \in 1 .. n
      <4>1. u[j] = IF j < p THEN s[j][2] ELSE s[j + 1][2]
        BY <3>2, <1>5, <1>6
      <4> QED
        BY <3>2, <4>1, <2>1, <1>1, <1>4
    <3> QED
      BY <3>1, <3>2, <2>1, <1>5
  <2> QED
    BY <2>2, <2>3, <1>5 DEF AreCallers
<1>9. CallersOf(t) = u
  <2> HIDE DEF q
  <2> QED
    BY <1>1, <1>7, <1>8, CallersEqual
<1> QED
  BY <1>9 DEF t, u, r

\* A processor that joins a wait list without one is not one of its callers.
LEMMA ProcessorJoins ==
    ASSUME NEW s \in Seq(Tasks), \A i \in DOMAIN s : s[i][1] # "processor", NEW w \in Calls
    PROVE  CallersOf(Append(s, Processor(w))) = CallersOf(s)
<1> DEFINE t == Append(s, Processor(w))
           r == CallersOf(s)
           n == Len(s) + 1
<1>0. Processor(w) \in Tasks /\ Processor(w)[1] = "processor"
  BY DEF Processor, Tasks
<1>1. /\ t \in Seq(Tasks)
      /\ Len(t) = n
      /\ DOMAIN t = 1 .. n
      /\ \A i \in 1 .. Len(s) : t[i] = s[i]
      /\ t[n] = Processor(w)
  BY <1>0, AppendProperties
<1>2. Len(s) \in Nat /\ DOMAIN s = 1 .. Len(s)
  OBVIOUS
<1> HIDE DEF t
<1>3. IsPlace(s, n) /\ IsPlace(t, n)
  BY <1>0, <1>1, <1>2 DEF IsPlace
<1>4. AreCallers(s, n, r)
  BY <1>3, CallersOfElements
<1> HIDE DEF r
<1>5. AreCallers(t, n, r)
  <2>1. r \in Seq(Calls) /\ Len(r) = Len(s)
    BY <1>4 DEF AreCallers
  <2>2. Len(r) = IF n = Len(t) + 1 THEN Len(t) ELSE Len(t) - 1
    BY <2>1, <1>1, <1>2
  <2>3. \A j \in 1 .. Len(r) : r[j] = IF j < n THEN t[j][2] ELSE t[j + 1][2]
    BY <2>1, <1>1, <1>2, <1>4 DEF AreCallers
  <2> QED
    BY <2>1, <2>2, <2>3 DEF AreCallers
<1>6. CallersOf(t) = r
  BY <1>1, <1>3, <1>5, CallersEqual
<1> QED
  BY <1>6 DEF t, r

\* The holder of the mutex releases it: a processor was none of the callers.
LEMMA ProcessorReleases ==
    ASSUME NEW s \in Seq(Tasks), s # <<>>, IsPlace(s, ProcessorPlace(s)),
           Head(s)[1] = "processor"
    PROVE  CallersOf(Tail(s)) = CallersOf(s)
<1> DEFINE t == Tail(s)
           r == CallersOf(s)
           m == Len(s)
<1>1. m \in Nat \ {0} /\ DOMAIN s = 1 .. m /\ Head(s) = s[1]
  BY EmptySeq
<1>2. /\ t \in Seq(Tasks)
      /\ Len(t) = m - 1
      /\ DOMAIN t = 1 .. m - 1
      /\ \A i \in 1 .. m - 1 : t[i] = s[i + 1]
  BY <1>1, HeadTailProperties
<1>3. /\ IsPlace(s, 1)
      /\ \A i \in 1 .. m : i # 1 => s[i][1] # "processor"
  BY <1>1 DEF IsPlace
<1>4. AreCallers(s, 1, r)
  BY <1>3, CallersOfElements
<1>5. /\ r \in Seq(Calls)
      /\ Len(r) = m - 1
      /\ \A j \in 1 .. Len(r) : r[j] = s[j + 1][2]
  <2>1. /\ r \in Seq(Calls)
        /\ Len(r) = IF 1 = m + 1 THEN m ELSE m - 1
        /\ \A j \in 1 .. Len(r) : r[j] = IF j < 1 THEN s[j][2] ELSE s[j + 1][2]
    BY <1>4 DEF AreCallers
  <2> HIDE DEF m, r
  <2> QED
    BY <2>1, <1>1
<1> HIDE DEF t, r, m
<1>6. IsPlace(t, m)
  <2>1. \A i \in 1 .. m - 1 : i + 1 \in 1 .. m /\ i + 1 # 1 /\ i # m
    BY <1>1
  <2>2. \A i \in DOMAIN t : t[i][1] # "processor" /\ i # m
    BY <2>1, <1>2, <1>3
  <2>3. m \in 1 .. Len(t) + 1
    BY <1>1, <1>2
  <2> QED
    BY <2>2, <2>3 DEF IsPlace
<1>7. AreCallers(t, m, r)
  <2>1. Len(r) = IF m = Len(t) + 1 THEN Len(t) ELSE Len(t) - 1
    BY <1>1, <1>2, <1>5
  <2>2. \A j \in 1 .. Len(r) : r[j] = IF j < m THEN t[j][2] ELSE t[j + 1][2]
    BY <1>1, <1>2, <1>5
  <2> QED
    BY <2>1, <2>2, <1>5 DEF AreCallers
<1>8. CallersOf(t) = r
  BY <1>2, <1>6, <1>7, CallersEqual
<1> QED
  BY <1>8 DEF t, r

\* The holder of the mutex releases it: a caller was the first of the callers.
LEMMA CallerReleases ==
    ASSUME NEW s \in Seq(Tasks), s # <<>>, IsPlace(s, ProcessorPlace(s)),
           Head(s)[1] = "caller"
    PROVE  /\ CallersOf(s) # <<>>
           /\ Head(CallersOf(s)) = Head(s)[2]
           /\ CallersOf(Tail(s)) = Tail(CallersOf(s))
<1> DEFINE p == ProcessorPlace(s)
           q == p - 1
           t == Tail(s)
           r == CallersOf(s)
           u == Tail(r)
           m == Len(s)
           n == Len(r)
<1>1. m \in Nat \ {0} /\ DOMAIN s = 1 .. m /\ Head(s) = s[1]
  BY EmptySeq
<1>2. /\ t \in Seq(Tasks)
      /\ Len(t) = m - 1
      /\ DOMAIN t = 1 .. m - 1
      /\ \A i \in 1 .. m - 1 : t[i] = s[i + 1]
  BY <1>1, HeadTailProperties
<1>3. AreCallers(s, p, r)
  BY CallersOfElements
<1>4. /\ p \in 1 .. m + 1
      /\ \A i \in 1 .. m : s[i][1] = "processor" <=> i = p
  BY <1>1 DEF IsPlace
<1> HIDE DEF p
<1>5. /\ r \in Seq(Calls)
      /\ n = IF p = m + 1 THEN m ELSE m - 1
      /\ \A j \in 1 .. n : r[j] = IF j < p THEN s[j][2] ELSE s[j + 1][2]
  BY <1>3 DEF AreCallers
<1> HIDE DEF t, r, m
<1>6. p \in 2 .. m + 1
  BY <1>1, <1>4
<1>7. n \in Nat \ {0}
  <2> HIDE DEF n
  <2> QED
    BY <1>1, <1>5, <1>6
<1>8. r # <<>> /\ Head(r) = r[1]
  <2>1. r # <<>>
    BY <1>7, EmptySeq
  <2> QED
    BY <2>1, <1>5
<1>9. /\ u \in Seq(Calls)
      /\ Len(u) = n - 1
      /\ \A i \in 1 .. Len(u) : u[i] = r[i + 1]
  BY <1>5, <1>8, HeadTailProperties
<1> HIDE DEF n, u
<1>10. Head(r) = s[1][2]
  BY <1>5, <1>6, <1>7, <1>8
<1>11. IsPlace(t, q)
  <2>1. q \in 1 .. Len(t) + 1
    BY <1>1, <1>2, <1>6
  <2>2. ASSUME NEW i \in DOMAIN t PROVE t[i][1] = "processor" <=> i = q
    <3>1. i \in Nat /\ i + 1 \in 1 .. m /\ t[i] = s[i + 1]
      BY <1>1, <1>2
    <3>2. t[i][1] = "processor" <=> i + 1 = p
      BY <3>1, <1>4
    <3> QED
      BY <3>1, <3>2, <1>6
  <2> QED
    BY <2>1, <2>2 DEF IsPlace
<1>12. AreCallers(t, q, u)
  <2>1. Len(u) = IF q = Len(t) + 1 THEN Len(t) ELSE Len(t) - 1
    BY <1>1, <1>2, <1>5, <1>6, <1>9
  <2>2. ASSUME NEW j \in 1 .. Len(u)
        PROVE  u[j] = IF j < q THEN t[j][2] ELSE t[j + 1][2]
    <3>1. j + 1 \in 1 .. n /\ j \in Nat \ {0}
      BY <1>7, <1>9
    <3>2. u[j] = IF j + 1 < p THEN s[j + 1][2] ELSE s[(j + 1) + 1][2]
      BY <3>1, <1>5, <1>9
    <3>3. CASE j < q
      BY <3>1, <3>2, <3>3, <1>1, <1>2, <1>6
    <3>4. CASE j >= q
      <4>1. j + 1 \in 1 .. m - 1
        BY <3>1, <3>4, <1>1, <1>5, <1>6
      <4> QED
        BY <3>1, <3>2, <3>4, <4>1, <1>2, <1>6
    <3> QED
      BY <3>1, <3>3, <3>4, <1>6
  <2> QED
    BY <2>1, <2>2, <1>9 DEF AreCallers
<1>13. CallersOf(t) = u
  <2> HIDE DEF q
  <2> QED
    BY <1>2, <1>11, <1>12, CallersEqual
<1> QED
  BY <1>1, <1>8, <1>10, <1>13 DEF t, r, u

\* A caller that gives up leaves its place among the callers.
LEMMA CallerLeaves ==
    ASSUME NEW s \in Seq(Tasks), IsPlace(s, ProcessorPlace(s)),
           NEW i \in DOMAIN s, s[i][1] = "caller"
    PROVE  \E k \in DOMAIN CallersOf(s) :
              /\ CallersOf(s)[k] = s[i][2]
              /\ CallersOf(Without(s, i)) = Without(CallersOf(s), k)
<1> DEFINE p == ProcessorPlace(s)
           t == Without(s, i)
           q == IF i < p THEN p - 1 ELSE p
           k == IF i < p THEN i ELSE i - 1
           r == CallersOf(s)
           u == Without(r, k)
           m == Len(s)
           n == Len(r)
<1>1. m \in Nat /\ DOMAIN s = 1 .. m /\ i \in 1 .. m
  OBVIOUS
<1>2. /\ t \in Seq(Tasks)
      /\ Len(t) = m - 1
      /\ \A j \in 1 .. Len(t) : t[j] = IF j < i THEN s[j] ELSE s[j + 1]
  <2>1. i \in 1 .. Len(s) + 1 /\ i # Len(s) + 1
    BY <1>1
  <2> QED
    BY <2>1, WithoutElements
<1>3. AreCallers(s, p, r)
  BY CallersOfElements
<1>4. /\ p \in 1 .. m + 1 /\ i # p
      /\ \A j \in 1 .. m : s[j][1] = "processor" <=> j = p
  BY <1>1 DEF IsPlace
<1> HIDE DEF p
<1>5. /\ r \in Seq(Calls)
      /\ n = IF p = m + 1 THEN m ELSE m - 1
      /\ \A j \in 1 .. n : r[j] = IF j < p THEN s[j][2] ELSE s[j + 1][2]
  BY <1>3 DEF AreCallers
<1>6. DOMAIN t = 1 .. m - 1 /\ DOMAIN r = 1 .. n
  BY <1>2, <1>5
<1> HIDE DEF t, r, m
<1>7. k \in 1 .. n /\ n \in Nat
  <2> HIDE DEF n
  <2> QED
    BY <1>1, <1>4, <1>5
<1>8. /\ u \in Seq(Calls)
      /\ Len(u) = n - 1
      /\ \A j \in 1 .. Len(u) : u[j] = IF j < k THEN r[j] ELSE r[j + 1]
  <2> HIDE DEF k
  <2>1. k \in 1 .. Len(r) + 1 /\ k # Len(r) + 1
    BY <1>7
  <2> QED
    BY <2>1, <1>5, WithoutElements
<1> HIDE DEF n, u
<1>9. r[k] = s[i][2]
  <2>1. r[k] = IF k < p THEN s[k][2] ELSE s[k + 1][2]
    BY <1>5, <1>7
  <2>2. (IF k < p THEN k ELSE k + 1) = i
    BY <1>1, <1>4
  <2> QED
    BY <2>1, <2>2
<1>10. IsPlace(t, q)
  <2>1. q \in 1 .. Len(t) + 1
    BY <1>1, <1>2, <1>4
  <2>2. ASSUME NEW j \in DOMAIN t PROVE t[j][1] = "processor" <=> j = q
    <3> DEFINE jj == IF j < i THEN j ELSE j + 1
    <3>1. j \in 1 .. m - 1 /\ jj \in 1 .. m /\ t[j] = s[jj]
      BY <1>1, <1>2, <1>6
    <3>2. t[j][1] = "processor" <=> jj = p
      BY <3>1, <1>4
    <3> QED
      BY <3>1, <3>2, <1>1, <1>4
  <2> QED
    BY <2>1, <2>2 DEF IsPlace
<1>11. AreCallers(t, q, u)
  <2>1. Len(u) = IF q = Len(t) + 1 THEN Len(t) ELSE Len(t) - 1
    BY <1>1, <1>2, <1>4, <1>5, <1>8
  <2>2. ASSUME NEW j \in 1 .. Len(u)
        PROVE  u[j] = IF j < q THEN t[j][2] ELSE t[j + 1][2]
    <3> DEFINE a == IF j < k THEN j ELSE j + 1
               b == IF j < q THEN j ELSE j + 1
    <3>1. /\ j \in Nat \ {0} /\ a \in 1 .. n /\ b \in 1 .. m - 1
          /\ (IF a < p THEN a ELSE a + 1) = (IF b < i THEN b ELSE b + 1)
      BY <1>1, <1>4, <1>5, <1>7, <1>8
    <3>2. u[j] = r[a]
      BY <1>8
    <3>3. t[b] = IF b < i THEN s[b] ELSE s[b + 1]
      BY <3>1, <1>2
    <3>4. r[a] = IF a < p THEN s[a][2] ELSE s[a + 1][2]
      BY <3>1, <1>5
    <3>5. u[j] = t[b][2]
      <4> HIDE DEF a, b
      <4> QED
        BY <3>1, <3>2, <3>3, <3>4
    <3> QED
      BY <3>5
  <2> QED
    BY <2>1, <2>2, <1>8 DEF AreCallers
<1>12. CallersOf(t) = u
  <2> HIDE DEF q
  <2> QED
    BY <1>2, <1>10, <1>11, CallersEqual
<1> QED
  BY <1>6, <1>7, <1>9, <1>12 DEF t, r, u

-----------------------------------------------------------------------------
(* The mutex's wait list and the futures under way                         *)

\* Whoever asked for the mutex and has not released it is on its wait list,
\* once, and nobody else is.
WaitList ==
    /\ Distinct(lock)
    /\ \A c \in Calls : pc[c] = "locking" <=> Contains(lock, Caller(c))
    /\ \A w \in Calls : proc[w] \in {"locking", "popped", "running"}
                            <=> Contains(lock, Processor(w))

\* A call without an answer whose caller waits has its future in the queue or
\* in the hands of a processor.
FuturesKept ==
    \A c \in Calls : pc[c] = "waiting" /\ result[c] = "pending"
        => Enqueued(c) \/ \E w \in Calls : Awaiting(w) /\ fut[w] = c

\* The names of the tasks on the wait list.
LEMMA TaskNames ==
    /\ \A c \in Calls : Caller(c) \in Tasks /\ Processor(c) \in Tasks
    /\ \A c, d \in Calls : /\ Caller(c) = Caller(d) <=> c = d
                           /\ Processor(c) = Processor(d) <=> c = d
                           /\ Caller(c) # Processor(d)
BY DEF Tasks, Caller, Processor

\* Joining the queue keeps what is in it.
LEMMA AppendKeeps ==
    ASSUME NEW S, NEW s \in Seq(S), NEW e \in S
    PROVE  \A x : Contains(Append(s, e), x) <=> x = e \/ Contains(s, x)
<1>1. /\ Append(s, e) \in Seq(S)
      /\ Len(Append(s, e)) = Len(s) + 1
      /\ \A i \in 1 .. Len(s) : Append(s, e)[i] = s[i]
      /\ Append(s, e)[Len(s) + 1] = e
  BY AppendProperties
<1>2. DOMAIN Append(s, e) = 1 .. Len(s) + 1 /\ DOMAIN s = 1 .. Len(s) /\ Len(s) \in Nat
  BY <1>1
<1> QED
  BY <1>1, <1>2 DEF Contains

\* The wait list is in order before any call is made.
LEMMA InitWaitList == Init => WaitList /\ FuturesKept
BY DEF Init, WaitList, FuturesKept, Distinct, Contains

\* Every step keeps the wait list in order: a task joins it once, and leaves
\* it with its grant or by giving up.
LEMMA NextWaitList == IInv /\ WaitList /\ [Next]_vars => WaitList'
<1> SUFFICES ASSUME IInv, WaitList, [Next]_vars PROVE WaitList'
  OBVIOUS
<1> USE TaskNames
<1>1. lock \in Seq(Tasks)
  BY DEF IInv, TypeOK, Tasks
<1>2. ASSUME NEW c \in Calls, Schedule(c)
      PROVE  WaitList'
  <2>1. ~Contains(lock, Caller(c))
    BY <1>2 DEF Schedule, WaitList
  <2>2. Distinct(lock') /\ \A x : Contains(lock', x) <=> x = Caller(c) \/ Contains(lock, x)
    BY <1>1, <1>2, <2>1, AppendContains DEF Schedule, WaitList
  <2>3. \A d \in Calls : pc'[d] = "locking" <=> d = c \/ pc[d] = "locking"
    BY <1>2 DEF Schedule, IInv, TypeOK
  <2>4. proc' = proc
    BY <1>2 DEF Schedule
  <2> QED
    BY <2>2, <2>3, <2>4 DEF WaitList
<1>3. ASSUME NEW c \in Calls, Push(c)
      PROVE  WaitList'
  <2>1. lock # <<>> /\ Head(lock) = Caller(c) /\ lock' = Tail(lock)
    BY <1>3 DEF Push, Holds
  <2>2. Distinct(lock') /\ \A x : Contains(lock', x) <=> x # Caller(c) /\ Contains(lock, x)
    BY <1>1, <2>1, TailContains DEF WaitList
  <2>3. \A d \in Calls : pc'[d] = "locking" <=> d # c /\ pc[d] = "locking"
    BY <1>3 DEF Push, IInv, TypeOK
  <2>4. \A w \in Calls : proc'[w] \in {"locking", "popped", "running"}
                            <=> proc[w] \in {"locking", "popped", "running"}
    <3>1. CASE processor_active
      BY <1>3, <3>1 DEF Push, SpawnIfInactive
    <3>2. CASE ~processor_active
      <4>1. ~Live(c)
        BY <3>2 DEF IInv, NoStrandedWork
      <4> QED
        BY <1>3, <3>2, <4>1 DEF Push, SpawnIfInactive, Live, IInv, TypeOK
    <3> QED
      BY <3>1, <3>2
  <2> QED
    BY <2>2, <2>3, <2>4 DEF WaitList
<1>4. ASSUME NEW c \in Calls, Return(c) \/ DropReceiver(c)
      PROVE  WaitList'
  <2>1. lock' = lock /\ proc' = proc
    BY <1>4 DEF Return, DropReceiver
  <2>2. \A d \in Calls : pc'[d] = "locking" <=> pc[d] = "locking"
    BY <1>4 DEF Return, Unwrapped, DropReceiver, IInv, TypeOK
  <2> QED
    BY <2>1, <2>2 DEF WaitList
<1>5. ASSUME NEW c \in Calls, DropBeforePush(c)
      PROVE  WaitList'
  <2>1. PICK i \in DOMAIN lock : lock[i] = Caller(c) /\ lock' = Without(lock, i)
    BY <1>5 DEF DropBeforePush
  <2>2. Distinct(lock') /\ \A x : Contains(lock', x) <=> x # Caller(c) /\ Contains(lock, x)
    BY <1>1, <2>1, WithoutContains DEF WaitList
  <2>3. \A d \in Calls : pc'[d] = "locking" <=> d # c /\ pc[d] = "locking"
    BY <1>5 DEF DropBeforePush, IInv, TypeOK
  <2>4. proc' = proc
    BY <1>5 DEF DropBeforePush
  <2> QED
    BY <2>2, <2>3, <2>4 DEF WaitList
<1>6. ASSUME NEW w \in Calls, LockQueue(w)
      PROVE  WaitList'
  <2>1. ~Contains(lock, Processor(w))
    BY <1>6 DEF LockQueue, WaitList
  <2>2. Distinct(lock') /\ \A x : Contains(lock', x) <=> x = Processor(w) \/ Contains(lock, x)
    BY <1>1, <1>6, <2>1, AppendContains DEF LockQueue, WaitList
  <2>3. \A v \in Calls : v # w => proc'[v] = proc[v]
    BY <1>6 DEF LockQueue, IInv, TypeOK
  <2>4. proc'[w] = "locking" /\ pc' = pc
    BY <1>6 DEF LockQueue, IInv, TypeOK
  <2> QED
    BY <2>2, <2>3, <2>4 DEF WaitList
<1>7. ASSUME NEW w \in Calls, GoIdle(w) \/ Complete(w) \/ Panic(w)
      PROVE  WaitList'
  <2>1. lock # <<>> /\ Head(lock) = Processor(w) /\ lock' = Tail(lock) /\ pc' = pc
    BY <1>7 DEF GoIdle, Complete, Panic, Holds, IInv, UncontendedContext, Awaiting
  <2>2. Distinct(lock') /\ \A x : Contains(lock', x) <=> x # Processor(w) /\ Contains(lock, x)
    BY <1>1, <2>1, TailContains DEF WaitList
  <2>3. \A v \in Calls : v # w => proc'[v] = proc[v]
    BY <1>7 DEF GoIdle, Complete, Panic, IInv, TypeOK
  <2>4. proc'[w] \notin {"locking", "popped", "running"}
    BY <1>7 DEF GoIdle, Complete, Panic, IInv, TypeOK
  <2> QED
    BY <2>1, <2>2, <2>3, <2>4 DEF WaitList
<1>8. ASSUME NEW w \in Calls, PopFront(w) \/ WriteOwned(w)
      PROVE  WaitList'
  <2>1. lock' = lock /\ pc' = pc
    BY <1>8 DEF PopFront, KeepLockedDuringAwait, WriteOwned
  <2>2. \A v \in Calls : proc'[v] \in {"locking", "popped", "running"}
                            <=> proc[v] \in {"locking", "popped", "running"}
    BY <1>8 DEF PopFront, WriteOwned, IInv, TypeOK
  <2> QED
    BY <2>1, <2>2 DEF WaitList
<1>9. CASE UNCHANGED vars
  BY <1>9 DEF vars, WaitList
<1> QED
  BY <1>2, <1>3, <1>4, <1>5, <1>6, <1>7, <1>8, <1>9 DEF Next, CallerStep, ProcessorStep

\* No step loses a future: a push puts it into the queue, the pop hands it to
\* the processor, and only its end, which fills or closes the channel, lets
\* it go.
LEMMA NextFuturesKept == IInv /\ FuturesKept /\ [Next]_vars => FuturesKept'
<1> SUFFICES ASSUME IInv, FuturesKept, [Next]_vars,
                    NEW c \in Calls, pc'[c] = "waiting", result'[c] = "pending"
             PROVE  Enqueued(c)' \/ \E w \in Calls : Awaiting(w)' /\ fut'[w] = c
  BY DEF FuturesKept
<1> USE DEF IInv
<1>1. ASSUME NEW d \in Calls,
             Schedule(d) \/ Return(d) \/ DropBeforePush(d) \/ DropReceiver(d)
      PROVE  Enqueued(c)' \/ \E w \in Calls : Awaiting(w)' /\ fut'[w] = c
  <2>1. UNCHANGED <<queue, proc, fut, result>> /\ pc[c] = "waiting"
    BY <1>1 DEF Schedule, Return, Unwrapped, DropBeforePush, DropReceiver, TypeOK
  <2> QED
    BY <2>1 DEF FuturesKept, Enqueued, Awaiting
<1>2. ASSUME NEW d \in Calls, Push(d)
      PROVE  Enqueued(c)' \/ \E w \in Calls : Awaiting(w)' /\ fut'[w] = c
  <2>1. \A x : Contains(queue', x) <=> x = d \/ Contains(queue, x)
    BY <1>2, AppendKeeps DEF Push, PushFutureBack, TypeOK
  <2>2. \A w \in Calls : ~Awaiting(w)
    BY <1>2 DEF UncontendedContext, Push, Holds, Caller, Processor
  <2>3. c # d => pc[c] = "waiting" /\ result[c] = "pending"
    BY <1>2 DEF Push, TypeOK
  <2> QED
    BY <2>1, <2>2, <2>3 DEF FuturesKept, Enqueued, Contains
<1>3. ASSUME NEW w \in Calls, LockQueue(w) \/ GoIdle(w) \/ WriteOwned(w)
      PROVE  Enqueued(c)' \/ \E v \in Calls : Awaiting(v)' /\ fut'[v] = c
  <2>1. UNCHANGED <<queue, fut, pc, result>>
    BY <1>3 DEF LockQueue, GoIdle, WriteOwned
  <2>2. \A v \in Calls : Awaiting(v) => Awaiting(v)'
    BY <1>3 DEF LockQueue, GoIdle, WriteOwned, Awaiting, TypeOK
  <2> QED
    BY <2>1, <2>2 DEF FuturesKept, Enqueued
<1>4. ASSUME NEW w \in Calls, PopFront(w)
      PROVE  Enqueued(c)' \/ \E v \in Calls : Awaiting(v)' /\ fut'[v] = c
  <2>1. \A v \in Calls : ~Awaiting(v)
    BY <1>4 DEF OneProcessor, Live, Awaiting, PopFront
  <2>2. Enqueued(c)
    BY <1>4, <2>1 DEF FuturesKept, PopFront
  <2>3. Awaiting(w)' /\ fut'[w] = Head(queue)
    BY <1>4 DEF PopFront, Awaiting, TypeOK
  <2>4. PICK i \in DOMAIN queue : queue[i] = c
    BY <2>2 DEF Enqueued
  <2>5. CASE i = 1
    BY <1>4, <2>3, <2>4, <2>5 DEF TypeOK, PopFront
  <2>6. CASE i # 1
    <3>1. i - 1 \in DOMAIN Tail(queue) /\ Tail(queue)[i - 1] = c
      BY <1>4, <2>4, <2>6 DEF TypeOK, PopFront
    <3> QED
      BY <1>4, <3>1 DEF PopFront, Enqueued
  <2> QED
    BY <2>5, <2>6
<1>5. ASSUME NEW w \in Calls, Complete(w) \/ Panic(w)
      PROVE  Enqueued(c)' \/ \E v \in Calls : Awaiting(v)' /\ fut'[v] = c
  <2>1. Awaiting(w) /\ fut[w] \in Calls
    BY <1>5 DEF Complete, Panic, Awaiting, FuturesInPlace
  <2>2. c # fut[w] /\ result[c] = "pending" /\ pc[c] = "waiting" /\ queue' = queue
    BY <1>5, <2>1 DEF Complete, Panic, TypeOK
  <2>3. \A v \in Calls : Awaiting(v) => v = w
    BY <2>1 DEF OneProcessor, Live, Awaiting
  <2> QED
    BY <2>2, <2>3 DEF FuturesKept, Enqueued
<1>6. CASE UNCHANGED vars
  BY <1>6 DEF vars, FuturesKept, Enqueued, Awaiting
<1> QED
  BY <1>1, <1>2, <1>3, <1>4, <1>5, <1>6 DEF Next, CallerStep, ProcessorStep

\* Both hold in every reachable state.
THEOREM WaitersInvariance == Spec => [](IInv /\ WaitList /\ FuturesKept)
BY Invariance, InitWaitList, NextWaitList, NextFuturesKept, PTL DEF Spec

\* No future is lost between the caller and the processor, whatever panics and
\* whoever is dropped.
THEOREM FuturesAreKept == Spec => []NoFutureLost
<1>1. IInv /\ FuturesKept => NoFutureLost
  BY CurrentCallIs DEF FuturesKept, NoFutureLost
<1> QED
  BY <1>1, WaitersInvariance, PTL

\* Callers and processor never all wait for each other.
THEOREM DeadlockFree == Spec => []NoDeadlock
<1>1. ASSUME IInv, WaitList, FuturesKept PROVE NoDeadlock
  <2> SUFFICES ASSUME ~Died, NEW c \in Calls,
                      pc[c] = "locking" \/ (pc[c] = "waiting" /\ result[c] = "pending")
               PROVE  \/ \E w \in Calls : CanMove(w)
                      \/ \E d \in Calls : pc[d] = "locking" /\ Holds(Caller(d))
    BY DEF NoDeadlock
  <2> USE <1>1
  <2>1. ASSUME lock # <<>>
        PROVE  \/ \E w \in Calls : CanMove(w)
               \/ \E d \in Calls : pc[d] = "locking" /\ Holds(Caller(d))
    <3>1. Head(lock) \in Tasks /\ Contains(lock, Head(lock))
      BY <2>1 DEF IInv, TypeOK, Tasks, Contains
    <3>2. PICK d \in Calls : Head(lock) = Caller(d) \/ Head(lock) = Processor(d)
      BY <3>1 DEF Tasks, Caller, Processor
    <3>3. CASE Head(lock) = Caller(d)
      BY <2>1, <3>1, <3>3 DEF WaitList, Holds
    <3>4. CASE Head(lock) = Processor(d)
      <4>1. proc[d] \in {"locking", "popped", "running"} /\ Holds(Processor(d))
        BY <2>1, <3>1, <3>4 DEF WaitList, Holds
      <4> QED
        BY <4>1 DEF CanMove, IInv, UncontendedContext
    <3> QED
      BY <3>2, <3>3, <3>4
  <2>2. CASE pc[c] = "locking"
    <3>1. lock # <<>>
      BY <2>2 DEF WaitList, Contains
    <3> QED
      BY <2>1, <3>1
  <2>3. CASE pc[c] = "waiting" /\ result[c] = "pending"
    <3>1. \E w \in Calls : Live(w)
      <4>1. CASE Enqueued(c)
        <5>1. queue # <<>>
          BY <4>1 DEF Enqueued
        <5> QED
          BY <5>1 DEF IInv, NoStrandedWork, Died
      <4>2. CASE \E w \in Calls : Awaiting(w)
        BY <4>2 DEF Awaiting, Live
      <4> QED
        BY <2>3, <4>1, <4>2 DEF FuturesKept
    <3>2. PICK w \in Calls : Live(w)
      BY <3>1
    <3>3. CASE proc[w] = "locking"
      <4>1. lock # <<>>
        BY <3>3 DEF WaitList, Contains
      <4> QED
        BY <2>1, <4>1
    <3>4. CASE proc[w] # "locking"
      BY <3>2, <3>4 DEF Live, CanMove, IInv, UncontendedContext
    <3> QED
      BY <3>3, <3>4
  <2> QED
    BY <2>2, <2>3
<1> QED
  BY <1>1, WaitersInvariance, PTL

-----------------------------------------------------------------------------
(* Refinement: the order is settled when a caller asks for the mutex       *)

\* At most one processor is on the wait list.
LEMMA OnePlace ==
    ASSUME IInv, WaitList
    PROVE  lock \in Seq(Tasks) /\ IsPlace(lock, ProcessorPlace(lock))
<1>1. lock \in Seq(Tasks)
  BY DEF IInv, TypeOK, Tasks
<1>2. ASSUME NEW i \in DOMAIN lock, lock[i][1] = "processor"
      PROVE  lock[i][2] \in Calls /\ lock[i] = Processor(lock[i][2]) /\ Live(lock[i][2])
  <2>1. lock[i] \in Tasks
    BY <1>1
  <2>2. lock[i][2] \in Calls /\ lock[i] = Processor(lock[i][2])
    BY <1>2, <2>1 DEF Tasks, Processor
  <2>3. Contains(lock, Processor(lock[i][2]))
    BY <2>2 DEF Contains
  <2> QED
    BY <2>2, <2>3 DEF WaitList, Live
<1>3. \A i, j \in DOMAIN lock : lock[i][1] = "processor" /\ lock[j][1] = "processor" => i = j
  <2> SUFFICES ASSUME NEW i \in DOMAIN lock, NEW j \in DOMAIN lock,
                      lock[i][1] = "processor", lock[j][1] = "processor"
               PROVE  i = j
    OBVIOUS
  <2>1. lock[i][2] = lock[j][2]
    BY <1>2 DEF IInv, OneProcessor
  <2>2. lock[i] = lock[j]
    BY <1>2, <2>1
  <2> QED
    BY <2>2 DEF WaitList, Distinct
<1> QED
  BY <1>1, <1>3, PlaceExists

\* A caller among the waiting ones is one that asks for the mutex.
LEMMA WaitingCallersWait ==
    ASSUME IInv, WaitList
    PROVE  /\ WaitingCallers \in Seq(Calls)
           /\ \A k \in DOMAIN WaitingCallers : pc[WaitingCallers[k]] = "locking"
<1> DEFINE p == ProcessorPlace(lock)
           r == CallersOf(lock)
           m == Len(lock)
<1>1. lock \in Seq(Tasks) /\ IsPlace(lock, p)
  BY OnePlace
<1>2. AreCallers(lock, p, r)
  BY <1>1, CallersOfElements
<1>3. m \in Nat /\ DOMAIN lock = 1 .. m /\ p \in 1 .. m + 1
      /\ \A i \in 1 .. m : lock[i][1] = "processor" <=> i = p
  BY <1>1 DEF IsPlace
<1> HIDE DEF p
<1>4. /\ r \in Seq(Calls) /\ DOMAIN r = 1 .. Len(r)
      /\ Len(r) = IF p = m + 1 THEN m ELSE m - 1
      /\ \A k \in 1 .. Len(r) : r[k] = IF k < p THEN lock[k][2] ELSE lock[k + 1][2]
  BY <1>2 DEF AreCallers
<1> HIDE DEF r, m
<1>5. ASSUME NEW k \in DOMAIN r PROVE pc[r[k]] = "locking"
  <2> DEFINE i == IF k < p THEN k ELSE k + 1
  <2>1. i \in DOMAIN lock /\ i # p /\ r[k] = lock[i][2]
    BY <1>3, <1>4
  <2> HIDE DEF i
  <2>2. lock[i] \in Tasks /\ lock[i][1] # "processor"
    BY <2>1, <1>1, <1>3
  <2>3. lock[i] = Caller(r[k]) /\ r[k] \in Calls
    BY <2>1, <2>2 DEF Tasks, Caller
  <2>4. Contains(lock, Caller(r[k]))
    BY <2>1, <2>3, Zenon DEF Contains
  <2> QED
    BY <2>3, <2>4 DEF WaitList
<1> QED
  BY <1>4, <1>5 DEF WaitingCallers, r

\* A call that has not been made is nowhere.
LEMMA IdleIsNew ==
    ASSUME IInv, WaitList, NEW c \in Calls, pc[c] = "idle"
    PROVE  ~Arrived!Submitted(c)
<1> DEFINE W == WaitingCallers
<1>1. W \in Seq(Calls) /\ queue \in Seq(Calls)
  BY WaitingCallersWait DEF IInv, TypeOK
<1>2. \A k \in DOMAIN W : W[k] # c
  BY WaitingCallersWait
<1>3. \A k \in DOMAIN queue : queue[k] # c
  BY DEF IInv, FuturesInPlace, Enqueued
<1>4. CurrentCall # c /\ result[c] = "pending"
  <2>1. CASE \E w \in Calls : Awaiting(w)
    <3>1. PICK w \in Calls : Awaiting(w)
      BY <2>1
    <3> QED
      BY <3>1, CurrentCallIs DEF IInv, FuturesInPlace
  <2>2. CASE ~\E w \in Calls : Awaiting(w)
    BY <2>2, CallsAssumption DEF CurrentCall, IInv, FuturesInPlace
  <2> QED
    BY <2>1, <2>2
<1> HIDE DEF W
<1>5. \A i \in DOMAIN (queue \o W) : (queue \o W)[i] # c
  <2>1. /\ DOMAIN (queue \o W) = 1 .. Len(queue) + Len(W)
        /\ \A i \in 1 .. Len(queue) + Len(W) :
              (queue \o W)[i] = IF i <= Len(queue) THEN queue[i] ELSE W[i - Len(queue)]
        /\ DOMAIN queue = 1 .. Len(queue) /\ DOMAIN W = 1 .. Len(W)
        /\ Len(queue) \in Nat /\ Len(W) \in Nat
    BY <1>1, ConcatProperties
  <2> SUFFICES ASSUME NEW i \in 1 .. Len(queue) + Len(W) PROVE (queue \o W)[i] # c
    BY <2>1
  <2>2. CASE i <= Len(queue)
    BY <2>1, <2>2, <1>3
  <2>3. CASE ~(i <= Len(queue))
    <3>1. i - Len(queue) \in 1 .. Len(W)
      BY <2>1, <2>3
    <3> QED
      BY <2>1, <2>3, <3>1, <1>2
  <2> QED
    BY <2>2, <2>3
<1> QED
  BY <1>4, <1>5 DEF Arrived!Submitted, W

\* Every step is a step of the executor that takes callers in the order in
\* which they asked for the mutex, or leaves it alone.
LEMMA StepArrives ==
    IInv /\ IInv' /\ WaitList /\ [Next]_vars
        => [Arrived!Next \/ \E c \in Calls : Arrived!Withdraw(c)]_(Arrived!vars)
<1> SUFFICES ASSUME IInv, IInv', WaitList, [Next]_vars
             PROVE  [Arrived!Next \/ \E c \in Calls : Arrived!Withdraw(c)]_(Arrived!vars)
  OBVIOUS
<1> USE DEF Arrived!vars
<1>0. /\ lock \in Seq(Tasks) /\ IsPlace(lock, ProcessorPlace(lock))
      /\ queue \in Seq(Calls)
      /\ WaitingCallers \in Seq(Calls)
  BY OnePlace, WaitingCallersWait DEF IInv, TypeOK
<1>1. ASSUME NEW c \in Calls, Schedule(c)
      PROVE  Arrived!Next
  <2>1. WaitingCallers' = Append(WaitingCallers, c)
    BY <1>0, <1>1, CallerJoins DEF Schedule, WaitingCallers
  <2>2. queue' \o WaitingCallers' = Append(queue \o WaitingCallers, c)
    BY <1>0, <1>1, <2>1, ConcatAppend DEF Schedule
  <2>3. CurrentCall' = CurrentCall /\ result' = result
    BY <1>1, CurrentKept, Zenon DEF Schedule
  <2>4. ~Arrived!Submitted(c)
    BY <1>1, IdleIsNew DEF Schedule
  <2>5. Arrived!Submit(c)
    BY <2>2, <2>3, <2>4 DEF Arrived!Submit
  <2> QED
    BY <2>5 DEF Arrived!Next
<1>2. ASSUME NEW c \in Calls, Push(c)
      PROVE  UNCHANGED Arrived!vars
  <2>1. lock # <<>> /\ Head(lock) = Caller(c) /\ lock' = Tail(lock) /\ queue' = Append(queue, c)
    BY <1>2 DEF Push, Holds, PushFutureBack
  <2>2. Head(lock)[1] = "caller" /\ Head(lock)[2] = c
    BY <2>1 DEF Caller
  <2>3. /\ WaitingCallers # <<>> /\ Head(WaitingCallers) = c
        /\ WaitingCallers' = Tail(WaitingCallers)
    BY <1>0, <2>1, <2>2, CallerReleases DEF WaitingCallers
  <2>4. queue' \o WaitingCallers' = queue \o WaitingCallers
    BY <1>0, <2>1, <2>3, ConcatMove
  <2>5. CurrentCall' = CurrentCall /\ result' = result
    BY <1>2, CurrentKept, Zenon DEF Push
  <2> QED
    BY <2>4, <2>5
<1>3. ASSUME NEW c \in Calls, DropBeforePush(c)
      PROVE  Arrived!Withdraw(c)
  <2>1. PICK i \in DOMAIN lock : lock[i] = Caller(c) /\ lock' = Without(lock, i)
    BY <1>3 DEF DropBeforePush
  <2>2. lock[i][1] = "caller" /\ lock[i][2] = c
    BY <2>1 DEF Caller
  <2>3. PICK k \in DOMAIN WaitingCallers :
            WaitingCallers[k] = c /\ WaitingCallers' = Without(WaitingCallers, k)
    BY <1>0, <2>1, <2>2, CallerLeaves DEF WaitingCallers
  <2>4. /\ Len(queue) + k \in DOMAIN (queue \o WaitingCallers)
        /\ (queue \o WaitingCallers)[Len(queue) + k] = c
        /\ queue \o Without(WaitingCallers, k) = Without(queue \o WaitingCallers, Len(queue) + k)
    BY <1>0, <2>3, ConcatWithout, Zenon
  <2>5. queue' = queue /\ CurrentCall' = CurrentCall /\ result' = result
    BY <1>3, CurrentKept, Zenon DEF DropBeforePush
  <2> QED
    BY <2>3, <2>4, <2>5, Zenon DEF Arrived!Withdraw, Without
<1>4. ASSUME NEW c \in Calls, Return(c) \/ DropReceiver(c) \/ WriteOwned(c)
      PROVE  UNCHANGED Arrived!vars
  BY <1>4, CurrentKept DEF Return, DropReceiver, WriteOwned, WaitingCallers
<1>5. ASSUME NEW w \in Calls, LockQueue(w)
      PROVE  UNCHANGED Arrived!vars
  <2>1. \A i \in DOMAIN lock : lock[i][1] # "processor"
    <3> SUFFICES ASSUME NEW i \in DOMAIN lock, lock[i][1] = "processor" PROVE FALSE
      OBVIOUS
    <3>1. lock[i] \in Tasks
      BY <1>0
    <3>2. PICK v \in Calls : lock[i] = Processor(v)
      BY <3>1 DEF Tasks, Processor
    <3>3. proc[v] \in {"locking", "popped", "running"}
      BY <3>2 DEF WaitList, Contains
    <3> QED
      BY <1>5, <3>3 DEF LockQueue, IInv, OneProcessor, Live
  <2>2. WaitingCallers' = WaitingCallers
    BY <1>0, <1>5, <2>1, ProcessorJoins DEF LockQueue, WaitingCallers
  <2> QED
    BY <1>5, <2>2, CurrentKept, Zenon DEF LockQueue
<1>6. ASSUME NEW w \in Calls, GoIdle(w) \/ Complete(w) \/ Panic(w)
      PROVE  WaitingCallers' = WaitingCallers
  <2>1. lock # <<>> /\ Head(lock) = Processor(w) /\ lock' = Tail(lock)
    BY <1>6 DEF GoIdle, Complete, Panic, Holds, IInv, UncontendedContext, Awaiting
  <2>2. Head(lock)[1] = "processor"
    BY <2>1 DEF Processor
  <2> QED
    BY <1>0, <2>1, <2>2, ProcessorReleases DEF WaitingCallers
<1>7. ASSUME NEW w \in Calls, GoIdle(w)
      PROVE  UNCHANGED Arrived!vars
  BY <1>6, <1>7, CurrentKept, Zenon DEF GoIdle
<1>8. ASSUME NEW w \in Calls, PopFront(w)
      PROVE  Arrived!Next
  <2>1. queue # <<>> /\ queue' = Tail(queue) /\ WaitingCallers' = WaitingCallers
        /\ result' = result
    BY <1>8 DEF PopFront, KeepLockedDuringAwait, WaitingCallers
  <2>2. /\ queue \o WaitingCallers # <<>>
        /\ Head(queue \o WaitingCallers) = Head(queue)
        /\ Tail(queue \o WaitingCallers) = Tail(queue) \o WaitingCallers
    BY <1>0, <2>1, ConcatHead
  <2>3. CurrentCall = None /\ CurrentCall' = Head(queue)
    BY <1>8, CurrentStarts
  <2>4. Arrived!Start
    BY <2>1, <2>2, <2>3 DEF Arrived!Start
  <2> QED
    BY <2>4 DEF Arrived!Next
<1>9. ASSUME NEW w \in Calls, Complete(w) \/ Panic(w)
      PROVE  Arrived!Next
  <2>1. CurrentCall = fut[w] /\ CurrentCall # None /\ CurrentCall' = None
    BY <1>9, CurrentEnds
  <2>2. queue' = queue /\ WaitingCallers' = WaitingCallers
    BY <1>6, <1>9 DEF Complete, Panic
  <2>3. \E how \in {"sent", "closed"} : Arrived!Finish(how)
    BY <1>9, <2>1, <2>2 DEF Arrived!Finish, Complete, Panic
  <2> QED
    BY <2>3 DEF Arrived!Next
<1>10. CASE UNCHANGED vars
  BY <1>10 DEF vars, CurrentCall, Awaiting, WaitingCallers
<1> QED
  BY <1>1, <1>2, <1>3, <1>4, <1>5, <1>7, <1>8, <1>9, <1>10 DEF Next, CallerStep, ProcessorStep

\* The order in which callers ask for the mutex is the order in which their
\* futures run, whoever gives up on the way and however the processor
\* competes for the same mutex: the queue implements the executor from which
\* an operation may be withdrawn, for any number of calls.
THEOREM QueueKeepsArrivalOrder == Spec => ArrivalOrder
<1>1. Init => Arrived!Init
  <2> SUFFICES ASSUME Init PROVE Arrived!Init
    OBVIOUS
  <2>1. lock = <<>> /\ queue = <<>> /\ <<>> \in Seq(Tasks) /\ <<>> \in Seq(Calls)
    BY EmptySeq DEF Init
  <2>2. IsPlace(<<>>, 1)
    BY DEF IsPlace
  <2>3. CallersOf(<<>>) \in Seq(Calls) /\ Len(CallersOf(<<>>)) = 0
    <3> DEFINE r == CallersOf(<<>>)
    <3>1. AreCallers(<<>>, 1, r)
      BY <2>1, <2>2, CallersOfElements, Zenon
    <3> HIDE DEF r
    <3>2. r \in Seq(Calls) /\ Len(r) = IF 1 = Len(<<>>) + 1 THEN Len(<<>>) ELSE Len(<<>>) - 1
      BY <3>1 DEF AreCallers
    <3>3. Len(<<>>) = 0
      BY EmptySeq
    <3>4. r \in Seq(Calls) /\ Len(r) = 0
      BY <3>2, <3>3
    <3> QED
      BY <3>4 DEF r
  <2>4. CallersOf(<<>>) = <<>>
    BY <2>3, EmptySeq
  <2>5. queue \o WaitingCallers = <<>>
    BY <2>1, <2>4, ConcatEmptySeq DEF WaitingCallers
  <2> QED
    BY <2>5 DEF Init, Arrived!Init, CurrentCall, Awaiting
<1> QED
  BY <1>1, StepArrives, WaitersInvariance, PTL DEF Spec, ArrivalOrder, Arrived!WithdrawableSpec
=============================================================================
