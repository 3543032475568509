---------------------------- MODULE ContextQueue ----------------------------
(***************************************************************************)
(* ngap/manager/context_queue.rs: the queue that serialises the operations *)
(* on one context (one UE).                                                *)
(*                                                                         *)
(* A caller of schedule_and_wait wraps its closure in a future that takes  *)
(* the context's write lock, runs the closure and sends the result over a  *)
(* oneshot channel; it pushes that future onto a VecDeque guarded by a     *)
(* tokio Mutex and waits for the result.  The first push that finds no     *)
(* processor active spawns a task, process_queue, that takes futures off   *)
(* the front and awaits them, KEEPING the mutex while a future runs, and   *)
(* ends when it finds the queue empty.                                     *)
(*                                                                         *)
(* Every suspension point (an .await that can wait, the start of a spawned *)
(* task) is a boundary between two actions.  processor_active is only      *)
(* accessed with the mutex held, so the statements between two lock        *)
(* operations are one action.                                              *)
(***************************************************************************)
EXTENDS Naturals, Sequences

CONSTANTS Calls,       \* the calls of schedule_and_wait on this context
          Panicking,   \* the calls whose closure may panic
          Droppable,   \* the calls whose caller may be dropped while it waits
          None         \* "no call"

ASSUME CallsAssumption ==
    /\ Panicking \subseteq Calls
    /\ Droppable \subseteq Calls
    /\ None \notin Calls

VARIABLES
    pc,                \* per call: where its caller is
    lock,              \* the tokio Mutex: its holder, then its waiters, FIFO
    queue,             \* the VecDeque: the calls whose future is in it
    processor_active,  \* the AtomicBool
    proc,              \* per call: the processor task its push spawned, if any
    fut,               \* per processor: the call whose future it awaits
    writer,            \* the call that holds the context's write guard
    result             \* per call: its oneshot channel

vars == <<pc, lock, queue, processor_active, proc, fut, writer, result>>

\* The sequence s without its i-th element.
Without(s, i) == SubSeq(s, 1, i - 1) \o SubSeq(s, i + 1, Len(s))

Caller(c) == <<"caller", c>>
Processor(w) == <<"processor", w>>

Live(w) == proc[w] \in {"runnable", "locking", "popped", "running"}
Awaiting(w) == proc[w] \in {"popped", "running"}
Holds(task) == lock # <<>> /\ Head(lock) = task

TypeOK ==
    /\ pc \in [Calls -> {"idle", "locking", "waiting", "returned", "panicked", "dropped"}]
    /\ lock \in Seq({"caller", "processor"} \X Calls)
    /\ queue \in Seq(Calls)
    /\ processor_active \in BOOLEAN
    /\ proc \in [Calls -> {"none", "runnable", "locking", "popped", "running",
                           "exited", "panicked"}]
    /\ fut \in [Calls -> Calls \cup {None}]
    /\ writer \in Calls \cup {None}
    /\ result \in [Calls -> {"pending", "sent", "closed"}]

Init ==
    /\ pc = [c \in Calls |-> "idle"]
    /\ lock = <<>>
    /\ queue = <<>>
    /\ processor_active = FALSE
    /\ proc = [c \in Calls |-> "none"]
    /\ fut = [c \in Calls |-> None]
    /\ writer = None
    /\ result = [c \in Calls |-> "pending"]

-----------------------------------------------------------------------------
(* The pieces of the actions that a mutant replaces.  Each mutant stands   *)
(* before the definition it mutates and is used by no specification.       *)

\* Mutant: push_front.
PushFutureFront(c) == queue' = <<c>> \o queue

\* Mutant: a queue with room for one future, which drops the others.
PushFutureBounded(c) == queue' = IF queue = <<>> THEN <<c>> ELSE queue

PushFutureBack(c) == queue' = Append(queue, c)

\* Mutant: the flag is not consulted.
SpawnAlways(c) ==
    /\ processor_active' = TRUE
    /\ proc' = [proc EXCEPT ![c] = "runnable"]

SpawnIfInactive(c) ==
    /\ processor_active' = TRUE
    /\ proc' = IF processor_active THEN proc ELSE [proc EXCEPT ![c] = "runnable"]

\* Mutant: the flag stays set when the processor ends.
KeepFlag == UNCHANGED processor_active

ClearFlag == processor_active' = FALSE

\* Mutant: the mutex guard is dropped before the future is awaited.
UnlockBeforeAwait == lock' = Tail(lock)

KeepLockedDuringAwait == UNCHANGED lock

\* Mutant: the closure hands its write guard on to another task.
LeakWriteGuard == UNCHANGED writer

DropWriteGuard == writer' = None

Unwrapped(c) == IF result[c] = "sent" THEN "returned" ELSE "panicked"

-----------------------------------------------------------------------------
(* The caller: schedule_and_wait and, inside it, push_future.              *)

\* Creates the channel and the future, and asks for the queue's mutex.
Schedule(c) ==
    /\ pc[c] = "idle"
    /\ pc' = [pc EXCEPT ![c] = "locking"]
    /\ lock' = Append(lock, Caller(c))
    /\ UNCHANGED <<queue, processor_active, proc, fut, writer, result>>

\* The mutex is granted: push the future, spawn a processor if none is
\* active, release the mutex and wait for the result.
Push(c) ==
    /\ pc[c] = "locking"
    /\ Holds(Caller(c))
    /\ PushFutureBack(c)
    /\ SpawnIfInactive(c)
    /\ lock' = Tail(lock)
    /\ pc' = [pc EXCEPT ![c] = "waiting"]
    /\ UNCHANGED <<fut, writer, result>>

\* rx.await.unwrap(): the result arrives, or the sender is gone and the
\* unwrap panics.
Return(c) ==
    /\ pc[c] = "waiting"
    /\ result[c] # "pending"
    /\ pc' = [pc EXCEPT ![c] = Unwrapped(c)]
    /\ UNCHANGED <<lock, queue, processor_active, proc, fut, writer, result>>

\* The caller is dropped before its future is enqueued: it leaves the
\* mutex's wait list and the future is dropped with it.
DropBeforePush(c) ==
    /\ c \in Droppable
    /\ pc[c] = "locking"
    /\ \E i \in DOMAIN lock : lock[i] = Caller(c) /\ lock' = Without(lock, i)
    /\ pc' = [pc EXCEPT ![c] = "dropped"]
    /\ UNCHANGED <<queue, processor_active, proc, fut, writer, result>>

\* The caller is dropped while it waits for the result: only the receiver
\* goes, the enqueued future stays.
DropReceiver(c) ==
    /\ c \in Droppable
    /\ pc[c] = "waiting"
    /\ pc' = [pc EXCEPT ![c] = "dropped"]
    /\ UNCHANGED <<lock, queue, processor_active, proc, fut, writer, result>>

-----------------------------------------------------------------------------
(* The processor task: process_queue, and the futures it awaits.           *)

\* The top of the loop: ask for the mutex.
LockQueue(w) ==
    /\ proc[w] = "runnable"
    /\ proc' = [proc EXCEPT ![w] = "locking"]
    /\ lock' = Append(lock, Processor(w))
    /\ UNCHANGED <<pc, queue, processor_active, fut, writer, result>>

\* The queue is empty: clear the flag, release the mutex and end the task.
GoIdle(w) ==
    /\ proc[w] = "locking"
    /\ Holds(Processor(w))
    /\ queue = <<>>
    /\ ClearFlag
    /\ proc' = [proc EXCEPT ![w] = "exited"]
    /\ lock' = Tail(lock)
    /\ UNCHANGED <<pc, queue, fut, writer, result>>

\* Take the first future and start awaiting it; the mutex stays locked.
PopFront(w) ==
    /\ proc[w] = "locking"
    /\ Holds(Processor(w))
    /\ queue # <<>>
    /\ fut' = [fut EXCEPT ![w] = Head(queue)]
    /\ queue' = Tail(queue)
    /\ proc' = [proc EXCEPT ![w] = "popped"]
    /\ KeepLockedDuringAwait
    /\ UNCHANGED <<pc, processor_active, writer, result>>

\* The future obtains the context's write guard and starts the closure.
WriteOwned(w) ==
    /\ proc[w] = "popped"
    /\ writer = None
    /\ writer' = fut[w]
    /\ proc' = [proc EXCEPT ![w] = "running"]
    /\ UNCHANGED <<pc, lock, queue, processor_active, fut, result>>

\* The closure ends, which drops the write guard; the result is sent
\* (whether or not the receiver still exists) and the end of the loop body
\* releases the mutex.
Complete(w) ==
    /\ proc[w] = "running"
    /\ DropWriteGuard
    /\ result' = [result EXCEPT ![fut[w]] = "sent"]
    /\ fut' = [fut EXCEPT ![w] = None]
    /\ proc' = [proc EXCEPT ![w] = "runnable"]
    /\ lock' = Tail(lock)
    /\ UNCHANGED <<pc, queue, processor_active>>

\* The closure panics: the processor task unwinds, dropping the write guard,
\* the sender and the mutex guard, and leaving processor_active as it is.
Panic(w) ==
    /\ proc[w] = "running"
    /\ fut[w] \in Panicking
    /\ DropWriteGuard
    /\ result' = [result EXCEPT ![fut[w]] = "closed"]
    /\ fut' = [fut EXCEPT ![w] = None]
    /\ proc' = [proc EXCEPT ![w] = "panicked"]
    /\ lock' = Tail(lock)
    /\ UNCHANGED <<pc, queue, processor_active>>

-----------------------------------------------------------------------------
CallerStep(c) == Push(c) \/ Return(c)

ProcessorStep(w) ==
    \/ LockQueue(w)
    \/ GoIdle(w)
    \/ PopFront(w)
    \/ WriteOwned(w)
    \/ Complete(w)
    \/ Panic(w)

Next ==
    \/ \E c \in Calls : Schedule(c)
    \/ \E c \in Calls : CallerStep(c)
    \/ \E c \in Calls : DropBeforePush(c)
    \/ \E c \in Calls : DropReceiver(c)
    \/ \E w \in Calls : ProcessorStep(w)

Spec == Init /\ [][Next]_vars

\* The runtime polls every task that can make progress, and closures end.
\* Nothing forces a call to be made or its caller to be dropped.
FairSpec ==
    /\ Spec
    /\ \A c \in Calls : WF_vars(CallerStep(c)) /\ WF_vars(ProcessorStep(c))

-----------------------------------------------------------------------------
(* Properties                                                              *)

\* "Only one task is processing the queue at any given time": however
\* pushes race with a processor that is about to end, no second one lives.
OneProcessor == \A v, w \in Calls : Live(v) /\ Live(w) => v = w

\* No push is lost between the processor's last look at the queue and the
\* end of its task: the flag is set exactly while a processor lives (or has
\* died of a panic), and it is set whenever the queue holds something.
NoStrandedWork ==
    /\ processor_active <=> \E w \in Calls : Live(w) \/ proc[w] = "panicked"
    /\ queue # <<>> => processor_active

\* The mutex alone serialises the futures: the one being awaited belongs to
\* the mutex's holder, and when it asks for the context's write guard nobody
\* else has it, so write_owned never waits.
UncontendedContext ==
    /\ \A w \in Calls : Awaiting(w) => Holds(Processor(w))
    /\ \A w \in Calls : proc[w] = "popped" => writer = None

\* The call whose future is being awaited.
CurrentCall ==
    IF \E w \in Calls : Awaiting(w)
    THEN fut[CHOOSE w \in Calls : Awaiting(w)]
    ELSE None

Accepted == INSTANCE SerialExecutor
            WITH pending <- queue, current <- CurrentCall, outcome <- result

\* Futures run one at a time, in the order of the VecDeque, each once
\* (process_queue: "in FIFO order").
AcceptedInOrder == Accepted!Spec

Died == \E w \in Calls : proc[w] = "panicked"

\* The same, and while no closure panics a processor with work does not rest.
AcceptedAreServed == []~Died => Accepted!Fairness

\* The processor's place in the mutex's wait list, or the place after the
\* last: no more than one processor is ever on it.
ProcessorPlace(tasks) ==
    IF \E i \in DOMAIN tasks : tasks[i][1] = "processor"
    THEN CHOOSE i \in DOMAIN tasks : tasks[i][1] = "processor"
    ELSE Len(tasks) + 1

\* The callers on a wait list, in order.
CallersOf(tasks) ==
    LET callers == Without(tasks, ProcessorPlace(tasks))
    IN  [i \in DOMAIN callers |-> callers[i][2]]

WaitingCallers == CallersOf(lock)

Arrived == INSTANCE SerialExecutor
           WITH pending <- queue \o WaitingCallers, current <- CurrentCall, outcome <- result

\* The order is settled when a caller asks for the mutex: the processor,
\* which competes for the same mutex, never lets a later caller's future
\* run before an earlier caller's.
ArrivalOrder == Arrived!WithdrawableSpec

Enqueued(c) == \E i \in DOMAIN queue : queue[i] = c

\* No future is lost on its way from the caller to the processor: as long as
\* a caller waits on its channel and nothing was sent or closed, its future is
\* in the VecDeque or is the one being awaited.
NoFutureLost ==
    \A c \in Calls :
        pc[c] = "waiting" /\ result[c] = "pending" => Enqueued(c) \/ CurrentCall = c

\* A processor task that the runtime can poll on, without waiting for a lock.
CanMove(w) ==
    \/ proc[w] \in {"runnable", "running"}
    \/ proc[w] = "locking" /\ Holds(Processor(w))
    \/ proc[w] = "popped" /\ writer = None

\* Callers and processor, which compete for the mutex and meet in the context's
\* write lock, never all wait for each other: while a caller waits, somebody
\* can go on, unless a closure panicked.
NoDeadlock ==
    ~Died => \A c \in Calls :
        pc[c] = "locking" \/ (pc[c] = "waiting" /\ result[c] = "pending")
            => \/ \E w \in Calls : CanMove(w)
               \/ \E d \in Calls : pc[d] = "locking" /\ Holds(Caller(d))

\* schedule_and_wait returns, however many callers and processors compete,
\* unless a closure panics first.
EveryCallReturns ==
    \A c \in Calls : pc[c] = "locking" ~> pc[c] \in {"returned", "dropped"} \/ Died

\* "The queue processor ensures the future is executed": once its future is in
\* the queue an operation ends, also when its caller has been dropped, whether
\* or not a closure panics.
EnqueuedIsExecuted ==
    \A c \in Calls : Enqueued(c) ~> result[c] # "pending"
=============================================================================
