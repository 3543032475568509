\* Any call may be dropped and the closure of one may panic.  After the panic
\* the queue is stuck for good, so the system may stop.
CONSTANTS
    Calls = {c1, c2, c3, c4}
    Panicking = {c1}
    Droppable = {c1, c2, c3, c4}
    None = None
SPECIFICATION FairSpec
INVARIANTS
    OneProcessor
    NoStrandedWork
    UncontendedContext
    NoFutureLost
    NoDeadlock
PROPERTIES
    AcceptedInOrder
    ArrivalOrder
    EveryCallReturns
    AcceptedAreServed
CHECK_DEADLOCK FALSE
