\* One closure panics: are the futures behind it still executed?
CONSTANTS
    Calls = {c1, c2}
    Panicking = {c1}
    Droppable = {}
    None = None
SPECIFICATION FairSpec
PROPERTY EnqueuedIsExecuted
CHECK_DEADLOCK FALSE
