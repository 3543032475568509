\* Two messages race for one RAN UE id.
CONSTANTS
    Msgs = {m1, m2}
    RanUeIds = {i1}
    None = None
SPECIFICATION Spec
INVARIANT DuplicateIsReported
CHECK_DEADLOCK FALSE
