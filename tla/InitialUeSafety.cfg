\* Three messages, which may all race for one of two RAN UE ids.
CONSTANTS
    Msgs = {m1, m2, m3}
    RanUeIds = {i1, i2}
    None = None
SPECIFICATION FairSpec
INVARIANTS
    NasReachesOwnContext
    AmfUeIdsUnique
    OnlyOthersAreAnswered
PROPERTIES
    HandlersAreClients
    TasksEnd
CHECK_DEADLOCK FALSE
