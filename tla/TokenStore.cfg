\* Three clients, two of which may wait for the third; get gives up after two
\* looks instead of nine, so that giving up happens.
CONSTANTS
    Clients = {c1, c2, c3}
    ReadLimit = 2
    None = None
SPECIFICATION PolledSpec
INVARIANTS
    TypeOK
    UpdatingHasUpdater
    EntriesAreReady
PROPERTIES
    OnlyLateWaitersAreStranded
    TimelyWaiterIsWoken
CHECK_DEADLOCK FALSE
