\* Good configuration files and one per defect; the NRF keeps the id it is
\* asked for or assigns another; one gNB announces one or two TAIs.
CONSTANTS
    None = None
    Files <- MCFiles
    HostNames = {"amf.local"}
    Ids = {own, other}
    Own = own
    Nil = nil
    Requests <- MCRequests
SPECIFICATION ServiceFairSpec
INVARIANTS
    TypeOK
    OrphanIsReported
    DeregistersTheRegistration
    ServesRegistered
    ProfileIsValid
    AnswerFitsRequest
    AcceptedByMember
    SameIdentityEverywhere
    SlicesSurviveConversion
PROPERTIES
    JoinsOnceAndLeaves
    ShutdownRunsOut
    SignalEndsProcess
CHECK_DEADLOCK FALSE
