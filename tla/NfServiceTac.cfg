\* One TAC is configured in upper case, one in lower case.
CONSTANTS
    None = None
    Files <- MCFiles
    HostNames = {"amf.local"}
    Ids = {own, other}
    Own = own
    Nil = nil
    Requests <- MCRequests
SPECIFICATION ServiceSpec
INVARIANTS
    SupportedIsAccepted
CHECK_DEADLOCK FALSE
