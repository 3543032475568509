\* One client updates while another looks.
CONSTANTS
    Clients = {c1, c2}
    ReadLimit = 9
    None = None
SPECIFICATION FairSpec
PROPERTY EveryGetReturns
CHECK_DEADLOCK FALSE
