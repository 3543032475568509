\* Two clients that find no token.
CONSTANTS
    Clients = {c1, c2}
    ReadLimit = 9
    None = None
SPECIFICATION Spec
INVARIANT OneUpdateAtATime
CHECK_DEADLOCK FALSE
