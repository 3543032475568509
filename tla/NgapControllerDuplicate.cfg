\* Two connections race for one RAN node id.
CONSTANTS
    Conns = {c1, c2}
    Addrs = {a1, a2}
    RanIds = {r1}
    Tais = {served, malformed}
    AmfTais = {served}
    BadTais = {malformed}
    None = None
SPECIFICATION Spec
INVARIANT RegistrationNeverPanics
CHECK_DEADLOCK FALSE
