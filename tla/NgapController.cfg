\* Two connections, from one address pair or from two, with one RAN node id
\* or with two: set-ups race for an id, and a gNB comes back after a close.
CONSTANTS
    Conns = {c1, c2}
    Addrs = {a1, a2}
    RanIds = {r1, r2}
    Tais = {served, malformed}
    AmfTais = {served}
    BadTais = {malformed}
    None = None
SPECIFICATION FairSpec
INVARIANTS
    TypeOK
    RegistryAgrees
    AssociationTableAgrees
PROPERTIES
    EntryRemovedByOwnerOnly
    EofRunsOut
    EofEndsConnection
    CancelEndsAccepting
CHECK_DEADLOCK FALSE
