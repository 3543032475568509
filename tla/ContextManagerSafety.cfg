\* Five clients and three ids: two contexts, two racing change_ids, and an
\* add that takes an id in the middle.
CONSTANTS
    Clients = {c1, c2, c3, c4, c5}
    Ids = {i1, i2, i3}
    None = None
SPECIFICATION Spec
INVARIANTS
    ContextInOnePlace
PROPERTY LostByChangeOnly
SYMMETRY Symmetry
CHECK_DEADLOCK FALSE
