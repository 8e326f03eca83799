SPECIFICATION Spec
CONSTANTS
    Pid = {p1, p2, p3}
    PoolSizes = {2, 3}
    PageUnits = 4
    MaxUpdates = 2
    MaxFile = 16
    NoPage = NoPage
    Unreadable = Unreadable
INVARIANTS
    TypeOK
    PoolPartitioned
    StoredPageReturned
    OffsetsApart
SYMMETRY Symmetry
