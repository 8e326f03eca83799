SPECIFICATION Spec
CONSTANTS
    Key = {k1, k2}
    Value = {v1, v2}
    Absent = Absent
    Untouched = Untouched
    None = None
    MaxSeq = 3
INVARIANTS
    TypeOK
    NothingLost
    BlockServed
    HistoryKept
PROPERTIES
    SnapshotRead
SYMMETRY Symmetry
CHECK_DEADLOCK FALSE
