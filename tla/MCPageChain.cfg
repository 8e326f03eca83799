SPECIFICATION Spec
CONSTANTS
    Slots = 3
    Slot <- MCSlot
    Weight = 2
    Td = 4
    Tb = 8
    FirstVersion = 1
    LastVersion = 4
    NotCached = NotCached
    None = None
    Broken = Broken
INVARIANTS
    TypeOK
    HistoryServed
    NeverBroken
    RecentServed
    CountsInStep
    ReplayBounded
PROPERTIES
    FrozenOncePerCommit
    ImplementsVersionedPage
CHECK_DEADLOCK FALSE
