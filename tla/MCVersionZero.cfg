SPECIFICATION Spec
CONSTANTS
    Slots = 3
    Slot <- MCSlot
    Weight = 2
    Td = 4
    Tb = 8
    FirstVersion = 0
    LastVersion = 4
    NotCached = NotCached
    None = None
    Broken = Broken
INVARIANTS
    RecentServed
CHECK_DEADLOCK FALSE
