SPECIFICATION Spec
CONSTANTS
    Slots = 3
    Slot <- MCSlot
    Weight = 2
    Td = 2
    Tb = 4
    FirstVersion = 1
    LastVersion = 5
    NotCached = NotCached
    None = None
    Broken = Broken
INVARIANTS
    HistoryServed
CHECK_DEADLOCK FALSE
