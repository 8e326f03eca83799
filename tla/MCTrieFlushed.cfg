SPECIFICATION Spec
CONSTANTS
    Fanout = 2
    Key <- MCKey
    a = a
    b = b
    Value <- MCValue
    Updates <- MCUpdates
    Td = 6
    Tb = 12
    MaxCacheSize = 4
    LastVersion = 3
    LastRead = 1
    NoNode = NoNode
    NoPage = NoPage
    Nul12 = Nul12
    Nul32 = Nul32
    Junk12 = Junk12
    Junk32 = Junk32
INVARIANTS
    HashesRight
CHECK_DEADLOCK FALSE
