SPECIFICATION Spec
CONSTANTS
    r2 = r2
    r3 = r3
    r5 = r5
    ta = ta
    tb = tb
    NUL = NUL
    Garbled = Garbled
    NoReply = NoReply
    Record <- MCRecord
    SizeOf <- MCSizeOf
    TextOf <- MCTextOf
    MaxFileSize = 6
    MaxRecords = 5
INVARIANTS
    TypeOK
    IssuedBehindTheEnd
    IssuedIntact
PROPERTIES
    NeverOverwritten
    ImplementsAppendLog
