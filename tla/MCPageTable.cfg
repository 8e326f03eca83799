SPECIFICATION Spec
CONSTANTS
    Pids = 2
    Pid <- MCPid
    MappingsPerBlock = 2
    MaxSize = 3
    LastVersion = 3
    LastFile = 5
    None = None
    Failed = Failed
INVARIANTS
    TypeOK
    StoredFound
    FilesInOrder
PROPERTIES
    CommitEnds
CHECK_DEADLOCK FALSE
