SPECIFICATION FairSpec
CONSTANTS
    w1 = w1
    w2 = w2
    p1 = p1
    Names <- MCNames
    Main = Main
    Pids <- MCPids
    InitChildren = 1
    InitPids = 1
    MaxChildren = 3
    MaxPids = 2
    MaxFaults = 1
INVARIANTS
    TypeOK
    HeapSound
    RowsHaveDirectories
PROPERTIES
    DeleteMainEnds
CHECK_DEADLOCK FALSE
