SPECIFICATION Spec
CONSTANTS
    c1 = c1
    c2 = c2
    Chunks <- OneChunk
    NoChunk = NoChunk
    ChunkCap = 2
    ResultCap = 1
    MaxRetries = 2
    MaxConnections = 2
    MaxFaults = 0
INVARIANTS NoUseAfterFree
CHECK_DEADLOCK FALSE
