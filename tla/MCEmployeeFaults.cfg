SPECIFICATION FairSpec
CONSTANTS
    c1 = c1
    c2 = c2
    Chunks <- MCChunks
    NoChunk = NoChunk
    ChunkCap = 2
    ResultCap = 1
    MaxRetries = 1
    MaxConnections = 1
    MaxFaults = 2
PROPERTIES ReturnsToListening WorkerGetsFree StopIsHonoured
CHECK_DEADLOCK FALSE
