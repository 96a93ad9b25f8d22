SPECIFICATION Spec
CONSTANTS
    c1 = c1
    c2 = c2
    Chunks <- MCChunks
    NoChunk = NoChunk
    ChunkCap = 1
    ResultCap = 1
    MaxRetries = 1
    MaxConnections = 2
    MaxFaults = 1
SYMMETRY MCSymmetry
INVARIANTS TypeOK OneCopy FirstEmployerSafe
PROPERTIES ImplementsVolunteer
CHECK_DEADLOCK FALSE
