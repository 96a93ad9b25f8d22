SPECIFICATION FairSpec
CONSTANTS
    Sizes <- MCSizes
    ResultBlocks = 1
    DownCap = 4
    UpCap = 6
    MaxActive = 2
    MaxChunks = 4
    MaxTimeouts = 1
INVARIANTS
    TypeOK
    
PROPERTIES
    ImplementsChannel
    SentArrives
CHECK_DEADLOCK FALSE
