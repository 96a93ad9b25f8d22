SPECIFICATION Spec
CONSTANTS
    a = a
    b = b
    Ips <- MCIps
    NoIp = NoIp
    NoEmployee = NoEmployee
    MaxEmployees = 2
    MaxAssignments = 2
    MaxActive = 1
    StaleThreshold = 0
    TaskTimeout = 1
    Interrupts = FALSE
    MaxFiles = 3
    BufferCap = 2
    WireCap = 1
    MaxFaults = 2
    LossesCount = TRUE
SYMMETRY MCSymmetry
INVARIANTS
    UniqueEmployees
    SocketsAgree
    ReadsStartReady
    StopsWhenCompleted
    OnlyAssignedWork
PROPERTIES
    CompletedIsFinal
    SentToAssignee
    ImplementsFarm
