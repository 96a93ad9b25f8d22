SPECIFICATION Spec
CONSTANTS
    a = a
    b = b
    Ips <- MCIps
    NoIp = NoIp
    NoEmployee = NoEmployee
    MaxEmployees = 1
    MaxAssignments = 1
    MaxActive = 2
    StaleThreshold = 1
    TaskTimeout = 1
    Interrupts = TRUE
    MaxFiles = 2
    BufferCap = 2
    WireCap = 1
    MaxFaults = 3
    LossesCount = FALSE
SYMMETRY MCSymmetry
INVARIANTS
    TypeOK
    SocketsAgree
