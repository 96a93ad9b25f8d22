SPECIFICATION FairSpec
CONSTANTS
    a = a
    b = b
    Ips <- MCIps
    NoIp = NoIp
    NoEmployee = NoEmployee
    MaxEmployees = 2
    MaxAssignments = 1
    MaxActive = 1
    StaleThreshold = 0
    TaskTimeout = 1
    Interrupts = TRUE
    MaxFiles = 1
    BufferCap = 1
    WireCap = 1
    MaxFaults = 1
    LossesCount = FALSE
PROPERTIES
    SentIsSettled
