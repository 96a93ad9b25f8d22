SPECIFICATION BestCaseSpec
CONSTANTS
    a = a
    b = b
    Ips <- MCIps
    NoIp = NoIp
    NoEmployee = NoEmployee
    MaxEmployees = 2
    MaxAssignments = 1
    MaxActive = 1
    StaleThreshold = 1
    TaskTimeout = 1
    Interrupts = FALSE
    MaxFiles = 1
    BufferCap = 1
    WireCap = 1
    MaxFaults = 2
    LossesCount = TRUE
PROPERTIES
    IdleEmployeesGetWork
