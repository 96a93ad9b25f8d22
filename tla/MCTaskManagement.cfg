SPECIFICATION Spec
CONSTANTS
    main = main
    worker = worker
    v1 = v1
    v2 = v2
    Threads <- MCThreads
    Values <- MCValues
    Capacity = 3
    NoThread = NoThread
    Garbage = Garbage
INVARIANTS
    TypeOK
    RingInv
PROPERTIES
    ImplementsFifo
