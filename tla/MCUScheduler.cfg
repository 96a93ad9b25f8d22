SPECIFICATION FairSpec
CONSTANTS
    p1 = p1
    p2 = p2
    c1 = c1
    c2 = c2
    a = a
    b = b
    Producers <- MCProducers
    Consumers <- MCConsumers
    Tasks <- MCTasks
    MaxTasks = 2
    Garbage = Garbage
INVARIANTS
    TypeOK
    NoLostWakeup
PROPERTIES
    ImplementsFifo
    OldestLeaves
