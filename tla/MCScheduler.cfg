SPECIFICATION FairSpec
CONSTANTS
    a = a
    b = b
    underscore = underscore
    word = word
    w1 = w1
    w2 = w2
    TaskIds <- MCTaskIds
    Symbols <- MCSymbols
    Infix <- MCInfix
    IdLength = 5
    Clients <- MCClients
    Employees <- MCEmployees
    Reports <- MCReports
    Lefts <- MCLefts
    Priority = 5
    Nobody = Nobody
    NoChunk = NoChunk
    MaxTasks = 2
    MaxChunks = 2
    MaxSize = 2
    MaxAdds = 2
    MaxLosses = 1
INVARIANTS
    TypeOK
    ChunksHaveTasks
    IdsNameOneRow
    DoneMeansAll
    CompletedWasAssigned
    BusierIsNotChosen
PROPERTIES
    CutIsWorkedOff
