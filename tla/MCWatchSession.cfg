SPECIFICATION FairSpec
CONSTANTS
    p1 = p1
    p2 = p2
    p3 = p3
    NoChange = NoChange
    Paths <- MCPaths
    Watched <- MCWatched
    ChangeBytes <- MCChangeBytes
    ChangeTypes = {"added", "deleted"}
    QueueLimit = 1
    ErrorLimit = 1
    PendingLimit = 2
    PendingByteLimit = 2
    MaxEvents = 4
INVARIANTS TypeOK NewestChangeWins NoSilentLoss CountersExact
PROPERTIES ClientCatchesUp
CHECK_DEADLOCK FALSE
