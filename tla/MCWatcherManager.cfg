SPECIFICATION FairSpec
CONSTANTS
    w1 = w1
    w2 = w2
    Watches <- MCWatches
    MaxExcludes = 1
    CanDispose = TRUE
    Faults <- AllFaults
INVARIANTS TypeOK StreamsAreOwned AgentExcludesCurrent HeldWatchIsLive UnwatchedIsGone
PROPERTIES CallsSettle
CHECK_DEADLOCK FALSE
