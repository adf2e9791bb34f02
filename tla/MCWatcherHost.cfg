SPECIFICATION FairSpec
CONSTANTS
    r1 = r1
    r2 = r2
    r3 = r3
    p1 = p1
    p2 = p2
    Requests <- Three
    Paths <- MCPaths
    PathOf <- Shared
    Trees <- MCTrees
    Settings <- MCSettings
    MaxSettings = 2
    MayFail = TRUE
INVARIANTS TypeOK StartsAreCurrent NewestExcludesApply HeldIsWatched
PROPERTY WatchSettles
CHECK_DEADLOCK FALSE
