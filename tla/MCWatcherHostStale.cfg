SPECIFICATION Spec
CONSTANTS
    r1 = r1
    r2 = r2
    r3 = r3
    p1 = p1
    p2 = p2
    Requests <- Two
    Paths <- MCPaths
    PathOf <- Pair
    Trees <- MCTrees
    Settings <- MCSettings
    MaxSettings = 1
    MayFail = FALSE
INVARIANT UnwatchedIsGone
CHECK_DEADLOCK FALSE
