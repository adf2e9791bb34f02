SPECIFICATION FairSpec
CONSTANTS
    c1 = c1
    c2 = c2
    Callers <- MCCallers
    MaxFailures = 2
    MaxLaunches = 2
PROPERTIES DisposeCompletes EnsureStartedSettles
CHECK_DEADLOCK FALSE
