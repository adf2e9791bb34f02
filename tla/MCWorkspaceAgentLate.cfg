SPECIFICATION Spec
CONSTANTS
    c1 = c1
    c2 = c2
    Callers <- MCCallers
    MaxFailures = 2
    MaxLaunches = 3
PROPERTIES LaunchesSequential
CHECK_DEADLOCK FALSE
