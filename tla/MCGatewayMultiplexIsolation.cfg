SPECIFICATION Spec
CONSTANTS
    s1 = s1
    s2 = s2
    Streams <- MCStreams
    QueueFrames = 1
    MaxSent = 1
    Faults = {}
INVARIANT ClosingOneKeepsOthers
CHECK_DEADLOCK FALSE
