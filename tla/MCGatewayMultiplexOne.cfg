SPECIFICATION FairSpec
CONSTANTS
    s1 = s1
    s2 = s2
    Streams = {s1}
    QueueFrames = 2
    MaxSent = 2
    Faults = {"io", "slow", "oversized", "overflow"}
INVARIANTS TypeOK NoHalfOpenStream
PROPERTIES ImplementsChannels EndsReachAll
CHECK_DEADLOCK FALSE
