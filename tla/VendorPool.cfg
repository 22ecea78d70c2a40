CONSTANTS
    s1 = s1
    s2 = s2
    s3 = s3
    Sockets = {s1}
    Threads = 2
    Backlogs <- SomeBacklogs
    kMaxConnections = 3
    MaxFailures = 1
SPECIFICATION FairSpec
INVARIANTS NothingWaitsAfterStop SlotsHaveBuffers
PROPERTIES PoolEnds PoolFills
CHECK_DEADLOCK FALSE
