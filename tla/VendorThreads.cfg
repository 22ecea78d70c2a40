CONSTANTS
    s1 = s1
    s2 = s2
    s3 = s3
    Sockets = {s1, s2, s3}
    Threads = 2
    Backlogs <- NegativeBacklog
    kMaxConnections = 2
    MaxFailures = 0
SPECIFICATION FairSpec
PROPERTY EveryBindAnswered
CHECK_DEADLOCK FALSE
