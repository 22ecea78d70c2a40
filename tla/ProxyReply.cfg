SPECIFICATION Spec
CONSTANTS
    kMaxBufferSize = 2
    ReadLimit = 2
    MethodCounts = {1}
    MaxTraffic <- Little
INVARIANT
    SuccessMeansReplied
CHECK_DEADLOCK FALSE
