SPECIFICATION TrafficSpec
CONSTANTS
    kMaxBufferSize = 2
    ReadLimit = 2
    MethodCounts = {1}
    MaxTraffic <- MoreUp
    Capacity = 2
    Bytes = {1, 2, 3, 4, 5, 6}
    Unset = Unset
    Stream <- MCStream
    ReserveSizes = {1, 3}
    MaxBlocks = 5
INVARIANTS
    Conservation
    FinFollowsData
    EndsWhenDone
    BufferBounded
    AcceptedIsServed
    OperationsAreSafe
PROPERTIES
    EveryByteArrives
    SessionEnds
    ImplementsQueue
CHECK_DEADLOCK FALSE
