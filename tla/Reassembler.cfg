SPECIFICATION Spec
CONSTANTS
    Client = {c1, c2, c3}
    Server = {s}
    Endpoint <- MCEndpoint
    Byte <- MCEndpoint
    NoEndpoint = none
    Packet <- MCPacket
    Time <- MCTime
    Seqs = {1, 3}
    MaxLen = 1
    LastTime = 1
    MaxPackets = 4
    SeqSpace = 6
    CountMax = 2
    MaxDepth = 3
    MaxSegments = 2
    MaxReceiveWindow = 3
    MaxFlows = 2
    Memcap = 1
    FlowTimeout = 0
    ExpirySweepInterval = 2
    IdlePacketThreshold = 1
    OverlapThreshold = 0
    SmallSegmentThreshold = 1
    OutOfWindowThreshold = 0
    SmallSegmentMaxBytes = 2
    MaxFindings = 1
    SmallSegmentIgnored = {}
SYMMETRY ClientSymmetry
INVARIANTS TypeOK MemoryExact WithinLimits FlowsAccounted SidesNotMixed
PROPERTIES StreamsContiguous ClosedOnce
