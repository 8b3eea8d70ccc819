SPECIFICATION Spec
CONSTANTS
    Client = {c1, c2}
    Server = {s}
    Endpoint <- MCEndpoint
    Byte <- MCEndpoint
    NoEndpoint = none
    Packet <- MCExpiryPacket
    Time <- MCTime
    Seqs = {1, 3}
    MaxLen = 2
    LastTime = 3
    MaxPackets = 6
    SeqSpace = 6
    CountMax = 2
    MaxDepth = 3
    MaxSegments = 2
    MaxReceiveWindow = 3
    MaxFlows = 2
    Memcap = 2
    FlowTimeout = 1
    ExpirySweepInterval = 3
    IdlePacketThreshold = 2
    OverlapThreshold = 0
    SmallSegmentThreshold = 1
    OutOfWindowThreshold = 0
    SmallSegmentMaxBytes = 2
    MaxFindings = 1
    SmallSegmentIgnored = {}
SYMMETRY ClientSymmetry
INVARIANT IdlePacketsBounded
PROPERTY SweepComplete
