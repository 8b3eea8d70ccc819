SPECIFICATION PipelineSpec
CONSTANTS
    c1 = c1
    c2 = c2
    srv = srv
    Endpoint <- MCEndpoint
    Byte = {"tls", "http", "other"}
    NoEndpoint = none
    Packet <- MCPacket
    Time <- MCTime
    LastTime = 1
    MaxPackets = 4
    SeqSpace = 6
    CountMax = 0
    MaxDepth = 3
    MaxSegments = 2
    MaxReceiveWindow = 3
    MaxFlows = 1
    Memcap = 1
    FlowTimeout = 0
    ExpirySweepInterval = 0
    IdlePacketThreshold = 1
    OverlapThreshold = 0
    SmallSegmentThreshold = 1
    OutOfWindowThreshold = 0
    SmallSegmentMaxBytes = 0
    MaxFindings = 0
    SmallSegmentIgnored = {}
    Ports <- MCPorts
    Enabled = {"Tls", "Modbus"}
    MaxAttempts = 2
    CoverageGaps = TRUE
    TlsHeaderLen = 2
INVARIANTS RoutesFollowFlows
