SPECIFICATION MCDriverSpec
CONSTANTS
    DriverRun <- MCDriverRuns
    k1 = k1
    k2 = k2
    k3 = k3
    k4 = k4
    Key = {k1, k2, k3, k4}
    Ports <- MCPorts
    Enabled = {"Http", "Tls"}
    MaxAttempts = 3
    CoverageGaps = TRUE
    TlsHeaderLen = 5
    ChunkLen = {4, 5}
    MaxUnclassified = 4
INVARIANTS FinalizeAlwaysReached
