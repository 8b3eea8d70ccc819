SPECIFICATION MCComponentsSpec
CONSTANTS
    MAX_FINDINGS = 3
    HttpKey = {"k"}
    HttpCapture <- MCHttpCaptures
    MAX_HEADER_BUF = 4
    MAX_URIS = 2
    MAX_MAP_ENTRIES = 1
    POISON_THRESHOLD = 2
    MaxHttpEvents = 4
    TlsKey = {"k"}
    TlsCapture <- MCTlsCaptures
    RecHeader = 2
    HsHeader = 2
    MAX_BUF = 11
    MAX_RECORD_PAYLOAD = 4
    MaxTlsCloses = 1
    Ip = {"i1", "i2", "i3"}
    FilteredIp = {"0.0.0.0"}
    Mac = {"m1", "m2", "m3"}
    NoMac = "none"
    ArpCapture <- MCArpCaptures
    MAX_ARP_BINDINGS = 2
    MAX_STORM_COUNTERS = 2
    ARP_FLAP_WINDOW_SECS = 1
    spoof_threshold = 2
    storm_rate = 2
    MaxArpFrames = 5
    ReaderFile <- MCReaderFiles
    MAX_PCAPNG_FILE_BYTES = 1000
    MAX_INTERFACE_TABLE_ENTRIES = 2
    U32_MAX = 7
    U64_MAX = 1000
    DEFAULT_TSRESOL = 1
    BASE10_POWERS = 3
    MAX_SHIFT = 4
    MaxBlocks = 5
    ReportFinding <- MCFindings
    COLLAPSE_EVIDENCE_SAMPLES = 2
    MaxReported = 4
    Byte = {"a"}
    SeqSpace = 7
    CountMax = 0
    MaxDepth = 6
    MaxSegments = 3
    MaxReceiveWindow = 5
    MaxLen = 4
\* a capture ends
CHECK_DEADLOCK FALSE
INVARIANTS ComponentsWithinCaps ComponentsCuttingIrrelevant ArpLatchesExact ArpBindingsCurrent ReaderWhole ReportsFaithful LoopsAgree
PROPERTIES ComponentsSettledForGood ArpRebindsReported ReaderPacketsExact
