SPECIFICATION MCIcsSpec
CONSTANTS
    MAX_FINDINGS = 3
    MAX_MAP_ENTRIES = 1
    ModbusKey = {"k"}
    MbapLen = 2
    MAX_ADU_CARRY_BYTES = 3
    MAX_PENDING_TRANSACTIONS = 1
    T0831_WINDOW_SECS = 1
    WRITE_BURST_WINDOW_SECS = 1
    WRITE_SUSTAINED_WINDOW_SECS = 2
    EXCEPTION_WINDOW_SECS = 1
    EXCEPTION_RATE_THRESHOLD = 1
    write_burst_threshold = 1
    write_sustained_threshold = 1
    MaxModbusPdus = 3
    ModbusCapture <- MCModbusCaptures
    Dnp3Key = {"k"}
    Dnp3Capture <- MCDnp3Captures
    LinkHeaderLen = 4
    AppByte = 5
    MAX_DNP3_FRAME_LEN = 5
    MAX_PENDING_REQUESTS = 2
    MAX_MASTER_ADDRS = 1
    MALFORMED_ANOMALY_THRESHOLD = 2
    CORRELATION_WINDOW_SECS = 2
    BLOCK_CMD_TIMEOUT_SECS = 1
    BLOCK_CMD_THRESHOLD = 2
    T0827_THRESHOLD = 2
    DETECTION_WINDOW_SECS = 1
    direct_operate_threshold = 1
    MaxDnp3Events = 3
    EnipKey = {"k"}
    EnipCapture <- MCEnipCaptures
    EnipHeaderLen = 2
    MAX_ENIP_CARRY_BYTES = 4
    ENIP_MALFORMED_THRESHOLD = 2
    EnipMalformedWindow = 2
    EnipErrorWindow = 1
    EnipWriteWindow = 1
    enip_write_burst_threshold = 1
    enip_error_burst_threshold = 1
    MaxEnipEvents = 3
    Iec104Key = {"k"}
    Iec104Capture <- MCIec104Captures
    MAX_IEC104_CARRY_BYTES = 4
    MinApduLen = 3
    MaxApduLen = 4
    NsModulus = 8
    NsWindow = 2
    MaxIec104Apdus = 3
    S7Key = {"k"}
    S7Capture <- MCS7Captures
    TpktHeaderLen = 2
    MinTpktLen = 3
    MAX_S7_ISO_ON_TCP_CARRY_BYTES = 3
    MaxS7Frames = 3
\* a capture ends
CHECK_DEADLOCK FALSE
INVARIANT MalformedReported
