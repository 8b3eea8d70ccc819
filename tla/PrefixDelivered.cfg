SPECIFICATION Spec
CONSTANTS
    a = a
    b = b
    Byte = {a, b}
    SeqSpace = 7
    CountMax = 1
    MaxDepth = 4
    MaxSegments = 2
    MaxReceiveWindow = 3
    MaxLen = 3
    Payload <- MCPayload
SYMMETRY ByteSymmetry
INVARIANT
    PrefixDelivered
