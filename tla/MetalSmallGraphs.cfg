CONSTANTS
    IndexBits = 30
    ChunkBits = 26
    RangeBits = 18
    SeenWords = 8192
    Scenarios <- MCScenarios
    MaxNonce = 5
    CpuMaxBits = 28
    MetalMinBits = 18
    BucketedMinBits = 24
    LiveLength = 42
    MaxLength = 64
    AcceptCount = 3
    AcceptFound <- MCAcceptFound
SPECIFICATION Spec
INVARIANTS RangesStayInside
