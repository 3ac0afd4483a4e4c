SPECIFICATION Spec
CONSTANTS
    Streams <- CorruptStreams
    FrameSizeLimit = 0
    PoolDepth = 2
    MaxFaults = 1
    MaxCalls = 0
INVARIANT
    CorruptIsFlagged
CHECK_DEADLOCK FALSE
