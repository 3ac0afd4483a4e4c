SPECIFICATION Spec
CONSTANTS
    Streams <- MCStreams
    FrameSizeLimit = 2
    PoolDepth = 2
    MaxFaults = 2
    MaxCalls = 1
INVARIANTS
    HoldsExact
    NoAlias
    OutputOnce
    OutputOrder
    WithinLimits
    OutputAsSent
CHECK_DEADLOCK FALSE
