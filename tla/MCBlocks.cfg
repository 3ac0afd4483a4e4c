SPECIFICATION MCSpec
CONSTANTS
    Threads = 3
    MinBands = 1
    Pictures <- MCPictures
INVARIANTS
    NoRace
    FilteredAsEncoded
    DeblockAsSpecified
    InStep
    SamePrediction
    ResidualRoundTrip
CHECK_DEADLOCK FALSE
