SPECIFICATION FairSpec
CONSTANTS
    Rows = 4
    Cols = 3
    Workers = 3
    FirstRow = 1
    Streams <- MCStreams
INVARIANTS
    TypeOK
    CtxHandoff
    DecodedOnce
    NoLostWakeup
    Outcome
PROPERTIES
    ImplementsOrder
    Terminates
