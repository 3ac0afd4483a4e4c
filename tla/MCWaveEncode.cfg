SPECIFICATION FairSpec
CONSTANTS
    Rows = 4
    Cols = 3
    Workers = 3
    BadCTUs <- MCBadCTUs
INVARIANTS
    CtxHandoff
    SubstreamsComplete
PROPERTIES
    ImplementsOrder
    Terminates
