SPECIFICATION SliceSpec
INVARIANTS
    SaoAcross
CHECK_DEADLOCK FALSE
