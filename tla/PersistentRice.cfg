SPECIFICATION PersistentSpec
INVARIANTS
    PersistentRiceApplied
CHECK_DEADLOCK FALSE
