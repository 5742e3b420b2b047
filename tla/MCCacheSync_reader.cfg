SPECIFICATION Spec
CONSTANTS
    NumVolumes = 2
    None = None
    Damaged = Damaged
    Budgets <- MCReaderAndDeletion
INVARIANT CacheDescribesLastRun
CHECK_DEADLOCK FALSE
