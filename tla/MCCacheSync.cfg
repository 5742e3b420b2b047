SPECIFICATION Spec
CONSTANTS
    NumVolumes = 2
    None = None
    Damaged = Damaged
    Budgets <- MCBudgets
INVARIANTS CacheDescribesLastRun ReaderGetsPublished PublishedSetRestores
CHECK_DEADLOCK FALSE
