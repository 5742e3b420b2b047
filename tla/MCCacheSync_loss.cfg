SPECIFICATION Spec
CONSTANTS
    NumVolumes = 2
    None = None
    Damaged = Damaged
    Budgets <- MCKillThenLoss
INVARIANT PublishedSetRestores
CHECK_DEADLOCK FALSE
