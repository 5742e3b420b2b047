SPECIFICATION Spec
CONSTANTS
    Periods <- MCPeriods
    Every = 24
    From = 30
    Bounds <- MCBounds
    Job <- MCJob
    Pools <- MCStartPool
    Destinations <- MCNoBackups
INVARIANTS
    OutagesAreHarmless
    CadenceKept
CHECK_DEADLOCK FALSE
