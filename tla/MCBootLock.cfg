SPECIFICATION Spec
CONSTANTS
    Proc = {p, q}
    Pid = {p1, p2, p3}
    None = None
    Limits <- MCLimits
SYMMETRY Alike
INVARIANTS ExclusionUnlessRaced OldBootNeverBlocks
CHECK_DEADLOCK FALSE
