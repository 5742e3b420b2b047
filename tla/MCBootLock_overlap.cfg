SPECIFICATION Spec
CONSTANTS
    Proc = {p, q}
    Pid = {p1, p2, p3}
    None = None
    Limits <- MCQuiet
SYMMETRY Alike
INVARIANT MutualExclusion
CHECK_DEADLOCK FALSE
