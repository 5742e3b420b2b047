SPECIFICATION Spec
CONSTANTS
    Dest = {a, b}
    Atomic = {a}
    Job = {j1, j2}
    Variant = {s1, s2}
    StreamLen = 2
    FileBuffer = 2
    MaxAttempts = 3
    None = None
    Truncated = Truncated
CONSTRAINT Bound
SYMMETRY Symmetry
INVARIANTS
    TypeOK
    CacheSound
    PublishedMatches
    PublishedIsOneStream
    Inv
PROPERTY PublishedNeverOverwritten
