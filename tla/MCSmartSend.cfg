SPECIFICATION Spec
CONSTANTS
    Runner = {r1, r2}
    NoRunner = NoRunner
    KindOrder <- MCKindOrder
    Scenarios <- MCScenarios
SYMMETRY MCSymmetry
INVARIANTS
    PublishedIntact
    NeverStuck
    NothingToSendMeansCaughtUp
PROPERTIES
    PublishedIncrementalsRestore
    FullStartsNewChain
CHECK_DEADLOCK FALSE
