SPECIFICATION Spec
CONSTANTS
    Set = {"a1", "a2", "b1"}
    Dataset = {"A", "B"}
    ds <- MCds
    OtherSets = {"a1"}
    NumVolumes = 2
    Scenarios <- MCScenarios
INVARIANTS PublishedStaysWhole CleanIsThorough UnfinishedStaysResumable
PROPERTY LocalManifestLast
CHECK_DEADLOCK FALSE
