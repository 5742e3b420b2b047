SPECIFICATION FairSpec
CONSTANTS
    FileBuffers = {0, 1, 2}
    Volumes = 3
INVARIANTS
    Inv
    FedInOrder
    SuccessMeansRestored
    StorageBounded
PROPERTY ReceiveEnds
