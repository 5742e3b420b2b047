SPECIFICATION FairSpec
CONSTANT Jobs <- MCJobs
INVARIANTS
    Inv
    FinalMeansWhole
    SuccessMeansPublished
    NoSendOnClosedChannel
    FileBufferBounds
PROPERTIES
    ImplementsPublication
    Terminates
