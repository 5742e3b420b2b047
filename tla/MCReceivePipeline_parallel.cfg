SPECIFICATION FairSpec
CONSTANTS
    FileBuffers = {2}
    Volumes = 3
PROPERTY GoodReceiveEnds
