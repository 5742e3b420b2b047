SPECIFICATION FairSpec
CONSTANTS
    Keys <- MCKeys
    Class = {"standard", "glacier", "intelligent"}
    Scenarios <- MCShort
    EndOfTime = 60
PROPERTY PreDownloadAlwaysEnds
