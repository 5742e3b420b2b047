SPECIFICATION FairSpec
CONSTANTS
    Keys <- MCKeys
    Class = {"standard", "glacier", "intelligent"}
    Scenarios <- MCScenarios
    EndOfTime = 60
INVARIANTS DownloadsReadable ReadableAtReturn
PROPERTY PreDownloadEnds
