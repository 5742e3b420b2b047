SPECIFICATION Spec
CONSTANTS
    Keys <- MCKeys
    Class = {"standard", "glacier", "intelligent"}
    Scenarios <- MCRounds
    EndOfTime = 60
INVARIANT DownloadsReadable
