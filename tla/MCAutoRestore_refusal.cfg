SPECIFICATION Spec
CONSTANTS
    NoSnapshot = NoSnapshot
    NoBackup = NoBackup
    Archives <- MCArchives
    LocalSnaps <- MCLocal
    MaxLocal = 2
    Taken <- MCTaken
    Wanted = {"", "a2"}
    Options <- MCOptions
    MaxErrors = 1
PROPERTY RefusalsComeFirst
