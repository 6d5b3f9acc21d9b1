SPECIFICATION Spec
CONSTANTS
    Threads = {t1, t2}
    Lines <- AllLines
    Files <- FirstFiles
    Saved <- LaterFiles
    Ops = {"write", "rename", "release"}
    MaxCalls = 5
    MaxLines = 4
    NoFile = NoFile
    Null = Null
    None = None
SYMMETRY Symmetry
INVARIANTS
    TypeOK
    SavedTakesEffect
    FaultsAreConfigured
    WalksLiveList
\* No call is made after the last of MaxCalls.
CHECK_DEADLOCK FALSE
