SPECIFICATION Spec
CONSTANTS
    Paths = {path1, path2}
    Files = {file1, file2}
    Handles = {handle1, handle2}
    MaxFd = 2
    Threads = 2
    MaxWrites = 2
    MaxFreq = 2
    None = None
    Ops <- Everything
SYMMETRY Symmetry
\* A client that leaks descriptors runs out of them and stops.
CHECK_DEADLOCK FALSE
INVARIANTS
    TypeOK
    DirtyFindsMeta
    MapsMatch
    ReadsOwnFile
    ServerCatchesUp
