SPECIFICATION Spec
CONSTANTS
    fileA = fileA
    fileB = fileB
    fileA_wow = fileA_wow
    fileB_wow = fileB_wow
    Paths = {fileA}
    Names = {fileA, fileA_wow}
    TmpOf <- OneTmp
    Inodes = {i1, i2, i3}
    Calls = {c1, c2}
    Readers = {r1}
    MaxLen = 2
    None = None
    NoData = NoData
    Faults <- Overlaps
SYMMETRY Symmetry
INVARIANTS
    FinalUnmixed
