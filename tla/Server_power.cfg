SPECIFICATION Spec
CONSTANTS
    fileA = fileA
    fileB = fileB
    fileA_wow = fileA_wow
    fileB_wow = fileB_wow
    Paths = {fileA, fileB}
    Names = {fileA, fileB, fileA_wow, fileB_wow}
    TmpOf <- TwoTmp
    Inodes = {i1, i2, i3, i4}
    Calls = {c1, c2}
    Readers = {}
    MaxLen = 1
    None = None
    NoData = NoData
    Faults <- LosesPower
SYMMETRY InodeSymmetry
INVARIANTS
    IInv
    TmpOwned
PROPERTIES
    AtomicStore
