SPECIFICATION Spec
CONSTANTS
    fileA = fileA
    fileB = fileB
    fileA_wow = fileA_wow
    fileB_wow = fileB_wow
    Paths = {fileA, fileB}
    Names = {fileA, fileB, fileA_wow, fileB_wow}
    TmpOf <- TwoTmp
    Inodes = {i1, i2, i3, i4}
    Calls = {c1, c2}
    Readers = {r1}
    MaxLen = 2
    None = None
    NoData = NoData
    Faults <- Noticed
SYMMETRY Symmetry
INVARIANTS
    TypeOK
    FinalWhole
    ReadsOneVersion
PROPERTIES
    AckedCommitted
