SPECIFICATION Spec
CONSTANTS
    Files = {f, g}
    Blocks = {x, y}
    Fds = {1, 2}
    MaxWrites = 3
    MaxOpens = 3
    NulWrites = {2}
    MaxFaults = 1
    None = None
SYMMETRY Symmetry
INVARIANTS
    TypeOK
    ClosedIsSent
PROPERTIES
    FlushSends
    CloseKeepsWrites
