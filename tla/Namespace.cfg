SPECIFICATION Spec
CONSTANTS
    Clients = {c1, c2}
    Names = {a, b}
    Depth = 2
    MaxFiles = 3
    MaxOps = 4
    MaxLost = 1
    Dir = Dir
    None = None
SYMMETRY Symmetry
INVARIANTS
    TypeOK
    OwnTreeAgrees
    ErrorsChangeNothing
\* No call is made after the last of MaxOps.
CHECK_DEADLOCK FALSE
