SPECIFICATION Spec
CONSTANTS
    Paths = {path1, path2}
    MaxHandles = 2
    MaxPending = 3
    Dog = Dog
    Main = Main
    MaxFd = 2
    MaxWrites = 2
    None = None
    Ops <- Everything
\* The client exits.
CHECK_DEADLOCK FALSE
SYMMETRY Symmetry
INVARIANTS
    TypeOK
    KeepsDescriptor
    OpenSeesClosed
    SavedAtEnd
PROPERTIES
    NeverBack
