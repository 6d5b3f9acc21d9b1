SPECIFICATION Spec
CONSTANTS
    clientA = clientA
    clientB = clientB
    a1 = a1
    a2 = a2
    b1 = b1
    Clients = {clientA, clientB}
    Handles = {a1, b1}
    Owner <- OneEach
    Threads = 2
    MaxWrites = 2
    MaxFaults = 1
    Torn = Torn
    None = None
    Modes <- Plain
PROPERTIES
    AlwaysFresh
