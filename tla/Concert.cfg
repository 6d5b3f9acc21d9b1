SPECIFICATION Spec
CONSTANTS
    Clients = {node_a, node_b}
    Sink = sink
    Orchestrator = orchestrator
    Rounds = 3
    MaxLost = 1
    MaxRepeated = 2
    None = None
    Repeats = {"REGISTRATION", "ACK"}
\* The participants wait for ever once the orchestrator has returned.
CHECK_DEADLOCK FALSE
INVARIANTS
    TypeOK
    OneOutstanding
    InStep
    SinkSeesRound
PROPERTIES
    Finishes
