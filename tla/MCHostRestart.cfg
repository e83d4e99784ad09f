CONSTANTS
    a = a
    b = b
    End = End
    Given = Given
    Nodes <- PairNodes
    Edges <- PairEdges
    Starts <- PairStarts
    MaxInstances = 2
    MaxRuns = 2
    Endings = {"Result", "Vanished"}
    Sinks = {TRUE, FALSE}
    ZeroGrace = TRUE
SPECIFICATION SpecHost
INVARIANTS
    NoWorkLostOverRestarts
PROPERTIES
    GraceIsKept
CHECK_DEADLOCK FALSE
