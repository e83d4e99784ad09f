CONSTANTS
    a = a
    b = b
    End = End
    Given = Given
    Nodes <- PairNodes
    Edges <- PairEdges
    Starts <- PairStarts
    MaxInstances = 2
    Endings = {"Result", "Failed", "Cancelled"}
    Sinks = {TRUE, FALSE}
    ZeroGrace = FALSE
SPECIFICATION FairSpec
INVARIANTS
    NothingOwedLost
    OutcomeIsTrue
PROPERTIES
    StopHoldsInputs
    KeepsContract
    CancelReturns
    RunReturns
CHECK_DEADLOCK FALSE
