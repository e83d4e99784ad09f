CONSTANTS
    a = a
    b = b
    j = j
    x = x
    y = y
    Nodes <- ForkNodes
    Joins = {j}
    Entry = a
    Targets <- ForkTargets
    Labels = {x, y}
    MaxSteps = 3
    MaxCommands = 2
SPECIFICATION FairSpec
INVARIANTS
    StepsFollowEdges
    InputsKept
PROPERTIES
    NotRunAgain
    CancelIsHeard
