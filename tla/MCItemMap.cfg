SPECIFICATION MCSpec
CONSTANTS
    Lists <- MCLists
    Widths = {0, 1, 2}
    Attempts = 3
    Worlds <- MCWorlds
    Foreign = "z"
    MaxSteps = 2
    MaxTries = 2
INVARIANTS
    GivesInOrder
    ReusedIsOwn
PROPERTIES
    NotRunAgain
CHECK_DEADLOCK FALSE
