SPECIFICATION ToolSpec
CONSTANTS
    Nodes = 3
    Calls = 5
    Owner <- MCOwner
    Width = 2
INVARIANTS
    NoneWaitsForTheDropped
CHECK_DEADLOCK FALSE
