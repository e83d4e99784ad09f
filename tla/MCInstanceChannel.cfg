CONSTANTS
    MaxInputs = 2
    Watchers = {w1}
SPECIFICATION FairSpec
INVARIANTS
    TakenInOrder
PROPERTIES
    ReadyIsHeard
CHECK_DEADLOCK FALSE
