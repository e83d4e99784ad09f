CONSTANTS
    Elements = 3
    Limit = 2
    Lanes = {l1, l2, l3}
    Needed = 2
    MaxUpdates = 4
    none = none
SPECIFICATION MCSpec
INVARIANTS
    ResultIsWhole
    NoneLeftBehind
    MergeKept
PROPERTIES
    TasksHear
CHECK_DEADLOCK FALSE
