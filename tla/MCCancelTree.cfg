CONSTANTS
    r = r
    m = m
    l = l
    k = k
    n = n
    Tokens <- Tree
    Root = r
    Nil = Nil
    Threads = {t1, t2}
    Futures = {f1}
    Slack = 1
SPECIFICATION MCSpec
INVARIANTS
    SeenAfterReturn
    ChildrenBounded
PROPERTIES
    TriggerIsHeard
CHECK_DEADLOCK FALSE
