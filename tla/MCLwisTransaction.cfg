SPECIFICATION Spec
CONSTANTS
    t1 = t1
    t2 = t2
    t3 = t3
    f1 = f1
    i1 = i1
    h1 = h1
    None = None
    Transaction = {t1, t2, t3}
    Instance = {i1}
    Infos <- Mixed
    Handler = {h1}
    Fence = {f1}
    Limit = 1
    AnyTime = FALSE
INVARIANTS
    OnePlace
    QueuedIsServed
CHECK_DEADLOCK FALSE
