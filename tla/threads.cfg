SPECIFICATION ThSpec
CONSTANTS
    w1 = w1
    w2 = w2
    w3 = w3
    c1 = c1
    c2 = c2
    k1 = k1
    k2 = k2
    k3 = k3
    t1 = t1
    t2 = t2
    t3 = t3
    h1 = h1
    NULL = NULL
    NoThread = NoThread
    Worker = {w1, w2, w3}
    Client = {c1, c2}
    Task = {k1, k2, k3}
    Timer = {t1, t2, t3}
    Second = 2
    AlmostNow = 1
    MaxDelay = 3
    Caller = {c1, c2}
    MaxNum = 2
    Heap = {h1}
    Ops = {"get", "put", "malloc", "free"}
INVARIANTS
    Asserts
    OnePlace
    StopsSoon
    FirstInUse
    ArgOnce
    NotEarly
    Exclusive
    NumCounts
    NoSlotLost
PROPERTIES
    NeverAfterRemoval
    Served
    TimersServed
CHECK_DEADLOCK FALSE
