SPECIFICATION tlSpec
CONSTANTS
    NULL = NULL
    t1 = t1
    t2 = t2
    Timer = {t1, t2}
    Second = 100
    AlmostNow = 1
    MaxDelay = 3
INVARIANTS
    NeverEarly
CHECK_DEADLOCK FALSE
