SPECIFICATION FairSpec
CONSTANTS
    w1 = w1
    c1 = c1
    k1 = k1
    NULL = NULL
    NoThread = NoThread
    Worker = {w1}
    Client = {c1}
    Task = {k1}
PROPERTIES
    DestroyReturns
CHECK_DEADLOCK FALSE
