SPECIFICATION Spec
CONSTANTS
    w1 = w1
    w2 = w2
    c1 = c1
    k1 = k1
    k2 = k2
    NULL = NULL
    NoThread = NoThread
    Worker = {w1, w2}
    Client = {c1}
    Task = {k1, k2}
INVARIANTS
    QueueNotRun
CHECK_DEADLOCK FALSE
