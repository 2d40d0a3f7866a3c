SPECIFICATION csSpec
CONSTANTS
    NULL = NULL
    t1 = t1
    t2 = t2
    h1 = h1
    h2 = h2
    Caller = {t1, t2}
    MaxNum = 2
    Heap = {h1, h2}
    Ops = {"get", "put"}
INVARIANTS
    InBlock
