SPECIFICATION Spec
CONSTANTS
    t1 = t1
    t2 = t2
    n1 = n1
    n2 = n2
    NULL = NULL
    NoThread = NoThread
    Thread = {t1, t2}
    Node = {n1, n2}
    Key = {0, 1}
    HashSize = 2
    Hash <- MCHash
    NeedLock = TRUE
    CbRet = {0, 1}
    Ops = {"add", "each"}
    Ranges <- WholeTable
INVARIANTS
    MutualExclusion
CHECK_DEADLOCK FALSE
