SPECIFICATION FairSpec
CONSTANTS
    t1 = t1
    t2 = t2
    n1 = n1
    n2 = n2
    NULL = NULL
    NoThread = NoThread
    Thread = {t1, t2}
    Node = {n1, n2}
    Key = {0, 2}
    HashSize = 2
    Hash <- MCHash
    NeedLock = TRUE
    CbRet = {0}
    Ops = {"add", "radd", "del", "dba", "rdel", "lookup", "each"}
    Ranges <- SomeRanges
INVARIANTS
    MutualExclusion
    LockedUseSafe
    IInv
PROPERTIES
    LockReleased
CHECK_DEADLOCK FALSE
