SPECIFICATION Spec
CONSTANTS
    t1 = t1
    t2 = t2
    t3 = t3
    n1 = n1
    n2 = n2
    n3 = n3
    NULL = NULL
    NoThread = NoThread
    Thread = {t1, t2, t3}
    Node = {n1, n2, n3}
    Key = {0, 1, 2}
    HashSize = 2
    Hash <- MCHash
    NeedLock = TRUE
    CbRet = {}
    Ops = {"add", "del"}
    Ranges <- NoRange
SYMMETRY Symmetry
INVARIANTS
    TypeOK
    Ownership
    UniqueKeys
PROPERTIES
    Linearizable
