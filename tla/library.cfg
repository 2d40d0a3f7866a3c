SPECIFICATION LibSpec
CONSTANTS
    NULL = NULL
    Absent = Absent
    Timer = {10, 11, 12, 20, 21, 30, 40}
    Expires <- MCExpires
    RbNode = {10, 20, 21, 30, 40, 50, 51, 60, 70, 80}
    RbKey <- MCRbKey
    th1 = th1
    th2 = th2
    b1 = b1
    b2 = b2
    b3 = b3
    Thread = {th1, th2}
    Key = {1, 2, 3}
    Block = {b1, b2, b3}
    Cpu = {th1, th2}
    KKey = {0, 1, 2}
    KNode = {b1, b2, b3}
    KSize = 2
    KHash <- MCKHash
    Name = {"s", "k", "s:k"}
    Val <- MCVal
    NameHash <- MCNameHash
    DictMinSz = 2
    IniLines <- MCLines
    MaxLines = 3
    MaxSize = 4
    Glue <- MCGlue
    WKey = {0, 1, 2}
    HashSize = 2
    Hash <- MCHash
    MaxLen = 3
    Pusher = {th1}
    Popper = {th1}
    Data = {d1, d2}
    Node = {b1, b2, b3, n4}
    d1 = d1
    d2 = d2
    n4 = n4
    EditVal <- MCEditVal
    Prefix <- MCPrefix
SYMMETRY Symmetry
CHECK_DEADLOCK FALSE
INVARIANTS
    ClientTree
    Augmented
    ContainerOwned
    UnlockedReads
    KernelOwned
    LockLeftBehind
    KernelLookup
    IniShape
    IniMeaning
    IniSections
    
    NodesHeld
PROPERTIES
    KeepsOrder
    ContainerIsSet
    KernelIsSet
    DictIsMap
    OnlyOnce
    Fifo
    FreedTwice
