SPECIFICATION IniSpec
CONSTANTS
    NULL = NULL
    Absent = Absent
    Name = {"s", "k", "s:k"}
    Val <- MCVal
    NameHash <- MCNameHash
    DictMinSz = 2
    IniLines <- MCLines
    MaxLines = 3
    MaxSize = 4
    EditVal <- MCEditVal
    Prefix <- MCPrefix
    Glue <- MCGlue
INVARIANTS
    SectionKeys
CHECK_DEADLOCK FALSE
