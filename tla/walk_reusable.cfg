SPECIFICATION WalkFairSpec
CONSTANTS
    NULL = NULL
    WKey = {0, 1, 2}
    HashSize = 2
    Hash <- MCHash
    MaxLen = 3
PROPERTIES
    WalkEnds
CHECK_DEADLOCK FALSE
