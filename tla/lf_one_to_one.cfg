SPECIFICATION lfSpec
CONSTANTS
    t1 = t1
    t2 = t2
    n1 = n1
    n2 = n2
    n3 = n3
    n4 = n4
    a = a
    b = b
    NULL = NULL
    Pusher = {t1}
    Popper = {t2}
    Data = {a, b}
    Node = {n1, n2, n3, n4}
PROPERTIES
    Fifo
CHECK_DEADLOCK FALSE
