SPECIFICATION Spec
CONSTANTS
    t1 = t1
    t2 = t2
    t3 = t3
    a = a
    b = b
    none = none
    free = free
    Threads = {t1, t2, t3}
    Elements = {a, b}
    Depth = 2
    NoElement = none
    Free = free
INVARIANTS
    TypeOK
    Conservation
PROPERTY
    ImplementsFifo
\* three blocked getters on an empty queue may wait for ever
CHECK_DEADLOCK FALSE
