SPECIFICATION Spec
CONSTANTS
    t1 = t1
    t2 = t2
    b1 = b1
    b2 = b2
    b3 = b3
    b4 = b4
    Threads = {t1, t2}
    Blocks = {b1, b2, b3, b4}
    Sizes = {1, 2, 3}
    InitSize = 1
    InitCount = 2
    MaxSegment = 1
    Word = 16
    NoBlock = noblock
    None = none
PROPERTY
    ReturnReleases
CHECK_DEADLOCK FALSE
