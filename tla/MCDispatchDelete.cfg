SPECIFICATION Spec
CONSTANTS
    w1 = w1
    w2 = w2
    e1 = e1
    e2 = e2
    h1 = h1
    Workers = {w1, w2}
    Events = {e1, e2}
    Handlers = {h1}
    Depth = 2
    ShutdownEvent = shutdown
    NoEvent = none
    Free = free
PROPERTY
    DeletesThreads
CHECK_DEADLOCK FALSE
