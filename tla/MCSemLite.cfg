SPECIFICATION Spec
CONSTANTS
    t1 = t1
    t2 = t2
    t3 = t3
    Threads = {t1, t2, t3}
    InitCount = 3
    MaxCount = 2
INVARIANTS
    TypeOK
    NoLostWakeup
PROPERTY
    ImplementsSemaphore
\* a destroyed semaphore does nothing more
CHECK_DEADLOCK FALSE
