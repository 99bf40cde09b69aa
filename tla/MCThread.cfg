SPECIFICATION Spec
CONSTANTS
    c1 = c1
    c2 = c2
    Clients = {c1, c2}
INVARIANTS
    TypeOK
    SuspendHandshake
    UserFunctionOutlived
PROPERTIES
    DestructorReturns
\* a deleted object does nothing more
CHECK_DEADLOCK FALSE
