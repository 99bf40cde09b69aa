SPECIFICATION Spec
CONSTANTS
    c1 = c1
    c2 = c2
    Clients = {c1, c2}
INVARIANT
    NoReferenceAfterRelease
CHECK_DEADLOCK FALSE
