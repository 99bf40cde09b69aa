SPECIFICATION Spec
CONSTANTS
    c1 = c1
    c2 = c2
    long = long
    short = short
    urgent = urgent
    null = null
    Senders = {c1, c2}
    Messages = {long, short, urgent}
    Length <- MCLength
    Priority <- MCPriority
    IdLimit = 3
    Null = null
INVARIANT
    DeletedOnce
\* the node may be destroyed, and nobody has to send
CHECK_DEADLOCK FALSE
