SPECIFICATION Spec
CONSTANTS
    reply = reply
    again = again
    control = control
    event = event
    client1 = client1
    client2 = client2
    null = null
    Messages <- MCMessages
    Length <- MCLength
    Context <- MCContext
    Clients = {client1, client2}
    Request <- MCRequest
    Handled = {0, 2}
    Depth = 1
    Arrivals = 3
    Null = null
INVARIANTS
    DeliveredWhole
    OneOwner
    ResponseIsMine
PROPERTIES
    ReplyIsSeen
    LateReplyKept
\* the object may be destroyed, and nothing need arrive
CHECK_DEADLOCK FALSE
