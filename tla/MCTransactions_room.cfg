SPECIFICATION Spec
CONSTANTS
    c1 = c1
    p1 = p1
    Clients = {c1}
    Ports = {p1}
    MaxCalls = 2
    InLens <- MCInLens
    Rooms = {2}
    ReplyLens = {2, 3}
    CmpMax = 1
    U32 = 4
INVARIANT ReplyFitsBuffer
CHECK_DEADLOCK FALSE
