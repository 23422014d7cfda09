\* One participant's two connections, and events between them.
SPECIFICATION FairSpec
CHECK_DEADLOCK FALSE
CONSTANTS
    a = a
    b = b
    a1 = a1
    a2 = a2
    b1 = b1
    Null = Null
    Participant = {a}
    Conn = {a1, a2}
    Of <- MCOf
    BufCap = 1
    SendCap = 1
    MaxEvents = 1
INVARIANTS TypeOK
PROPERTIES PumpsEndTogether PostsGetThrough
