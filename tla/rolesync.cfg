\* One participant with two connections, two handlers that change roles, an
\* ONLINE room; statements fail and LiveKit's updates are lost or late.
SPECIFICATION FairSpec
CHECK_DEADLOCK FALSE
CONSTANTS
    o = o
    a = a
    a1 = a1
    a2 = a2
    w1 = w1
    w2 = w2
    Null = Null
    Participant = {a}
    Owner = o
    Conn = {a1, a2}
    Of <- MCOf
    Worker = {w1, w2}
    Roles = {"PRESENTER", "PARTICIPANT"}
    Online = TRUE
    CrossRoom = TRUE
    MaxChanges = 2
    Faults = {"failure", "livekit"}
INVARIANTS TypeOK
PROPERTIES SocketsFollow RightsFollow CopiesSettle
