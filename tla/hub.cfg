\* A participant with two connections and one with one; buffers of one message.
SPECIFICATION Spec
CHECK_DEADLOCK FALSE
CONSTANTS
    a = a
    b = b
    a1 = a1
    a2 = a2
    b1 = b1
    Null = Null
    Participant = {a, b}
    Conn = {a1, a2, b1}
    Of <- MCOf
    BufCap = 1
    SendCap = 1
    MaxEvents = 0
SYMMETRY Symmetry
INVARIANTS HubNeverPanics NoDeadEntry MeshComplete
PROPERTIES EntryKept ImplementsDirectory
