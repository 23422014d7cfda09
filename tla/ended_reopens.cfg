\* Violated: a pause in flight across the end of the room.
SPECIFICATION Spec
CHECK_DEADLOCK FALSE
CONSTANTS
    o = o
    a = a
    w1 = w1
    w2 = w2
    Null = Null
    Participant = {o, a}
    Owner = o
    Elsewhere = {}
    Worker = {w1, w2}
    Ops = {"join", "end", "pause"}
    Local = FALSE
    MaxLocal = 1
    MaxSockets = 1
    Targets = {}
    GrantRoles = {}
    Asks = {}
    Faults = {}
INVARIANTS EndIsFinal
