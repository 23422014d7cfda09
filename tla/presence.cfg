\* A LOCAL room with a capacity of one, so that guests come in when the owner is
\* out: joins, leaves and sockets, to the room's expiry and past it.  No symmetry: a
\* liveness property is checked.
SPECIFICATION FairSpec
CHECK_DEADLOCK FALSE
CONSTANTS
    o = o
    a = a
    b = b
    w1 = w1
    w2 = w2
    Null = Null
    Participant = {o, a, b}
    Owner = o
    Elsewhere = {}
    Worker = {w1, w2}
    Ops = {"join", "leave", "socket"}
    Local = TRUE
    MaxLocal = 1
    MaxSockets = 2
    Targets = {}
    GrantRoles = {}
    Asks = {}
    Faults = {"expiry"}
INVARIANTS NoPhantom CapacityOvershoot
PROPERTIES ClosedGoesOffList
