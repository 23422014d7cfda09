\* Violated: two joins that count before either inserts.
SPECIFICATION Spec
CHECK_DEADLOCK FALSE
CONSTANTS
    o = o
    a = a
    b = b
    w1 = w1
    w2 = w2
    Null = Null
    Participant = {o, a, b}
    Owner = o
    Elsewhere = {}
    Worker = {w1, w2}
    Ops = {"join"}
    Local = TRUE
    MaxLocal = 2
    MaxSockets = 1
    Targets = {}
    GrantRoles = {}
    Asks = {}
    Faults = {}
INVARIANTS CapacityHeld
