\* Violated: a socket open when the process is killed.
SPECIFICATION Spec
CHECK_DEADLOCK FALSE
CONSTANTS
    o = o
    a = a
    w1 = w1
    w2 = w2
    Null = Null
    Participant = {o, a}
    Owner = o
    Elsewhere = {}
    Worker = {w1, w2}
    Ops = {"join", "socket"}
    Local = FALSE
    MaxLocal = 1
    MaxSockets = 1
    Targets = {}
    GrantRoles = {}
    Asks = {}
    Faults = {"restart"}
INVARIANTS NoPhantom
