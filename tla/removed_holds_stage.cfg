\* Violated: a start in flight across the kick of its maker.
SPECIFICATION Spec
CHECK_DEADLOCK FALSE
CONSTANTS
    o = o
    a = a
    w1 = w1
    w2 = w2
    Null = Null
    Participant = {o, a}
    Owner = o
    Elsewhere = {}
    Worker = {w1, w2}
    Ops = {"join", "role", "start", "kick"}
    Local = FALSE
    MaxLocal = 1
    MaxSockets = 1
    Targets = {a}
    GrantRoles = {"PRESENTER"}
    Asks = {}
    Faults = {}
INVARIANTS RemovedHoldNoStage
