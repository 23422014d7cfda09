\* Two people and a host of another room.  The guest and the owner ask for the stage;
\* owner, guest and outsider answer, also twice at once and not the same, change the
\* guest's role and hand the stage to the guest or outside, while the process restarts.
SPECIFICATION Spec
CHECK_DEADLOCK FALSE
CONSTANTS
    o = o
    a = a
    w1 = w1
    w2 = w2
    x = x
    Null = Null
    Participant = {o, a}
    Owner = o
    Elsewhere = {x}
    Worker = {w1, w2}
    Ops = {"join", "request", "resolve", "role", "transfer"}
    Local = FALSE
    MaxLocal = 1
    MaxSockets = 1
    Targets = {a, x}
    GrantRoles = {"HOST"}
    Asks = {"RAISE_HAND", "REQUEST_STAGE"}
    Faults = {"restart"}
SYMMETRY Symmetry
PROPERTIES GrantsKept
