\* Role changes and transfers of three people, two requests at a time; a host of
\* another room makes them too, and the spotlight may be handed to that one.
SPECIFICATION Spec
CHECK_DEADLOCK FALSE
CONSTANTS
    o = o
    a = a
    b = b
    w1 = w1
    w2 = w2
    x = x
    Null = Null
    Participant = {o, a, b}
    Owner = o
    Elsewhere = {x}
    Worker = {w1, w2}
    Ops = {"join", "role", "transfer"}
    Local = FALSE
    MaxLocal = 1
    MaxSockets = 1
    Targets = {o, a, b, x}
    GrantRoles = {"HOST"}
    Asks = {}
    Faults = {"failure"}
SYMMETRY Symmetry
INVARIANTS PrimariesBounded
PROPERTIES SpotlightKept OwnerKept
