\* Two requests at a time, of the owner, of a guest the owner may make a host, and of
\* a host of another room: join, leave, present, pause, give a role, kick, end the
\* room, open and close sockets, while statements fail and the process restarts.
SPECIFICATION Spec
CHECK_DEADLOCK FALSE
CONSTANTS
    o = o
    a = a
    w1 = w1
    w2 = w2
    x = x
    Null = Null
    Participant = {o, a}
    Owner = o
    Elsewhere = {x}
    Worker = {w1, w2}
    Ops = {"join", "leave", "start", "stop", "pause", "role", "kick", "end", "socket"}
    Local = FALSE
    MaxLocal = 1
    MaxSockets = 1
    Targets = {a}
    GrantRoles = {"HOST"}
    Asks = {}
    Faults = {"failure", "restart"}
SYMMETRY Symmetry
INVARIANTS TypeOK ExpelledStayOut KickedAreUnlisted
PROPERTIES OverForGood StageKept OutForGood PhantomsAreCutLeaves ImplementsMembership
