\* A new version starts next to an old one on one database, and each serves.
SPECIFICATION FairSpec
CHECK_DEADLOCK FALSE
CONSTANTS
    new = new
    old = old
    w1 = w1
    w2 = w2
    Null = Null
    Server = {new, old}
    Files = 2
    Ships <- MCShips
    MaxFaults = 2
    Worker = {w1, w2}
    Host <- MCHost
    RoomId = {"r1", "r2"}
    Code = {"c1", "c2"}
    MaxTry = 2
    Email = {"e1"}
    Person = {"p1", "p2"}
INVARIANTS TypeOK SchemaInOrder ServersFindSchema AnsweredRoomStands AnsweredAccountStands
PROPERTIES AllServe ImplementsRegistry
