---------------------------- MODULE LobbyProofs ----------------------------
(***************************************************************************)
(* Theorems about Migrate and Lobby, for any number of servers, migrations *)
(* and requests, and any set of ids, codes and accounts.  ServersInv says  *)
(* where a booting server's place in the list of files stands against what *)
(* is committed; RoomInv and AccountInv what a request has achieved at     *)
(* each of its statements.                                                 *)
(***************************************************************************)
EXTENDS Lobby, TLAPS

USE MigrateAssumption, LobbyAssumption

-----------------------------------------------------------------------------
(* Steps *)

\* What a step of the servers leaves alone.
LEMMA ServersAlone ==
    ASSUME NEW s \in Server, Migrating(s) \/ Unanswered(s) \/ Die(s)
    PROVE  UNCHANGED <<driver, rooms, account, histories>>
BY DEF Migrating, Unanswered, Die, lobbyVars

\* Requests leave the servers alone.
LEMMA RequestsAlone ==
    ASSUME NEW w \in Worker, Creates(w) \/ Registers(w) \/ Fail(w)
    PROVE  UNCHANGED migrateVars /\ driver' = driver
BY DEF Creates, Registers, BeginRoom, Collide, InsertRoom, InsertOwner, MintSession,
       AnswerRoom, BeginRegister, CheckFree, InsertUser, AnswerUser, Fail

-----------------------------------------------------------------------------
(* Migrations *)

\* Where server s is against what is committed: every file before its own is, and
\* the file it has a transaction for is the next one.
Placed(s) ==
    /\ ~At(s, "down") /\ ~At(s, "create") =>
          boot[s].file \in Nat \ {0} /\ boot[s].file <= Len(schema) + 1
    /\ At(s, "apply") \/ At(s, "record") \/ At(s, "commit") => boot[s].file <= Ships[s]
    /\ At(s, "serving") => boot[s].file > Ships[s]
    /\ writer = s => boot[s].file = Len(schema) + 1
    /\ At(s, "record") \/ At(s, "commit") <=> writer = s

ServersInv ==
    /\ MigrateTypeOK
    /\ SchemaInOrder
    /\ recorded = 1 .. Len(schema)
    /\ \A s \in Server : Placed(s)

\* In a schema in order the files applied are the first ones.
LEMMA AppliedAreFirst ==
    ASSUME SchemaInOrder, schema \in Seq(1 .. Files), NEW file \in Nat
    PROVE  Applied(file) <=> file \in 1 .. Len(schema)
BY DEF SchemaInOrder, Applied

LEMMA BootStep ==
    ASSUME ServersInv, NEW s \in Server,
           Boot(s) \/ Create(s) \/ Lookup(s) \/ Serve(s) \/ Apply(s) \/ Record(s) \/ Stop(s)
    PROVE  ServersInv'
<1>1. schema' = schema /\ recorded' = recorded
    BY DEF Boot, Create, Lookup, Serve, Apply, Record, Stop, disk
<1>2. PICK b \in [at : {"down", "create", "lookup", "apply", "record", "commit", "serving"},
                  file : Nat] : boot' = [boot EXCEPT ![s] = b]
    BY DEF ServersInv, MigrateTypeOK, Boot, Create, Lookup, Serve, Apply, Record, Stop,
           Goto, Quit, Down
<1>3. MigrateTypeOK'
    <2>1. boot' \in [Server -> [at : {"down", "create", "lookup", "apply", "record", "commit",
                                     "serving"}, file : Nat]]
        BY <1>2 DEF ServersInv, MigrateTypeOK
    <2>2. table' \in BOOLEAN
        BY DEF ServersInv, MigrateTypeOK, Boot, Create, Lookup, Serve, Apply, Record, Stop, disk
    <2>3. writer' \in Server \cup {Null}
        BY DEF ServersInv, MigrateTypeOK, Boot, Create, Lookup, Serve, Apply, Record, Stop
    <2>4. faults' \in Nat
        BY DEF ServersInv, MigrateTypeOK, Boot, Create, Lookup, Serve, Apply, Record, Stop
    <2> QED
        BY <1>1, <2>1, <2>2, <2>3, <2>4 DEF ServersInv, MigrateTypeOK
<1>4. \A t \in Server : t # s => boot'[t] = boot[t] /\ (writer' = t <=> writer = t)
    <2> SUFFICES ASSUME NEW t \in Server, t # s
                 PROVE  boot'[t] = boot[t] /\ (writer' = t <=> writer = t)
        OBVIOUS
    <2>1. boot'[t] = boot[t]
        BY <1>2 DEF ServersInv, MigrateTypeOK
    <2>2. writer' = writer \/ (writer \in {s, Null} /\ writer' \in {s, Null})
        BY DEF ServersInv, Placed, Boot, Create, Lookup, Serve, Apply, Record, Stop
    <2> QED
        BY <2>1, <2>2
<1>5. ASSUME NEW t \in Server, t # s PROVE Placed(t)'
    BY <1>1, <1>4, <1>5 DEF ServersInv, Placed, At
<1>6. Placed(s)'
    <2>0. boot[s].file \in Nat /\ Len(schema) \in Nat /\ Ships[s] \in Nat /\ Placed(s) /\ boot'[s] = b
        BY <1>2 DEF ServersInv, MigrateTypeOK
    <2>1. CASE Boot(s) \/ Create(s) \/ Stop(s)
        BY <1>1, <1>2, <2>0, <2>1
        DEF Placed, Boot, Create, Stop, Goto, Quit, Down, At, ServersInv, MigrateTypeOK
    <2>2. CASE Lookup(s)
        BY <1>1, <1>2, <2>0, <2>2 DEF Placed, Lookup, Goto, At, ServersInv, MigrateTypeOK
    <2>3. CASE Serve(s)
        BY <1>1, <1>2, <2>0, <2>3 DEF Placed, Serve, Goto, At, ServersInv, MigrateTypeOK
    <2>4. CASE Apply(s)
        <3>1. CASE Applied(boot[s].file)
            BY <1>1, <1>2, <2>0, <2>4, <3>1
            DEF Placed, Apply, Quit, Down, At, ServersInv, MigrateTypeOK
        <3>2. CASE ~Applied(boot[s].file)
            <4>1. boot[s].file = Len(schema) + 1
                BY <2>0, <2>4, <3>2, AppliedAreFirst
                DEF Placed, Apply, At, ServersInv, MigrateTypeOK
            <4> QED
                BY <1>1, <1>2, <2>0, <2>4, <3>2, <4>1
                DEF Placed, Apply, Goto, At, ServersInv, MigrateTypeOK
        <3> QED
            BY <3>1, <3>2
    <2>5. CASE Record(s)
        BY <1>1, <1>2, <2>0, <2>5
        DEF Placed, Record, Goto, Quit, Down, At, ServersInv, MigrateTypeOK
    <2> QED
        BY <2>1, <2>2, <2>3, <2>4, <2>5
<1> QED
    BY <1>1, <1>3, <1>5, <1>6 DEF ServersInv, SchemaInOrder

\* A commit adds the next file: the only server with a transaction has found
\* neither it nor any later one applied.
LEMMA CommitStep ==
    ASSUME ServersInv, NEW s \in Server, Commit(s) \/ CommitUnanswered(s)
    PROVE  ServersInv'
<1>1. /\ At(s, "commit") /\ Committed(s) /\ faults' \in Nat
      /\ boot' = [boot EXCEPT ![s] = [at |-> "lookup", file |-> boot[s].file + 1]]
         \/ boot' = [boot EXCEPT ![s] = Down]
    BY DEF Commit, CommitUnanswered, Goto, Quit, ServersInv, MigrateTypeOK
<1>2. Placed(s) /\ writer = s /\ boot[s].file = Len(schema) + 1 /\ boot[s].file <= Ships[s]
    BY <1>1 DEF ServersInv, Placed
<1>3. Len(schema) \in Nat /\ Ships[s] \in 0 .. Files /\ boot[s].file \in 1 .. Files
    BY <1>2 DEF ServersInv, MigrateTypeOK
<1>4. /\ schema' \in Seq(1 .. Files) /\ Len(schema') = Len(schema) + 1
      /\ \A i \in 1 .. Len(schema) : schema'[i] = schema[i]
      /\ schema'[Len(schema) + 1] = Len(schema) + 1
    BY <1>1, <1>2, <1>3 DEF Committed, ServersInv, MigrateTypeOK
<1>5. SchemaInOrder'
    BY <1>3, <1>4 DEF ServersInv, SchemaInOrder
<1>6. recorded' = 1 .. Len(schema')
    BY <1>1, <1>2, <1>3, <1>4 DEF Committed, ServersInv
<1>7. MigrateTypeOK'
    <2>1. [at |-> "lookup", file |-> boot[s].file + 1]
             \in [at : {"down", "create", "lookup", "apply", "record", "commit", "serving"},
                 file : Nat]
        BY <1>3
    <2>2. PICK b \in [at : {"down", "create", "lookup", "apply", "record", "commit", "serving"},
                      file : Nat] : boot' = [boot EXCEPT ![s] = b]
        BY <1>1, <2>1 DEF Down
    <2>3. recorded' \subseteq 1 .. Files
        BY <1>1, <1>3 DEF Committed, ServersInv, MigrateTypeOK
    <2> QED
        BY <1>1, <1>4, <2>2, <2>3 DEF Committed, ServersInv, MigrateTypeOK
<1>8. ASSUME NEW t \in Server PROVE Placed(t)'
    <2>1. CASE t = s
        BY <1>1, <1>2, <1>3, <1>4, <2>1
        DEF Placed, At, Committed, Down, ServersInv, MigrateTypeOK
    <2>2. CASE t # s
        <3>1. boot'[t] = boot[t] /\ writer' # t /\ writer # t /\ Placed(t)
            BY <1>1, <1>2, <2>2 DEF Committed, ServersInv, MigrateTypeOK
        <3>2. boot[t].file \in Nat /\ Ships[t] \in Nat
            BY DEF ServersInv, MigrateTypeOK
        <3> QED
            BY <1>3, <1>4, <3>1, <3>2 DEF Placed, At
    <2> QED
        BY <2>1, <2>2
<1> QED
    BY <1>5, <1>6, <1>7, <1>8 DEF ServersInv

LEMMA ServersStep ==
    ASSUME ServersInv, [Next]_vars
    PROVE  ServersInv'
<1>1. CASE UNCHANGED migrateVars
    BY <1>1 DEF migrateVars, disk, ServersInv, MigrateTypeOK, SchemaInOrder, Placed, At
<1>2. ASSUME NEW s \in Server, Migrating(s) \/ Unanswered(s) \/ Die(s)
      PROVE  ServersInv'
    BY <1>2, BootStep, CommitStep DEF Migrating, Unanswered, Die, Advance
<1> QED
    BY <1>1, <1>2, RequestsAlone DEF Next, vars

THEOREM ServersInvariant == Spec => []ServersInv
<1>1. Init => ServersInv
    <2> SUFFICES ASSUME Init PROVE ServersInv
        OBVIOUS
    <2>1. schema = <<>> /\ Len(schema) = 0 /\ recorded = {} /\ 1 .. Len(schema) = {}
        BY DEF Init, MigrateInit
    <2>2. MigrateTypeOK
        <3>1. schema \in Seq(1 .. Files) /\ recorded \subseteq 1 .. Files
            BY <2>1
        <3>2. boot \in [Server -> [at : {"down", "create", "lookup", "apply", "record", "commit",
                                        "serving"}, file : Nat]]
            BY DEF Init, MigrateInit, Down
        <3> QED
            BY <3>1, <3>2 DEF Init, MigrateInit, MigrateTypeOK
    <2>3. \A s \in Server : Placed(s)
        BY DEF Init, MigrateInit, Placed, At, Down
    <2> QED
        BY <2>1, <2>2, <2>3 DEF ServersInv, SchemaInOrder
<1> QED
    BY <1>1, ServersStep, PTL DEF Spec

\* The schema is that of one boot, whoever booted together and died where.
THEOREM SchemaStaysInOrder == Spec => []SchemaInOrder
<1>1. ServersInv => SchemaInOrder
    BY DEF ServersInv
<1> QED
    BY <1>1, ServersInvariant, PTL

\* A serving server has its whole schema under it.
THEOREM ServersHaveSchema == Spec => []ServersFindSchema
<1>1. ServersInv => ServersFindSchema
    <2> SUFFICES ASSUME ServersInv, NEW s \in Server, At(s, "serving"),
                        NEW file \in 1 .. Ships[s]
                 PROVE  Applied(file)
        BY DEF ServersFindSchema
    <2>1. boot[s].file > Ships[s] /\ boot[s].file <= Len(schema) + 1 /\ boot[s].file \in Nat
        BY DEF ServersInv, Placed, At
    <2>2. Len(schema) \in Nat /\ Ships[s] \in Nat
        BY DEF ServersInv, MigrateTypeOK
    <2>3. file \in 1 .. Len(schema)
        BY <2>1, <2>2
    <2> QED
        BY <2>3, AppliedAreFirst DEF ServersInv, MigrateTypeOK
<1> QED
    BY <1>1, ServersInvariant, PTL

-----------------------------------------------------------------------------
(* Types of the lobby *)

Requests ==
    [at : {"idle", "room", "owner", "session", "answer", "free", "user", "welcome"},
     tries : 0 .. MaxTry - 1,
     id : RoomId \cup {Null}, email : Email \cup {Null}, who : Person \cup {Null}]

\* r has what a request at its point needs.
Fit(r) ==
    /\ r.at \in {"owner", "session", "answer"} => r.id \in RoomId
    /\ r.at \in {"free", "user", "welcome"} => r.email \in Email /\ r.who \in Person

LobbyTypeOK ==
    /\ driver \in {"sqlite", "libsql"}
    /\ code \in [RoomId -> Code \cup {Null}]
    /\ owned \subseteq RoomId /\ opened \subseteq RoomId
    /\ account \in [Email -> Person \cup {Null}]
    /\ req \in [Worker -> Requests]
    /\ \A w \in Worker : Fit(req[w]) /\ (~Stands(w, "idle") => At(Host[w], "serving"))

LEMMA IdleFits == Idle \in Requests /\ Fit(Idle)
BY DEF Idle, Requests, Fit

\* A request's step gives it a record that fits its new point, unless it names a
\* room that has no code yet.
LEMMA NewRequest ==
    ASSUME LobbyTypeOK, NEW w \in Worker, Creates(w) \/ Registers(w) \/ Fail(w)
    PROVE  \E r \in Requests : Fit(r) /\ req' = [req EXCEPT ![w] = r]
                               /\ (r.at # "idle" => At(Host[w], "serving"))
<1>0. req[w] \in Requests /\ Fit(req[w]) /\ (req[w].at # "idle" => At(Host[w], "serving"))
    BY DEF LobbyTypeOK, Stands
<1>1. CASE Finish(w)
    BY <1>1, IdleFits DEF Finish, Idle
<1>2. CASE BeginRoom(w)
    <2>1. [Idle EXCEPT !.at = "room"] \in Requests /\ Fit([Idle EXCEPT !.at = "room"])
        BY DEF Idle, Requests, Fit
    <2> QED
        BY <1>2, <2>1 DEF BeginRoom
<1>3. ASSUME NEW e \in Email, NEW p \in Person, BeginRegister(w, e, p)
      PROVE  \E r \in Requests : Fit(r) /\ req' = [req EXCEPT ![w] = r]
                                 /\ (r.at # "idle" => At(Host[w], "serving"))
    <2>1. PICK r1 \in Requests : r1 = [Idle EXCEPT !.at = "free"]
        BY IdleFits DEF Requests
    <2>2. PICK r2 \in Requests : r2 = [r1 EXCEPT !.email = e]
        BY DEF Requests
    <2>3. PICK r \in Requests : r = [r2 EXCEPT !.who = p]
        BY DEF Requests
    <2>4. r.email = e /\ r.who = p /\ r.at = "free"
        BY <2>1, <2>2, <2>3 DEF Requests, Idle
    <2>5. req' = [req EXCEPT ![w] = r] /\ At(Host[w], "serving")
        BY <1>3, <2>1, <2>2, <2>3 DEF BeginRegister
    <2> QED
        BY <2>4, <2>5 DEF Fit
<1>4. ASSUME NEW id \in RoomId, NEW c \in Code, Collide(w, id, c), ~Finish(w)
      PROVE  \E r \in Requests : Fit(r) /\ req' = [req EXCEPT ![w] = r]
                                 /\ (r.at # "idle" => At(Host[w], "serving"))
    <2>1. /\ req[w].at = "room" /\ req[w].tries + 1 < MaxTry
          /\ req' = [req EXCEPT ![w].tries = @ + 1]
        BY <1>4 DEF Collide, Stands
    <2>2. req[w].tries + 1 \in 0 .. MaxTry - 1
        BY <1>0, <2>1 DEF Requests
    <2>3. PICK r \in Requests : r = [req[w] EXCEPT !.tries = @ + 1]
        BY <1>0, <2>2 DEF Requests
    <2>4. Fit(r) /\ req' = [req EXCEPT ![w] = r] /\ At(Host[w], "serving")
        BY <1>0, <2>1, <2>3 DEF Fit, LobbyTypeOK, Requests
    <2> QED
        BY <2>4
<1>5. ASSUME NEW id \in RoomId, NEW c \in Code, InsertRoom(w, id, c)
      PROVE  \E r \in Requests : Fit(r) /\ req' = [req EXCEPT ![w] = r]
                                 /\ (r.at # "idle" => At(Host[w], "serving"))
    <2>1. req[w].at = "room" /\ req' = [req EXCEPT ![w].at = "owner", ![w].id = id]
        BY <1>5 DEF InsertRoom, Stands
    <2>2. PICK r \in Requests : r = [req[w] EXCEPT !.at = "owner", !.id = id]
        BY <1>0 DEF Requests
    <2>3. Fit(r) /\ req' = [req EXCEPT ![w] = r] /\ At(Host[w], "serving")
        BY <1>0, <2>1, <2>2 DEF Fit, LobbyTypeOK, Requests
    <2> QED
        BY <2>3
<1>6. ASSUME NEW from \in {"owner", "session", "free", "user"},
             NEW to \in {"session", "answer", "user", "welcome"},
             <<from, to>> \in {<<"owner", "session">>, <<"session", "answer">>,
                               <<"free", "user">>, <<"user", "welcome">>},
             Stands(w, from), Proceed(w, to)
      PROVE  \E r \in Requests : Fit(r) /\ req' = [req EXCEPT ![w] = r]
                                 /\ (r.at # "idle" => At(Host[w], "serving"))
    <2>1. PICK r \in Requests : r = [req[w] EXCEPT !.at = to]
        BY <1>0 DEF Requests
    <2>2. Fit(r) /\ req' = [req EXCEPT ![w] = r] /\ At(Host[w], "serving")
        BY <1>0, <1>6, <2>1 DEF Fit, LobbyTypeOK, Requests, Stands, Proceed
    <2> QED
        BY <2>2
<1>7. CASE InsertOwner(w)
    BY <1>6, <1>7 DEF InsertOwner
<1>8. CASE MintSession(w)
    BY <1>6, <1>8 DEF MintSession
<1>9. CASE CheckFree(w)
    BY <1>1, <1>6, <1>9 DEF CheckFree
<1>10. CASE InsertUser(w)
    BY <1>1, <1>6, <1>10 DEF InsertUser
<1> QED
    BY <1>1, <1>2, <1>3, <1>4, <1>5, <1>7, <1>8, <1>9, <1>10
    DEF Creates, Registers, Fail, AnswerRoom, AnswerUser

LEMMA RequestTypes ==
    ASSUME LobbyTypeOK, NEW w \in Worker, Creates(w) \/ Registers(w) \/ Fail(w)
    PROVE  LobbyTypeOK'
<1>1. PICK r \in Requests : /\ Fit(r) /\ req' = [req EXCEPT ![w] = r]
                            /\ r.at # "idle" => At(Host[w], "serving")
    BY NewRequest
<1>2. boot' = boot /\ driver' = driver
    BY RequestsAlone DEF migrateVars
<1>3. \A v \in Worker : Fit(req'[v]) /\ (~Stands(v, "idle") => At(Host[v], "serving"))'
    BY <1>1, <1>2 DEF LobbyTypeOK, Stands, At
<1>4. req' \in [Worker -> Requests]
    BY <1>1 DEF LobbyTypeOK
<1>5. CASE UNCHANGED <<rooms, account>>
    BY <1>2, <1>3, <1>4, <1>5 DEF LobbyTypeOK, rooms
<1>6. CASE \E id \in RoomId, c \in Code : InsertRoom(w, id, c)
    BY <1>2, <1>3, <1>4, <1>6 DEF LobbyTypeOK, InsertRoom
<1>7. CASE InsertOwner(w) \/ MintSession(w)
    <2>1. req[w].id \in RoomId
        BY <1>7 DEF InsertOwner, MintSession, Stands, LobbyTypeOK, Fit
    <2> QED
        BY <1>2, <1>3, <1>4, <1>7, <2>1 DEF LobbyTypeOK, InsertOwner, MintSession
<1>8. CASE InsertUser(w)
    <2>1. req[w].email \in Email /\ req[w].who \in Person
        BY <1>8 DEF InsertUser, Stands, LobbyTypeOK, Fit
    <2> QED
        BY <1>2, <1>3, <1>4, <1>8, <2>1 DEF LobbyTypeOK, InsertUser, rooms
<1> QED
    BY <1>5, <1>6, <1>7, <1>8
    DEF Creates, Registers, BeginRoom, Collide, AnswerRoom, BeginRegister, CheckFree,
        AnswerUser, Fail

\* A server that advances was not serving, and one that dies takes its requests
\* with it.
LEMMA ServerTypes ==
    ASSUME LobbyTypeOK, MigrateTypeOK,
           NEW s \in Server, Migrating(s) \/ Unanswered(s) \/ Die(s)
    PROVE  LobbyTypeOK'
<1>1. UNCHANGED <<driver, rooms, account>>
    BY ServersAlone
<1>2. \A t \in Server : t # s /\ At(t, "serving") => At(t, "serving")'
    <2>1. \E b : boot' = [boot EXCEPT ![s] = b]
        BY DEF Migrating, Unanswered, Die, Advance, Boot, Create, Lookup, Serve, Apply, Record,
               Commit, CommitUnanswered, Stop, Goto, Quit
    <2> QED
        BY <2>1 DEF At, MigrateTypeOK
<1>3. CASE Die(s)
    <2>1. req' = [w \in Worker |-> IF Host[w] = s THEN Idle ELSE req[w]]
        BY <1>3 DEF Die
    <2>2. \A w \in Worker : /\ req'[w] \in Requests /\ Fit(req'[w])
                            /\ ~Stands(w, "idle")' => At(Host[w], "serving")'
        BY <1>2, <2>1, IdleFits DEF LobbyTypeOK, Stands, Idle
    <2>3. req' \in [Worker -> Requests]
        BY <2>1, <2>2
    <2> QED
        BY <1>1, <2>2, <2>3 DEF LobbyTypeOK, rooms
<1>4. CASE Migrating(s) \/ Unanswered(s)
    <2>1. req' = req /\ ~At(s, "serving")
        BY <1>4 DEF Migrating, Unanswered, lobbyVars, Advance, Boot, Create, Lookup, Serve,
                    Apply, Record, Commit, CommitUnanswered, At
    <2>2. \A t \in Server : At(t, "serving") => At(t, "serving")'
        BY <1>2, <2>1
    <2> QED
        BY <1>1, <2>1, <2>2 DEF LobbyTypeOK, rooms, Stands
<1> QED
    BY <1>3, <1>4

LEMMA LobbyTypesStep ==
    ASSUME LobbyTypeOK, MigrateTypeOK, [Next]_vars
    PROVE  LobbyTypeOK'
<1>1. CASE UNCHANGED vars
    BY <1>1 DEF vars, migrateVars, lobbyVars, rooms, LobbyTypeOK, Stands, At
<1> QED
    BY <1>1, RequestTypes, ServerTypes DEF Next

LEMMA LobbyTypes == Spec => []LobbyTypeOK
<1>1. Init => LobbyTypeOK
    <2> SUFFICES ASSUME Init PROVE LobbyTypeOK
        OBVIOUS
    <2>1. req \in [Worker -> Requests] /\ \A w \in Worker : Fit(req[w]) /\ Stands(w, "idle")
        BY IdleFits DEF Init, Stands, Idle
    <2> QED
        BY <2>1 DEF Init, LobbyTypeOK
<1>2. ServersInv => MigrateTypeOK
    BY DEF ServersInv
<1> QED
    BY <1>1, <1>2, LobbyTypesStep, ServersInvariant, PTL DEF Spec

-----------------------------------------------------------------------------
(* Rooms and accounts *)

\* What the request of w has achieved of its room, or of its account.
Achieved(r) ==
    /\ r.at \in {"owner", "session", "answer"} => code[r.id] # Null
    /\ r.at \in {"session", "answer"} => r.id \in owned
    /\ r.at = "answer" => r.id \in opened
    /\ r.at = "welcome" => account[r.email] = r.who

RoomsKept ==
    /\ answered \subseteq [id : RoomId, code : Code]
    /\ \A r \in answered : code[r.id] = r.code /\ r.id \in owned /\ r.id \in opened

AccountsKept ==
    /\ welcomed \subseteq [email : Email, who : Person]
    /\ \A u \in welcomed : account[u.email] = u.who

CodesUnique == \A a, b \in RoomId : code[a] # Null /\ code[a] = code[b] => a = b

LobbyInv ==
    /\ LobbyTypeOK
    /\ CodesUnique
    /\ \A w \in Worker : Achieved(req[w])
    /\ RoomsKept
    /\ AccountsKept

\* Nothing that was written is ever overwritten.
LEMMA NothingLost ==
    ASSUME LobbyInv, NEW w \in Worker, Creates(w) \/ Registers(w) \/ Fail(w)
    PROVE  /\ \A id \in RoomId : code[id] # Null => code'[id] = code[id]
           /\ owned \subseteq owned' /\ opened \subseteq opened'
           /\ \A e \in Email : account[e] # Null => account'[e] = account[e]
<1>1. CASE UNCHANGED <<rooms, account>>
    BY <1>1 DEF rooms
<1>2. CASE \E id \in RoomId, c \in Code : InsertRoom(w, id, c)
    BY <1>2 DEF InsertRoom, Taken, LobbyInv, LobbyTypeOK
<1>3. CASE InsertOwner(w) \/ MintSession(w)
    BY <1>3 DEF InsertOwner, MintSession
<1>4. CASE InsertUser(w)
    BY <1>4 DEF InsertUser, rooms, LobbyInv, LobbyTypeOK
<1> QED
    BY <1>1, <1>2, <1>3, <1>4
    DEF Creates, Registers, BeginRoom, Collide, AnswerRoom, BeginRegister, CheckFree,
        AnswerUser, Fail

LEMMA CodesStep ==
    ASSUME LobbyInv, NEW w \in Worker, Creates(w) \/ Registers(w) \/ Fail(w)
    PROVE  CodesUnique'
<1>1. CASE code' = code
    BY <1>1 DEF LobbyInv, CodesUnique
<1>2. CASE \E id \in RoomId, c \in Code : InsertRoom(w, id, c)
    <2> SUFFICES ASSUME NEW id \in RoomId, NEW c \in Code, InsertRoom(w, id, c),
                        NEW a \in RoomId, NEW b \in RoomId,
                        code'[a] # Null, code'[a] = code'[b]
                 PROVE  a = b
        BY <1>2 DEF CodesUnique
    <2>1. code'[id] = c /\ \A other \in RoomId : code[other] # c
        BY DEF InsertRoom, Taken, LobbyInv, LobbyTypeOK
    <2>2. \A other \in RoomId : other # id => code'[other] = code[other]
        BY DEF InsertRoom, LobbyInv, LobbyTypeOK
    <2> QED
        BY <2>1, <2>2 DEF LobbyInv, CodesUnique
<1> QED
    BY <1>1, <1>2
    DEF Creates, Registers, BeginRoom, Collide, InsertOwner, MintSession, AnswerRoom,
        BeginRegister, CheckFree, InsertUser, AnswerUser, Fail, rooms

\* A request's next point is reached by the write that it stands for.
LEMMA AchievedStep ==
    ASSUME LobbyInv, NEW w \in Worker, Creates(w) \/ Registers(w) \/ Fail(w)
    PROVE  \A v \in Worker : Achieved(req[v])'
<1>0. req[w] \in Requests /\ Fit(req[w]) /\ Achieved(req[w])
    BY DEF LobbyInv, LobbyTypeOK
<1>1. \A v \in Worker : v # w => req'[v] = req[v]
    BY NewRequest DEF LobbyInv, LobbyTypeOK
<1>2. ASSUME NEW v \in Worker, v # w PROVE Achieved(req[v])'
    <2>1. req[v] \in Requests /\ Fit(req[v]) /\ Achieved(req[v]) /\ req'[v] = req[v]
        BY <1>1, <1>2 DEF LobbyInv, LobbyTypeOK
    <2>2. req[v].at = "welcome" => account[req[v].email] # Null
        BY <2>1 DEF Achieved, Fit
    <2> QED
        BY <2>1, <2>2, NothingLost DEF Achieved, Fit
<1>3. Achieved(req[w])'
    <2>1. CASE req'[w].at \in {"idle", "room", "free", "user"}
        BY <2>1 DEF Achieved
    <2>2. CASE \E id \in RoomId, c \in Code : InsertRoom(w, id, c)
        <3>1. PICK id \in RoomId, c \in Code : InsertRoom(w, id, c)
            BY <2>2
        <3>2. req'[w].at = "owner" /\ req'[w].id = id /\ code'[id] = c
            BY <1>0, <3>1 DEF InsertRoom, LobbyInv, LobbyTypeOK, Requests
        <3> QED
            BY <3>2 DEF Achieved
    <2>3. CASE InsertOwner(w)
        <3>1. req'[w].at = "session" /\ req'[w].id = req[w].id /\ req[w].at = "owner"
            BY <1>0, <2>3 DEF InsertOwner, Proceed, Stands, LobbyInv, LobbyTypeOK, Requests
        <3> QED
            BY <1>0, <2>3, <3>1 DEF Achieved, InsertOwner
    <2>4. CASE MintSession(w)
        <3>1. req'[w].at = "answer" /\ req'[w].id = req[w].id /\ req[w].at = "session"
            BY <1>0, <2>4 DEF MintSession, Proceed, Stands, LobbyInv, LobbyTypeOK, Requests
        <3> QED
            BY <1>0, <2>4, <3>1 DEF Achieved, MintSession
    <2>5. CASE InsertUser(w) /\ account[req[w].email] = Null
        <3>1. /\ req'[w].at = "welcome" /\ req'[w].email = req[w].email
              /\ req'[w].who = req[w].who /\ req[w].email \in Email
            BY <1>0, <2>5 DEF InsertUser, Proceed, Stands, LobbyInv, LobbyTypeOK, Requests, Fit
        <3>2. account'[req[w].email] = req[w].who
            BY <2>5, <3>1 DEF InsertUser, LobbyInv, LobbyTypeOK
        <3> QED
            BY <3>1, <3>2 DEF Achieved
    <2>6. CASE Finish(w)
        BY <2>1, <2>6 DEF Finish, Idle, LobbyInv, LobbyTypeOK
    <2>7. CASE BeginRoom(w)
        BY <2>1, <2>7 DEF BeginRoom, Idle, LobbyInv, LobbyTypeOK
    <2>8. CASE \E e \in Email, p \in Person : BeginRegister(w, e, p)
        <3>1. PICK e \in Email, p \in Person :
                 req' = [req EXCEPT ![w] = [Idle EXCEPT !.at = "free", !.email = e, !.who = p]]
            BY <2>8 DEF BeginRegister
        <3>2. req'[w].at = "free"
            BY <3>1 DEF Idle, LobbyInv, LobbyTypeOK
        <3> QED
            BY <2>1, <3>2
    <2>9. CASE req' = [req EXCEPT ![w].tries = @ + 1] /\ Stands(w, "room")
        BY <1>0, <2>1, <2>9 DEF Stands, LobbyInv, LobbyTypeOK, Requests
    <2>10. CASE Proceed(w, "user")
        BY <1>0, <2>1, <2>10 DEF Proceed, LobbyInv, LobbyTypeOK, Requests
    <2> QED
        BY <2>2, <2>3, <2>4, <2>5, <2>6, <2>7, <2>8, <2>9, <2>10
        DEF Creates, Registers, Collide, AnswerRoom, CheckFree, InsertUser, AnswerUser, Fail
<1> QED
    BY <1>2, <1>3

LEMMA RoomsKeptStep ==
    ASSUME LobbyInv, NEW w \in Worker, Creates(w) \/ Registers(w) \/ Fail(w)
    PROVE  RoomsKept'
<1>1. CASE answered' = answered
    BY <1>1, NothingLost DEF LobbyInv, RoomsKept
<1>2. CASE AnswerRoom(w)
    <2>1. req[w].at = "answer" /\ UNCHANGED rooms
        BY <1>2 DEF AnswerRoom, Stands
    <2>2. req[w].id \in RoomId /\ code[req[w].id] \in Code
          /\ req[w].id \in owned /\ req[w].id \in opened
        BY <2>1 DEF LobbyInv, LobbyTypeOK, Achieved, Fit
    <2>3. answered' = answered \cup {[id |-> req[w].id, code |-> code[req[w].id]]}
        BY <1>2 DEF AnswerRoom
    <2> QED
        BY <2>1, <2>2, <2>3 DEF LobbyInv, RoomsKept, rooms
<1> QED
    BY <1>1, <1>2
    DEF Creates, Registers, BeginRoom, Collide, InsertRoom, InsertOwner, MintSession,
        BeginRegister, CheckFree, InsertUser, AnswerUser, Fail, histories

LEMMA AccountsKeptStep ==
    ASSUME LobbyInv, NEW w \in Worker, Creates(w) \/ Registers(w) \/ Fail(w)
    PROVE  AccountsKept'
<1>1. CASE welcomed' = welcomed
    <2>1. \A u \in welcomed : u.email \in Email /\ account[u.email] = u.who /\ u.who # Null
        BY DEF LobbyInv, AccountsKept
    <2> QED
        BY <1>1, <2>1, NothingLost DEF LobbyInv, AccountsKept
<1>2. CASE AnswerUser(w)
    <2>1. req[w].at = "welcome" /\ account' = account
        BY <1>2 DEF AnswerUser, Stands
    <2>2. req[w].email \in Email /\ req[w].who \in Person /\ account[req[w].email] = req[w].who
        BY <2>1 DEF LobbyInv, LobbyTypeOK, Achieved, Fit
    <2>3. welcomed' = welcomed \cup {[email |-> req[w].email, who |-> req[w].who]}
        BY <1>2 DEF AnswerUser
    <2> QED
        BY <2>1, <2>2, <2>3 DEF LobbyInv, AccountsKept
<1> QED
    BY <1>1, <1>2
    DEF Creates, Registers, BeginRoom, Collide, InsertRoom, InsertOwner, MintSession,
        AnswerRoom, BeginRegister, CheckFree, InsertUser, Fail, histories

LEMMA LobbyStep ==
    ASSUME LobbyInv, MigrateTypeOK, [Next]_vars
    PROVE  LobbyInv'
<1>1. LobbyTypeOK'
    BY LobbyTypesStep DEF LobbyInv
<1>2. CASE UNCHANGED vars
    BY <1>1, <1>2
    DEF vars, lobbyVars, rooms, histories, LobbyInv, CodesUnique, Achieved, RoomsKept, AccountsKept
<1>3. ASSUME NEW s \in Server, Migrating(s) \/ Unanswered(s) \/ Die(s)
      PROVE  LobbyInv'
    <2>1. UNCHANGED <<driver, rooms, account, histories>>
        BY <1>3, ServersAlone
    <2>2. \A w \in Worker : req'[w] = req[w] \/ req'[w].at = "idle"
        BY <1>3 DEF Migrating, Unanswered, Die, lobbyVars, Idle
    <2>3. \A w \in Worker : Achieved(req[w])'
        BY <2>1, <2>2 DEF LobbyInv, Achieved, rooms
    <2> QED
        BY <1>1, <2>1, <2>3 DEF LobbyInv, CodesUnique, RoomsKept, AccountsKept, rooms, histories
<1>4. ASSUME NEW w \in Worker, Creates(w) \/ Registers(w) \/ Fail(w)
      PROVE  LobbyInv'
    BY <1>1, <1>4, CodesStep, AchievedStep, RoomsKeptStep, AccountsKeptStep DEF LobbyInv
<1> QED
    BY <1>2, <1>3, <1>4 DEF Next

THEOREM LobbyInvariant == Spec => []LobbyInv
<1>1. Init /\ LobbyTypeOK => LobbyInv
    BY DEF Init, LobbyInv, CodesUnique, Achieved, RoomsKept, AccountsKept, Idle
<1>2. ServersInv => MigrateTypeOK
    BY DEF ServersInv
<1> QED
    BY <1>1, <1>2, LobbyTypes, LobbyStep, ServersInvariant, PTL DEF Spec

\* Types, and requests only where a server serves.
THEOREM LobbyTypeCorrect == Spec => []TypeOK
<1>1. ServersInv /\ LobbyInv => TypeOK
    BY DEF ServersInv, LobbyInv, LobbyTypeOK, RoomsKept, AccountsKept, TypeOK, Fit, Requests
<1> QED
    BY <1>1, ServersInvariant, LobbyInvariant, PTL

\* The room and the code of whoever was answered are that creator's for good.
THEOREM AnsweredRoomsStand == Spec => []AnsweredRoomStands
<1>1. LobbyInv => AnsweredRoomStands
    <2> SUFFICES ASSUME LobbyInv, NEW r \in answered
                 PROVE  /\ {id \in RoomId : code[id] = r.code} = {r.id}
                        /\ r.id \in owned /\ r.id \in opened
        BY DEF AnsweredRoomStands
    <2>1. /\ r.id \in RoomId /\ code[r.id] = r.code /\ r.code # Null
          /\ r.id \in owned /\ r.id \in opened
        BY DEF LobbyInv, RoomsKept
    <2> QED
        BY <2>1 DEF LobbyInv, CodesUnique
<1> QED
    BY <1>1, LobbyInvariant, PTL

\* An account that was answered keeps the password it was made with.
THEOREM AnsweredAccountsStand == Spec => []AnsweredAccountStands
<1>1. LobbyInv => AnsweredAccountStands
    BY DEF LobbyInv, AccountsKept, AnsweredAccountStands
<1> QED
    BY <1>1, LobbyInvariant, PTL

-----------------------------------------------------------------------------
(* The registry *)

Serving == {s \in Server : At(s, "serving")}
Whole == owned \cap opened

\* A request with a room, or with an account, of its own that is not announced yet.
Makes(r) == r.at \in {"owner", "session", "answer"}
Enrolled(r) == r.at = "welcome"

\* No two requests make the same room or account, nor one that is announced.
OneMaker ==
    /\ \A v, w \in Worker : v # w /\ Makes(req[v]) /\ Makes(req[w]) => req[v].id # req[w].id
    /\ \A w \in Worker : Makes(req[w]) => \A r \in answered : r.id # req[w].id
    /\ \A v, w \in Worker :
          v # w /\ Enrolled(req[v]) /\ Enrolled(req[w]) => req[v].email # req[w].email
    /\ \A w \in Worker : Enrolled(req[w]) => \A u \in welcomed : u.email # req[w].email

\* How a request comes to make a room or an account.
LEMMA MakesBy ==
    ASSUME LobbyTypeOK, NEW w \in Worker, Creates(w) \/ Registers(w) \/ Fail(w)
    PROVE  /\ \A v \in Worker : v # w => req'[v] = req[v]
           /\ Makes(req'[w]) =>
                 \/ Makes(req[w]) /\ req'[w].id = req[w].id /\ UNCHANGED histories
                 \/ \E id \in RoomId, c \in Code : InsertRoom(w, id, c) /\ req'[w].id = id
           /\ Enrolled(req'[w]) =>
                 InsertUser(w) /\ account[req[w].email] = Null /\ req'[w].email = req[w].email
<1>0. req[w] \in Requests /\ req \in [Worker -> Requests]
    BY DEF LobbyTypeOK
<1> DEFINE Goal ==
        /\ Makes(req'[w]) =>
              \/ Makes(req[w]) /\ req'[w].id = req[w].id /\ UNCHANGED histories
              \/ \E id \in RoomId, c \in Code : InsertRoom(w, id, c) /\ req'[w].id = id
        /\ Enrolled(req'[w]) =>
              InsertUser(w) /\ account[req[w].email] = Null /\ req'[w].email = req[w].email
<1>1. \A v \in Worker : v # w => req'[v] = req[v]
    BY NewRequest DEF LobbyTypeOK
<1> SUFFICES Goal
    BY <1>1
<1>2. CASE req'[w].at \notin {"owner", "session", "answer", "welcome"}
    BY <1>2 DEF Makes, Enrolled
<1>3. ASSUME NEW id \in RoomId, NEW c \in Code, InsertRoom(w, id, c)
      PROVE  Goal
    <2>1. req'[w].at = "owner" /\ req'[w].id = id
        BY <1>0, <1>3 DEF InsertRoom, Requests
    <2> QED
        BY <1>3, <2>1 DEF Enrolled
<1>4. CASE InsertOwner(w) \/ MintSession(w)
    <2>1. Makes(req[w]) /\ req'[w].id = req[w].id /\ ~Enrolled(req'[w])
        BY <1>0, <1>4 DEF InsertOwner, MintSession, Proceed, Stands, Makes, Enrolled, Requests
    <2> QED
        BY <1>4, <2>1 DEF InsertOwner, MintSession
<1>5. CASE InsertUser(w) /\ account[req[w].email] = Null
    <2>1. req'[w].at = "welcome" /\ req'[w].email = req[w].email
        BY <1>0, <1>5 DEF InsertUser, Proceed, Requests
    <2> QED
        BY <1>5, <2>1 DEF Makes
<1>6. CASE Finish(w)
    BY <1>0, <1>2, <1>6 DEF Finish, Idle
<1>7. CASE BeginRoom(w)
    BY <1>0, <1>2, <1>7 DEF BeginRoom, Idle
<1>8. CASE \E e \in Email, p \in Person : BeginRegister(w, e, p)
    <2>1. req'[w].at = "free"
        BY <1>0, <1>8 DEF BeginRegister, Idle
    <2> QED
        BY <1>2, <2>1
<1>9. CASE req' = [req EXCEPT ![w].tries = @ + 1] /\ Stands(w, "room")
    BY <1>0, <1>2, <1>9 DEF Stands, Requests
<1>10. CASE Proceed(w, "user")
    BY <1>0, <1>2, <1>10 DEF Proceed, Requests
<1> QED
    BY <1>3, <1>4, <1>5, <1>6, <1>7, <1>8, <1>9, <1>10
    DEF Creates, Registers, Collide, AnswerRoom, CheckFree, InsertUser, AnswerUser, Fail

LEMMA OneMakerStep ==
    ASSUME LobbyInv, OneMaker, [Next]_vars
    PROVE  OneMaker'
<1>1. CASE UNCHANGED vars
    BY <1>1 DEF vars, lobbyVars, histories, OneMaker
<1>2. ASSUME NEW s \in Server, Migrating(s) \/ Unanswered(s) \/ Die(s)
      PROVE  OneMaker'
    <2>1. \A w \in Worker : req'[w] = req[w] \/ req'[w].at = "idle"
        BY <1>2 DEF Migrating, Unanswered, Die, lobbyVars, Idle
    <2>2. UNCHANGED histories
        BY <1>2, ServersAlone
    <2> QED
        BY <2>1, <2>2 DEF OneMaker, Makes, Enrolled, histories
<1>3. ASSUME NEW w \in Worker, Creates(w) \/ Registers(w) \/ Fail(w)
      PROVE  OneMaker'
    <2> USE DEF LobbyInv
    <2>1. \A v \in Worker : v # w => req'[v] = req[v]
        BY <1>3, MakesBy
    <2>2. ASSUME NEW v \in Worker, v # w, Makes(req[v]), Makes(req'[w])
          PROVE  req'[w].id # req[v].id
        <3>1. CASE Makes(req[w]) /\ req'[w].id = req[w].id
            BY <2>2, <3>1 DEF OneMaker
        <3>2. ASSUME NEW id \in RoomId, NEW c \in Code, InsertRoom(w, id, c), req'[w].id = id
              PROVE  req'[w].id # req[v].id
            BY <2>2, <3>2 DEF InsertRoom, Taken, Achieved, Makes
        <3> QED
            BY <1>3, <2>2, <3>1, <3>2, MakesBy
    <2>3. ASSUME NEW r \in answered, Makes(req'[w])
          PROVE  r.id # req'[w].id
        <3>1. CASE Makes(req[w]) /\ req'[w].id = req[w].id
            BY <2>3, <3>1 DEF OneMaker
        <3>2. ASSUME NEW id \in RoomId, NEW c \in Code, InsertRoom(w, id, c), req'[w].id = id
              PROVE  r.id # req'[w].id
            BY <2>3, <3>2 DEF InsertRoom, Taken, RoomsKept
        <3> QED
            BY <1>3, <2>3, <3>1, <3>2, MakesBy
    <2>4. answered' = answered \/ AnswerRoom(w)
        BY <1>3 DEF Creates, Registers, BeginRoom, Collide, InsertRoom, InsertOwner, MintSession,
                    BeginRegister, CheckFree, InsertUser, AnswerUser, Fail, histories
    <2>5. ASSUME AnswerRoom(w)
          PROVE  /\ Makes(req[w]) /\ ~Makes(req'[w])
                 /\ answered' = answered \cup {[id |-> req[w].id, code |-> code[req[w].id]]}
        BY <2>5 DEF AnswerRoom, Stands, Finish, Idle, Makes, LobbyTypeOK
    <2>6. ASSUME NEW v \in Worker, Makes(req'[v]), NEW r \in answered'
          PROVE  r.id # req'[v].id
        <3>1. CASE v = w
            BY <2>3, <2>4, <2>5, <2>6, <3>1
        <3>2. CASE v # w
            BY <2>1, <2>4, <2>5, <2>6, <3>2 DEF OneMaker
        <3> QED
            BY <3>1, <3>2
    <2>7. ASSUME Enrolled(req'[w])
          PROVE  /\ account[req'[w].email] = Null /\ req'[w].email \in Email
                 /\ welcomed' = welcomed
        <3>1. InsertUser(w) /\ account[req[w].email] = Null /\ req'[w].email = req[w].email
            BY <1>3, <2>7, MakesBy
        <3> QED
            BY <3>1 DEF InsertUser, Stands, LobbyTypeOK, Fit, histories
    <2>8. ASSUME NEW v \in Worker, v # w, Enrolled(req[v]), Enrolled(req'[w])
          PROVE  req'[w].email # req[v].email
        <3>1. account[req[v].email] = req[v].who /\ req[v].who # Null
            BY <2>8 DEF Achieved, Enrolled, LobbyTypeOK, Fit
        <3> QED
            BY <2>7, <2>8, <3>1
    <2>9. \A u \in welcomed : account[u.email] # Null
        BY DEF AccountsKept
    <2>10. welcomed' = welcomed \/ AnswerUser(w)
        BY <1>3 DEF Creates, Registers, BeginRoom, Collide, InsertRoom, InsertOwner, MintSession,
                    BeginRegister, CheckFree, InsertUser, AnswerRoom, Fail, histories
    <2>11. ASSUME AnswerUser(w)
           PROVE  /\ Enrolled(req[w])
                  /\ welcomed' = welcomed \cup {[email |-> req[w].email, who |-> req[w].who]}
        BY <2>11 DEF AnswerUser, Stands, Enrolled
    <2>12. ASSUME NEW v \in Worker, Enrolled(req'[v]), NEW u \in welcomed'
           PROVE  u.email # req'[v].email
        <3>1. CASE v = w
            BY <2>7, <2>9, <2>12, <3>1
        <3>2. CASE v # w
            BY <2>1, <2>10, <2>11, <2>12, <3>2 DEF OneMaker
        <3> QED
            BY <3>1, <3>2
    <2>13. \A u, v \in Worker :
              u # v /\ Makes(req'[u]) /\ Makes(req'[v]) => req'[u].id # req'[v].id
        BY <2>1, <2>2 DEF OneMaker
    <2>14. \A u, v \in Worker :
              u # v /\ Enrolled(req'[u]) /\ Enrolled(req'[v]) => req'[u].email # req'[v].email
        BY <2>1, <2>8 DEF OneMaker
    <2> QED
        BY <2>6, <2>12, <2>13, <2>14 DEF OneMaker, Makes, Enrolled
<1> QED
    BY <1>1, <1>2, <1>3 DEF Next

\* No room and no account has two makers: whoever is told of one is its only one.
THEOREM OneMakerEach == Spec => []OneMaker
<1>1. Init => OneMaker
    BY DEF Init, OneMaker, Makes, Enrolled, Idle
<1> QED
    BY <1>1, OneMakerStep, LobbyInvariant, PTL DEF Spec

\* A boot that neither serves nor begins to leaves those that serve alone.
LEMMA ServingStays ==
    ASSUME MigrateTypeOK, NEW s \in Server, ~At(s, "serving"),
           NEW point, NEW file, Goto(s, point, file) \/ Quit(s), point # "serving"
    PROVE  Serving' = Serving
<1>1. ASSUME NEW t \in Server
      PROVE  At(t, "serving")' <=> At(t, "serving")
    <2>1. /\ t # s => boot'[t] = boot[t]
          /\ boot'[s].at \in {point, "down"}
        BY DEF MigrateTypeOK, Goto, Quit, Down
    <2> QED
        BY <2>1 DEF At
<1> QED
    BY <1>1 DEF Serving

\* A boot is at most one upgrade, start or crash.
LEMMA RegistryServers ==
    ASSUME ServersInv, NEW s \in Server, Migrating(s) \/ Unanswered(s) \/ Die(s)
    PROVE  Shared!Next \/ UNCHANGED Shared!vars
<1>1. UNCHANGED <<driver, rooms, account, histories>>
    BY ServersAlone
<1>2. UNCHANGED <<code, Whole, answered, account, welcomed>>
    BY <1>1 DEF rooms, histories, Whole
<1>3. CASE schema' = schema /\ Serving' = Serving
    BY <1>2, <1>3 DEF Shared!vars, Shared!schema, Shared!rooms, Shared!accounts, Whole, Serving
<1>4. CASE Commit(s) \/ CommitUnanswered(s)
    <2>1. At(s, "commit") /\ Committed(s) /\ writer = s
        BY <1>4 DEF Commit, CommitUnanswered, ServersInv, Placed
    <2>2. boot[s].file = Len(schema) + 1 /\ boot[s].file <= Ships[s]
        BY <2>1 DEF ServersInv, Placed
    <2>3. Len(schema) \in Nat /\ Ships[s] \in 0 .. Files /\ boot[s].file \in 1 .. Files
        BY <2>2 DEF ServersInv, MigrateTypeOK
    <2>4. Len(schema') = Len(schema) + 1
        BY <2>1, <2>3 DEF Committed, ServersInv, MigrateTypeOK
    <2>5. Serving' = Serving
        <3>1. MigrateTypeOK /\ ~At(s, "serving")
            BY <2>1 DEF At, ServersInv
        <3>2. Goto(s, "lookup", boot[s].file + 1) \/ Quit(s)
            BY <1>4 DEF Commit, CommitUnanswered
        <3> QED
            BY <3>1, <3>2, ServingStays
    <2>6. Shared!Upgrade
        BY <1>2, <2>2, <2>3, <2>4, <2>5
        DEF Shared!Upgrade, Shared!rooms, Shared!accounts, Whole, Serving
    <2> QED
        BY <2>6 DEF Shared!Next
<1>5. CASE Serve(s)
    <2>1. boot[s].file > Ships[s] /\ boot[s].file <= Len(schema) + 1
        BY <1>5 DEF Serve, At, ServersInv, Placed
    <2>2. Len(schema) \in Nat /\ Ships[s] \in Nat /\ boot[s].file \in Nat
        BY DEF ServersInv, MigrateTypeOK
    <2>3. Serving' = Serving \cup {s} /\ schema' = schema
        BY <1>5 DEF Serve, Goto, At, Serving, disk, ServersInv, MigrateTypeOK
    <2>4. Shared!Start(s)
        BY <1>2, <2>1, <2>2, <2>3 DEF Shared!Start, Shared!rooms, Shared!accounts, Whole, Serving
    <2> QED
        BY <2>4 DEF Shared!Next
<1>6. CASE Stop(s)
    <2>1. Serving' = Serving \ {s} /\ schema' = schema
        BY <1>6 DEF Stop, Quit, Down, At, Serving, disk, ServersInv, MigrateTypeOK
    <2>2. Shared!Crash(s)
        BY <1>2, <2>1 DEF Shared!Crash, Shared!rooms, Shared!accounts, Whole, Serving
    <2> QED
        BY <2>2 DEF Shared!Next
<1>7. CASE Boot(s) \/ Create(s) \/ Lookup(s) \/ Apply(s) \/ Record(s)
    <2>1. schema' = schema
        BY <1>7 DEF Boot, Create, Lookup, Apply, Record, disk
    <2>2. Serving' = Serving
        <3>1. MigrateTypeOK /\ ~At(s, "serving")
            BY <1>7 DEF Boot, Create, Lookup, Apply, Record, At, ServersInv
        <3>2. \E point \in {"create", "lookup", "apply", "record", "commit"},
                 file \in {0, 1, boot[s].file, boot[s].file + 1} :
                 Goto(s, point, file) \/ Quit(s)
            BY <1>7 DEF Boot, Create, Lookup, Apply, Record
        <3> QED
            BY <3>1, <3>2, ServingStays
    <2> QED
        BY <1>3, <2>1, <2>2
<1> QED
    BY <1>4, <1>5, <1>6, <1>7 DEF Migrating, Unanswered, Die, Advance

\* A statement of a request is at most one step of the registry.
LEMMA RegistryRequests ==
    ASSUME LobbyInv, OneMaker, NEW w \in Worker, Creates(w) \/ Registers(w) \/ Fail(w)
    PROVE  Shared!Next \/ UNCHANGED Shared!vars
<1> USE DEF LobbyInv
<1>0. req[w] \in Requests /\ Fit(req[w]) /\ Achieved(req[w])
    BY DEF LobbyTypeOK
<1>1. schema' = schema /\ Serving' = Serving
    BY RequestsAlone DEF migrateVars, disk, Serving, At
<1>2. ~Stands(w, "idle") => Serving # {}
    BY DEF LobbyTypeOK, Serving
<1>3. ~Stands(w, "idle") => Shared!Served
    BY <1>1, <1>2 DEF Shared!Served, Shared!schema, Serving
<1>4. CASE UNCHANGED <<code, Whole, answered, account, welcomed>>
    BY <1>1, <1>4 DEF Shared!vars, Shared!schema, Shared!rooms, Shared!accounts, Whole, Serving
<1>5. ASSUME NEW id \in RoomId, NEW c \in Code, InsertRoom(w, id, c)
      PROVE  Shared!Next
    <2>1. ~Stands(w, "idle") /\ code[id] = Null /\ \A other \in RoomId : code[other] # c
        BY <1>5 DEF InsertRoom, Stands, Taken
    <2>2. Shared!Reserve(id, c)
        BY <1>3, <1>5, <2>1 DEF Shared!Reserve, Shared!accounts, InsertRoom, histories
    <2> QED
        BY <2>2 DEF Shared!Next
<1>6. CASE InsertOwner(w) \/ MintSession(w)
    <2>1. ~Stands(w, "idle") /\ req[w].id \in RoomId /\ code[req[w].id] # Null
        BY <1>0, <1>6 DEF InsertOwner, MintSession, Stands, Fit, Achieved
    <2>2. UNCHANGED <<code, answered, account, welcomed>>
        BY <1>6 DEF InsertOwner, MintSession, histories
    <2>3. Whole' = Whole \/ Whole' = Whole \cup {req[w].id}
        BY <1>6 DEF InsertOwner, MintSession, Whole
    <2>4. CASE Whole' = Whole \cup {req[w].id}
        <3>1. Shared!Complete(req[w].id)
            BY <1>3, <2>1, <2>2, <2>4 DEF Shared!Complete, Shared!accounts, Whole
        <3> QED
            BY <2>1, <3>1 DEF Shared!Next
    <2> QED
        BY <1>4, <2>2, <2>3, <2>4
<1>7. CASE AnswerRoom(w)
    <2>1. ~Stands(w, "idle") /\ req[w].id \in RoomId /\ Makes(req[w])
        BY <1>0, <1>7 DEF AnswerRoom, Stands, Fit, Makes
    <2>2. req[w].id \in Whole /\ \A r \in answered : r.id # req[w].id
        BY <1>0, <1>7, <2>1 DEF AnswerRoom, Stands, Achieved, OneMaker, Whole
    <2>3. Shared!Answer(req[w].id)
        BY <1>3, <1>7, <2>1, <2>2 DEF Shared!Answer, Shared!accounts, AnswerRoom, rooms, Whole
    <2> QED
        BY <2>1, <2>3 DEF Shared!Next
<1>8. CASE InsertUser(w)
    <2>1. ~Stands(w, "idle") /\ req[w].email \in Email /\ req[w].who \in Person
        BY <1>0, <1>8 DEF InsertUser, Stands, Fit
    <2>2. UNCHANGED <<code, Whole, answered, welcomed>>
        BY <1>8 DEF InsertUser, rooms, histories, Whole
    <2>3. CASE account[req[w].email] = Null
        <3>1. Shared!Enrol(req[w].email, req[w].who)
            BY <1>3, <1>8, <2>1, <2>2, <2>3 DEF Shared!Enrol, Shared!rooms, InsertUser, Whole
        <3> QED
            BY <2>1, <3>1 DEF Shared!Next
    <2>4. CASE account[req[w].email] # Null
        BY <1>4, <1>8, <2>2, <2>4 DEF InsertUser
    <2> QED
        BY <2>3, <2>4
<1>9. CASE AnswerUser(w)
    <2>1. ~Stands(w, "idle") /\ req[w].email \in Email /\ req[w].who \in Person
        BY <1>0, <1>9 DEF AnswerUser, Stands, Fit
    <2>2. account[req[w].email] = req[w].who /\ \A u \in welcomed : u.email # req[w].email
        BY <1>0, <1>9 DEF AnswerUser, Stands, Achieved, OneMaker, Enrolled
    <2>3. Shared!Welcome(req[w].email)
        BY <1>3, <1>9, <2>1, <2>2 DEF Shared!Welcome, Shared!rooms, AnswerUser, rooms, Whole
    <2> QED
        BY <2>1, <2>3 DEF Shared!Next
<1>10. CASE \/ BeginRoom(w) \/ CheckFree(w) \/ Fail(w)
            \/ \E id \in RoomId, c \in Code : Collide(w, id, c)
            \/ \E e \in Email, p \in Person : BeginRegister(w, e, p)
    BY <1>4, <1>10
    DEF BeginRoom, CheckFree, Fail, Collide, BeginRegister, rooms, histories, Whole
<1> QED
    BY <1>5, <1>6, <1>7, <1>8, <1>9, <1>10 DEF Creates, Registers

\* To its clients the deployment is one registry, however many servers and requests
\* there are, whatever collides, fails or dies, and with either driver.
THEOREM LobbyImplementsRegistry == Spec => ImplementsRegistry
<1>1. Init => Shared!Init
    BY DEF Init, MigrateInit, Shared!Init, At, Down
<1>2. ServersInv /\ LobbyInv /\ OneMaker /\ [Next]_vars => [Shared!Next]_(Shared!vars)
    <2> SUFFICES ASSUME ServersInv, LobbyInv, OneMaker, [Next]_vars
                 PROVE  Shared!Next \/ UNCHANGED Shared!vars
        OBVIOUS
    <2>1. CASE UNCHANGED vars
        BY <2>1
        DEF vars, migrateVars, disk, lobbyVars, rooms, histories, At, Shared!vars, Shared!schema,
            Shared!rooms, Shared!accounts
    <2> QED
        BY <2>1, RegistryServers, RegistryRequests DEF Next
<1>3. Spec => []OneMaker
    BY OneMakerEach
<1> QED
    BY <1>1, <1>2, <1>3, ServersInvariant, LobbyInvariant, PTL
    DEF Spec, ImplementsRegistry, Shared!Spec

=============================================================================
