------------------------------- MODULE Lobby -------------------------------
(***************************************************************************)
(* What is created outside any room, by requests to servers that share one *)
(* database (module Migrate): rooms, with their ids and join codes, and    *)
(* accounts.  The database's unique columns arbitrate between requests;    *)
(* the statements of a request are separate, and a request dies with its   *)
(* server.                                                                 *)
(*                                                                         *)
(* Of a room only its id and code matter here, and whether its owner has a *)
(* row and a session: what happens in it is module RoomService.  Of an     *)
(* account, its e-mail and whose password it has.                          *)
(***************************************************************************)
EXTENDS Migrate

CONSTANTS
    Worker,   \* BOUND: requests in flight at once
    Host,     \* Host[w]: the server whose goroutine w is
    RoomId,   \* BOUND: the random ids NewRoomID may draw
    Code,     \* BOUND: the random codes NewJoinCode may draw
    MaxTry,   \* maxCodeTry
    Email,
    Person    \* who register, each with a password of their own

ASSUME LobbyAssumption ==
    /\ Host \in [Worker -> Server]
    /\ Null \notin RoomId \cup Code \cup Person
    /\ MaxTry \in Nat \ {0}

VARIABLES
    driver,    \* "sqlite" for a local file, "libsql" for a remote database
    code,      \* code[id]: the join code of room id, Null if there is none
    owned,     \* the rooms whose owner has a room_participants row
    opened,    \* the rooms whose owner has a session
    account,   \* account[e]: whose password the account of e has, or Null
    req,       \* req[w]: the request worker w serves
    answered,  \* history: rooms whose creator was answered, with their codes
    welcomed   \* history: registrations that were answered

rooms == <<code, owned, opened>>
histories == <<answered, welcomed>>
lobbyVars == <<driver, rooms, account, req, histories>>
vars == <<migrateVars, lobbyVars>>

Idle == [at |-> "idle", tries |-> 0, id |-> Null, email |-> Null, who |-> Null]

Init ==
    /\ MigrateInit
    /\ driver \in {"sqlite", "libsql"}
    /\ code = [id \in RoomId |-> Null]
    /\ owned = {} /\ opened = {}
    /\ account = [e \in Email |-> Null]
    /\ req = [w \in Worker |-> Idle]
    /\ answered = {} /\ welcomed = {}

Stands(w, point) == req[w].at = point
Proceed(w, point) == req' = [req EXCEPT ![w].at = point]
Finish(w) == req' = [req EXCEPT ![w] = Idle]

-----------------------------------------------------------------------------
(* CreateRoom *)

BeginRoom(w) ==
    /\ At(Host[w], "serving") /\ Stands(w, "idle")
    /\ req' = [req EXCEPT ![w] = [Idle EXCEPT !.at = "room"]]
    /\ UNCHANGED <<migrateVars, driver, rooms, account, histories>>

Taken(id, c) == code[id] # Null \/ \E other \in RoomId : code[other] = c

\* IsUniqueViolation knows the errors of the local driver only.
IsUniqueViolation == driver = "sqlite"

\* Mutation: once too often.
CollideOnceMore(w, id, c) ==
    /\ Stands(w, "room") /\ Taken(id, c)
    /\ IF IsUniqueViolation /\ req[w].tries < MaxTry
       THEN req' = [req EXCEPT ![w].tries = @ + 1]
       ELSE Finish(w)
    /\ UNCHANGED <<migrateVars, driver, rooms, account, histories>>

\* A collision is tried again with another id and code, MaxTry times in all; one
\* that is not recognised is an error like any other.
Collide(w, id, c) ==
    /\ Stands(w, "room") /\ Taken(id, c)
    /\ IF IsUniqueViolation /\ req[w].tries + 1 < MaxTry
       THEN req' = [req EXCEPT ![w].tries = @ + 1]
       ELSE Finish(w)
    /\ UNCHANGED <<migrateVars, driver, rooms, account, histories>>

\* Mutation: the code's column is not unique.
InsertRoomAnyCode(w, id, c) ==
    /\ Stands(w, "room") /\ code[id] = Null
    /\ code' = [code EXCEPT ![id] = c]
    /\ req' = [req EXCEPT ![w].at = "owner", ![w].id = id]
    /\ UNCHANGED <<migrateVars, driver, owned, opened, account, histories>>

InsertRoom(w, id, c) ==
    /\ Stands(w, "room") /\ ~Taken(id, c)
    /\ code' = [code EXCEPT ![id] = c]
    /\ req' = [req EXCEPT ![w].at = "owner", ![w].id = id]
    /\ UNCHANGED <<migrateVars, driver, owned, opened, account, histories>>

InsertOwner(w) ==
    /\ Stands(w, "owner")
    /\ owned' = owned \cup {req[w].id}
    /\ Proceed(w, "session")
    /\ UNCHANGED <<migrateVars, driver, code, opened, account, histories>>

MintSession(w) ==
    /\ Stands(w, "session")
    /\ opened' = opened \cup {req[w].id}
    /\ Proceed(w, "answer")
    /\ UNCHANGED <<migrateVars, driver, code, owned, account, histories>>

\* Before it a LOCAL room's LAN address is written, which the server never reads
\* for itself and whose failure is ignored.
AnswerRoom(w) ==
    /\ Stands(w, "answer")
    /\ answered' = answered \cup {[id |-> req[w].id, code |-> code[req[w].id]]}
    /\ Finish(w)
    /\ UNCHANGED <<migrateVars, driver, rooms, account, welcomed>>

-----------------------------------------------------------------------------
(* Accounts *)

BeginRegister(w, e, p) ==
    /\ At(Host[w], "serving") /\ Stands(w, "idle")
    /\ req' = [req EXCEPT ![w] = [Idle EXCEPT !.at = "free", !.email = e, !.who = p]]
    /\ UNCHANGED <<migrateVars, driver, rooms, account, histories>>

\* GetUserByEmail: an error of whatever kind is taken for an e-mail nobody has.
CheckFree(w) ==
    /\ Stands(w, "free")
    /\ \/ account[req[w].email] # Null /\ Finish(w)
       \/ Proceed(w, "user")
    /\ UNCHANGED <<migrateVars, driver, rooms, account, histories>>

\* Mutation: the account is replaced if there is one by now.
ReplaceUser(w) ==
    /\ Stands(w, "user")
    /\ account' = [account EXCEPT ![req[w].email] = req[w].who]
    /\ Proceed(w, "welcome")
    /\ UNCHANGED <<migrateVars, driver, rooms, histories>>

\* The UNIQUE column decides; the loser is answered 500.
InsertUser(w) ==
    /\ Stands(w, "user")
    /\ IF account[req[w].email] = Null
       THEN /\ account' = [account EXCEPT ![req[w].email] = req[w].who]
            /\ Proceed(w, "welcome")
       ELSE Finish(w) /\ UNCHANGED account
    /\ UNCHANGED <<migrateVars, driver, rooms, histories>>

AnswerUser(w) ==
    /\ Stands(w, "welcome")
    /\ welcomed' = welcomed \cup {[email |-> req[w].email, who |-> req[w].who]}
    /\ Finish(w)
    /\ UNCHANGED <<migrateVars, driver, rooms, account, answered>>

-----------------------------------------------------------------------------
(* Failures, and the servers *)

\* A statement fails or the client goes away: what was written stays.
Fail(w) ==
    /\ ~Stands(w, "idle")
    /\ Finish(w)
    /\ UNCHANGED <<migrateVars, driver, rooms, account, histories>>

\* The goroutines of a server die with it.
Die(s) ==
    /\ Stop(s)
    /\ req' = [w \in Worker |-> IF Host[w] = s THEN Idle ELSE req[w]]
    /\ UNCHANGED <<driver, rooms, account, histories>>

Migrating(s) == Advance(s) /\ UNCHANGED lobbyVars

Unanswered(s) == CommitUnanswered(s) /\ UNCHANGED lobbyVars

Creates(w) ==
    \/ BeginRoom(w)
    \/ \E id \in RoomId, c \in Code : Collide(w, id, c) \/ InsertRoom(w, id, c)
    \/ InsertOwner(w) \/ MintSession(w) \/ AnswerRoom(w)

Registers(w) ==
    \/ \E e \in Email, p \in Person : BeginRegister(w, e, p)
    \/ CheckFree(w) \/ InsertUser(w) \/ AnswerUser(w)

Next ==
    \/ \E s \in Server : Migrating(s) \/ Unanswered(s) \/ Die(s)
    \/ \E w \in Worker : Creates(w) \/ Registers(w) \/ Fail(w)

Spec == Init /\ [][Next]_vars

\* A process that died is started again, and a boot takes its next step; the
\* database's lock is free in between.  Nothing is assumed of requests.
Fairness == \A s \in Server : WF_vars(Migrating(s))

FairSpec == Spec /\ Fairness

-----------------------------------------------------------------------------

\* Type of the servers, the tables and the requests; only a server that serves has
\* requests in flight.
TypeOK ==
    /\ MigrateTypeOK
    /\ driver \in {"sqlite", "libsql"}
    /\ code \in [RoomId -> Code \cup {Null}]
    /\ owned \subseteq RoomId /\ opened \subseteq RoomId
    /\ account \in [Email -> Person \cup {Null}]
    /\ req \in [Worker ->
          [at : {"idle", "room", "owner", "session", "answer", "free", "user", "welcome"},
           tries : 0 .. MaxTry - 1,
           id : RoomId \cup {Null}, email : Email \cup {Null}, who : Person \cup {Null}]]
    /\ \A w \in Worker : /\ req[w].at \in {"owner", "session", "answer"} => req[w].id \in RoomId
                         /\ req[w].at \in {"free", "user", "welcome"}
                               => req[w].email \in Email /\ req[w].who \in Person
    /\ \A w \in Worker : ~Stands(w, "idle") => At(Host[w], "serving")
    /\ answered \subseteq [id : RoomId, code : Code]
    /\ welcomed \subseteq [email : Email, who : Person]

\* A creator who was answered has a room that its code leads to and no other room
\* ever takes over, with an owner's row and session: whatever ids and codes other
\* requests and other servers draw, and however they fail.
AnsweredRoomStands ==
    \A r \in answered :
       /\ {id \in RoomId : code[id] = r.code} = {r.id}
       /\ r.id \in owned /\ r.id \in opened

\* Whoever was told that the account exists can log in with the password it was
\* made with, for good: a registration of the same e-mail that raced it past the
\* check has not replaced it.
AnsweredAccountStands == \A u \in welcomed : account[u.email] = u.who

Shared == INSTANCE Registry WITH
    version <- Len(schema),
    up <- {s \in Server : At(s, "serving")},
    whole <- owned \cap opened

\* To clients the servers and their interleaved, failing and dying requests are one
\* registry: a server up has its schema, a code is given to one room and a room to
\* one creator, and nobody hears of a room that is not whole or of an account that
\* somebody else has made.
ImplementsRegistry == Shared!Spec

=============================================================================
