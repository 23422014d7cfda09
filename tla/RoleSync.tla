------------------------------ MODULE RoleSync ------------------------------
(***************************************************************************)
(* How a role reaches those who act on it.  A participant's role lives in  *)
(* its row; each WebSocket connection and LiveKit hold a copy.  A handler  *)
(* that has written a role runs syncRoomRoles: it lists the room, pushes   *)
(* each listed role to the connection in the hub's table, and leaves the   *)
(* publish rights to a goroutine that tells LiveKit, one participant after *)
(* the other, within a deadline.  Copies are also made by a WebSocket's    *)
(* handshake and by a LiveKit token, which carry the role read when they   *)
(* were authenticated.                                                     *)
(*                                                                         *)
(* Whoever's id a handler names gets the role, in whatever room; the sync  *)
(* that follows is of the caller's room.  So a host of another room        *)
(* changes roles here and nobody here is told.                             *)
(*                                                                         *)
(* The rows are module Roster, the hub's table module Directory.  LiveKit  *)
(* is external, modelled from what token.go asks of it.                    *)
(***************************************************************************)
EXTENDS Permissions, Naturals

CONSTANTS
    Conn, Participant, Of, Null,  \* as in Directory
    Owner,       \* the creator, whose row is there from the start
    Worker,      \* BOUND: handlers that change roles at once, with a goroutine each
    Roles,       \* the roles given out in this instance
    Online,      \* the room's mode: only ONLINE rooms use LiveKit
    CrossRoom,   \* whether hosts name participants of each other's rooms
    MaxChanges,  \* BOUND: how many roles are written in all
    Faults       \* what may go wrong in this instance, see FaultName

\* failure: ListParticipants or GetRoom returns an error; livekit: an update
\* is lost, or the goroutine's deadline passes.
FaultName == {"failure", "livekit"}

ASSUME RoleSyncAssumption ==
    /\ Of \in [Conn -> Participant]
    /\ Null \notin Conn \cup Participant \cup Role
    /\ Roles \subseteq Role /\ DefaultRoleForNewParticipant \in Role
    /\ Online \in BOOLEAN /\ CrossRoom \in BOOLEAN /\ MaxChanges \in Nat
    /\ Faults \subseteq FaultName

VARIABLES
    joined, listed, role,  \* the rows, see Roster
    stage, entry,          \* the hub's table, see Directory
    cached,   \* cached[c]: the role connection c carries, once authenticated
    sync,     \* sync[w]: the handler w, from its write to the end of syncRoomRoles
    job,      \* job[w]: the goroutine w's last sync has left behind
    wire,     \* updates sent to LiveKit and not executed yet
    media,    \* media[p]: whether p is connected to LiveKit, and may publish
    tokens,   \* LiveKit tokens minted; each is good for 24 h, however often used
    changes,  \* how many roles handlers of this room have written, anywhere
    outside,  \* how many roles of this room those of other rooms have written
    late,     \* history: handshakes that read a row since written
    old       \* history: tokens minted from a row since written

Rows == INSTANCE Roster
Hub == INSTANCE Directory

rows == <<joined, listed, role>>
table == <<stage, entry>>
livekit == <<wire, media, tokens>>
history == <<late, old>>
written == <<changes, outside>>
vars == <<rows, table, cached, sync, job, livekit, written, history>>

-----------------------------------------------------------------------------

Nobody == [p \in Participant |-> Null]

Idle == [at |-> "idle", list |-> Nobody, left |-> {}]

\* list: the roles to tell; left: whom it has still to be told of; for: whose
\* answer it waits for.
Done == [list |-> Nobody, left |-> {}, for |-> Null]

Right(r) == IF CanPublish(r) THEN "publish" ELSE "view"

Update == [from : Worker, to : Participant, right : {"publish", "view"}]

Init ==
    /\ joined = {Owner} \cap Participant /\ listed = joined
    /\ role = [p \in Participant |->
                 IF p = Owner THEN "OWNER" ELSE DefaultRoleForNewParticipant]
    /\ Hub!Init
    /\ cached = [c \in Conn |-> Null]
    /\ sync = [w \in Worker |-> Idle]
    /\ job = [w \in Worker |-> Done]
    /\ wire = {} /\ tokens = {}
    /\ media = [p \in Participant |-> "out"]
    /\ changes = 0 /\ outside = 0
    /\ late = {} /\ old = {}

\* A sync is about to push w's copy of p's role.
ToPush(w, p) == sync[w].at = "push" /\ p \in sync[w].left

\* Handler w has a role of p to hand to its goroutine, or the goroutine has.
ToLaunch(w, p) == sync[w].at = "push" /\ sync[w].list[p] # Null
ToTell(w, p) == p \in job[w].left \cup {job[w].for}

-----------------------------------------------------------------------------
(* The handlers that change roles *)

\* UpdateParticipantRole, by its id alone.
WriteRole(p, r) ==
    /\ Rows!SetRole(p, r)
    /\ late' = late \cup {c \in Conn : Of[c] = p /\ stage[c] = "away" /\ cached[c] # Null}
    /\ old' = old \cup {t \in tokens : t.to = p}

\* A handler here that has authorised its caller.
Changes(w) ==
    /\ sync[w].at \in {"idle", "list"}
    /\ changes + outside < MaxChanges
    /\ changes' = changes + 1 /\ UNCHANGED outside

\* Mutation: the write is not followed by a sync.
ChangeRoleSilently(w, p, r) ==
    /\ Changes(w)
    /\ WriteRole(p, r)
    /\ UNCHANGED <<table, cached, sync, job, livekit>>

\* ChangeRole writes once, a transfer up to twice.
ChangeRole(w, p, r) ==
    /\ Changes(w)
    /\ WriteRole(p, r)
    /\ sync' = [sync EXCEPT ![w].at = "list"]
    /\ UNCHANGED <<table, cached, job, livekit>>

\* Whoever is named is of another room: no row of this one is written, and it is
\* this one that is told.
ChangeRoleElsewhere(w) ==
    /\ CrossRoom
    /\ Changes(w)
    /\ sync' = [sync EXCEPT ![w].at = "list"]
    /\ UNCHANGED <<rows, table, cached, job, livekit, history>>

\* The caller is of another room, and so is the sync.
ChangeRoleFromElsewhere(p, r) ==
    /\ CrossRoom
    /\ changes + outside < MaxChanges
    /\ outside' = outside + 1 /\ UNCHANGED changes
    /\ WriteRole(p, r)
    /\ UNCHANGED <<table, cached, sync, job, livekit>>

\* Mutation: those who have left are still told.
ListEverybody(w) ==
    /\ sync[w].at = "list"
    /\ sync' = [sync EXCEPT ![w] =
                  [at |-> "push",
                   list |-> [p \in Participant |-> IF p \in listed THEN role[p] ELSE Null],
                   left |-> Participant]]
    /\ UNCHANGED <<rows, table, cached, job, livekit, written, history>>

ListParticipants(w) ==
    /\ sync[w].at = "list"
    /\ sync' = [sync EXCEPT ![w] =
                  [at |-> "push",
                   list |-> [p \in Participant |-> IF p \in listed THEN role[p] ELSE Null],
                   left |-> listed]]
    /\ UNCHANGED <<rows, table, cached, job, livekit, written, history>>

\* It fails, or a later statement of the transfer has: nobody is told of what has
\* been written.
SyncAbandoned(w) ==
    /\ "failure" \in Faults
    /\ sync[w].at = "list"
    /\ sync' = [sync EXCEPT ![w] = Idle]
    /\ UNCHANGED <<rows, table, cached, job, livekit, written, history>>

\* RoomHub.SetParticipantRole: the connection in the table, if there is one.  Its
\* lookup and SetRole are one step: a connection that is superseded in between is
\* nobody's any more, and two syncs in between are two whose pushes swap places.
SetParticipantRole(w, p) ==
    /\ ToPush(w, p)
    /\ cached' = [c \in Conn |-> IF c = entry[p] THEN sync[w].list[p] ELSE cached[c]]
    /\ sync' = [sync EXCEPT ![w].left = @ \ {p}]
    /\ UNCHANGED <<rows, table, job, livekit, written, history>>

\* GetRoom, and the goroutine of an online room.  BOUND: the worker's previous
\* one has ended.
Launch(w) ==
    /\ sync[w].at = "push" /\ sync[w].left = {}
    /\ IF Online
       THEN /\ job[w] = Done
            /\ job' = [job EXCEPT ![w] =
                         [list |-> sync[w].list,
                          left |-> {p \in Participant : sync[w].list[p] # Null},
                          for |-> Null]]
       ELSE UNCHANGED job
    /\ sync' = [sync EXCEPT ![w] = Idle]
    /\ UNCHANGED <<rows, table, cached, livekit, written, history>>

\* GetRoom fails.
LaunchAbandoned(w) ==
    /\ "failure" \in Faults
    /\ sync[w].at = "push" /\ sync[w].left = {}
    /\ sync' = [sync EXCEPT ![w] = Idle]
    /\ UNCHANGED <<rows, table, cached, job, livekit, written, history>>

-----------------------------------------------------------------------------
(* The goroutine, LiveKit and its clients *)

Ended(j) == IF j.left = {} /\ j.for = Null THEN Done ELSE j

\* One UpdateParticipant request.  BOUND: of equal ones of a worker, one is on the
\* wire at a time.
UpdatePermissions(w, p) ==
    /\ job[w].for = Null /\ p \in job[w].left
    /\ LET m == [from |-> w, to |-> p, right |-> Right(job[w].list[p])] IN
          m \notin wire /\ wire' = wire \cup {m}
    /\ job' = [job EXCEPT ![w].left = @ \ {p}, ![w].for = p]
    /\ UNCHANGED <<rows, table, cached, sync, media, tokens, written, history>>

\* The answer to m, or the lack of one, lets its goroutine go on to the next
\* participant, unless the goroutine has given m up.
Answered(m) ==
    LET j == job[m.from] IN
    job' = IF j.for = m.to /\ Right(j.list[m.to]) = m.right
           THEN [job EXCEPT ![m.from] = Ended([j EXCEPT !.for = Null])]
           ELSE job

\* LiveKit knows nobody who is not connected to it (404).
Execute(m) ==
    /\ m \in wire /\ wire' = wire \ {m}
    /\ media' = [media EXCEPT ![m.to] = IF @ = "out" THEN "out" ELSE m.right]
    /\ Answered(m)
    /\ UNCHANGED <<rows, table, cached, sync, tokens, written, history>>

\* Mutation: nothing bounds the wait for the answer.
LoseUnanswered(m) ==
    /\ "livekit" \in Faults
    /\ m \in wire /\ wire' = wire \ {m}
    /\ UNCHANGED <<rows, table, cached, sync, job, media, tokens, written, history>>

\* The error is logged and the update never repeated.
Lose(m) ==
    /\ "livekit" \in Faults
    /\ m \in wire /\ wire' = wire \ {m}
    /\ Answered(m)
    /\ UNCHANGED <<rows, table, cached, sync, media, tokens, written, history>>

\* The 10 seconds are over: every remaining call fails at once.  What is on the
\* wire may still be executed.
Deadline(w) ==
    /\ "livekit" \in Faults
    /\ job[w] # Done
    /\ job' = [job EXCEPT ![w] = Done]
    /\ UNCHANGED <<rows, table, cached, sync, livekit, written, history>>

Grant(p, r) ==
    /\ Online /\ p \in joined
    /\ LET t == [to |-> p, right |-> Right(r)] IN
          tokens' = tokens \cup {t} /\ old' = old \ {t}
    /\ UNCHANGED <<rows, table, cached, sync, job, wire, media, written, late>>

\* Mutation: the token carries the role of the join, as the session's JWT does.
MintAsJoined(p) == Grant(p, DefaultRoleForNewParticipant)

\* handleLiveKitToken: the row is read and a token minted with its right.
Mint(p) == Grant(p, role[p])

Connect(t) ==
    /\ t \in tokens
    /\ media[t.to] = "out"
    /\ media' = [media EXCEPT ![t.to] = t.right]
    /\ UNCHANGED <<rows, table, cached, sync, job, wire, tokens, written, history>>

Disconnect(p) ==
    /\ media[p] # "out"
    /\ media' = [media EXCEPT ![p] = "out"]
    /\ UNCHANGED <<rows, table, cached, sync, job, wire, tokens, written, history>>

-----------------------------------------------------------------------------
(* WebSockets, and who comes and goes                                      *)

\* RequireRoomAuth reads the role NewConn is given.
Handshake(c) ==
    /\ Of[c] \in joined
    /\ stage[c] = "away" /\ cached[c] = Null
    /\ cached' = [cached EXCEPT ![c] = role[Of[c]]]
    /\ UNCHANGED <<rows, table, sync, job, livekit, written, history>>

Register(c) ==
    /\ cached[c] # Null
    /\ Hub!Arrive(c)
    /\ late' = late \ {c}
    /\ UNCHANGED <<rows, cached, sync, job, livekit, written, old>>

Unregister(c) ==
    /\ Hub!Depart(c)
    /\ UNCHANGED <<rows, cached, sync, job, livekit, written, history>>

\* JoinRoom inserts the row; there is nobody yet to tell of its role.
Join(p) ==
    /\ Rows!Join(p)
    /\ UNCHANGED <<table, cached, sync, job, livekit, written, history>>

\* LeaveRoom, of a close handler (the one of an older connection too) or of the
\* leave handler, and a kick: none of them touches the connection in the table,
\* and nothing lists the participant again.
Leave(p) ==
    /\ Rows!Leave(p)
    /\ UNCHANGED <<table, cached, sync, job, livekit, written, history>>

-----------------------------------------------------------------------------

Serve(w) ==
    \/ ListParticipants(w) \/ (\E p \in Participant : SetParticipantRole(w, p))
    \/ Launch(w)

Tell(w) == \E p \in Participant : UpdatePermissions(w, p)

Answer == \E m \in wire : Execute(m) \/ Lose(m)

Next ==
    \/ \E w \in Worker :
          \/ \E p \in Participant, r \in Roles : ChangeRole(w, p, r)
          \/ ChangeRoleElsewhere(w)
          \/ Serve(w) \/ SyncAbandoned(w) \/ LaunchAbandoned(w)
          \/ Tell(w) \/ Deadline(w)
    \/ Answer
    \/ \E p \in Participant, r \in Roles : ChangeRoleFromElsewhere(p, r)
    \/ \E p \in Participant : Join(p) \/ Leave(p) \/ Mint(p) \/ Disconnect(p)
    \/ \E t \in tokens : Connect(t)
    \/ \E c \in Conn : Handshake(c) \/ Register(c) \/ Unregister(c)

Spec == Init /\ [][Next]_vars

\* Handlers and goroutines are scheduled again, and an HTTP request is answered
\* or fails in the end.  Nothing is assumed of clients.
Fairness ==
    /\ \A w \in Worker : WF_vars(Serve(w)) /\ WF_vars(Tell(w))
    /\ WF_vars(Answer)

FairSpec == Spec /\ Fairness

-----------------------------------------------------------------------------

\* Type of rows, copies and messages; a participant still to be told of is in the
\* list, and a LOCAL room has nothing at LiveKit.
TypeOK ==
    /\ role \in [Participant -> Role]
    /\ listed \subseteq joined /\ joined \subseteq Participant
    /\ Hub!TypeOK
    /\ cached \in [Conn -> Role \cup {Null}]
    /\ \A c \in Conn : stage[c] # "away" => cached[c] # Null
    /\ sync \in [Worker -> [at : {"idle", "list", "push"},
                            list : [Participant -> Role \cup {Null}],
                            left : SUBSET Participant]]
    /\ \A w \in Worker : \A p \in sync[w].left : sync[w].list[p] # Null
    /\ job \in [Worker -> [list : [Participant -> Role \cup {Null}],
                           left : SUBSET Participant,
                           for : Participant \cup {Null}]]
    /\ \A w \in Worker : \A p \in Participant : ToTell(w, p) => job[w].list[p] # Null
    /\ wire \subseteq Update
    /\ media \in [Participant -> {"out", "view", "publish"}]
    /\ tokens \subseteq [to : Participant, right : {"publish", "view"}]
    /\ ~Online => tokens = {} /\ \A p \in Participant : media[p] = "out"
    /\ changes \in Nat /\ outside \in Nat
    /\ late \subseteq Conn /\ old \subseteq tokens

-----------------------------------------------------------------------------
(* Copies that differ from the row *)

\* A copy of a role that grants what the row grants.
SameRight(r, p) == Right(r) = Right(role[p])

\* p's socket checks another role than the row's ...
SocketBehind(p) == entry[p] # Null /\ cached[entry[p]] # role[p]

\* ... and the row's is on its way to it.
RoleComing(p) ==
    \E w \in Worker :
       \/ sync[w].at = "list" /\ p \in listed
       \/ ToPush(w, p) /\ sync[w].list[p] = role[p]

\* LiveKit grants p another right than the row's role has ...
RightBehind(p) == media[p] \notin {"out", Right(role[p])}

\* ... and that right is on its way there.
RightComing(p) ==
    \/ \E w \in Worker :
          \/ sync[w].at = "list" /\ p \in listed
          \/ ToLaunch(w, p) /\ SameRight(sync[w].list[p], p)
          \/ p \in job[w].left /\ SameRight(job[w].list[p], p)
    \/ \E m \in wire : m.to = p /\ m.right = Right(role[p])

SocketMisled(p) == SocketBehind(p) /\ ~RoleComing(p)
RightMisled(p) == RightBehind(p) /\ ~RightComing(p)

\* p's role is written and p is not told of it: by a host of another room, or when
\* p is off the list, its socket still open.
WrittenUnheard(p) ==
    \/ \E r \in Roles : ChangeRoleFromElsewhere(p, r)
    \/ p \notin listed /\ \E w \in Worker, r \in Roles : ChangeRole(w, p, r)

\* p goes off the list, or the handler fails, between a write and the list.
Unlisted(p) == Leave(p) \/ \E w \in Worker : SyncAbandoned(w)

\* A socket is misled - left with a role that is not the row's, and nothing coming
\* to correct it - by these steps and no others: a write or a list p is not part
\* of, a list that another change has overtaken, a handshake that one has.
MisleadsSocket(p) ==
    \/ WrittenUnheard(p) \/ Unlisted(p)
    \/ \E w \in Worker : SetParticipantRole(w, p) /\ sync[w].list[p] # role[p]
    \/ \E c \in late : Of[c] = p /\ Register(c)

SocketsFollow ==
    [][\A p \in Participant : SocketMisled(p)' /\ ~SocketMisled(p) => MisleadsSocket(p)]_vars

\* A right to publish at LiveKit is: likewise, and by an update that is lost, late or
\* overtaken, and by a token minted before the role was last written, used again
\* or for the first time.
MisleadsLiveKit(p) ==
    \/ WrittenUnheard(p) \/ Unlisted(p)
    \/ \E w \in Worker : LaunchAbandoned(w)
    \/ \E w \in Worker : p \in job[w].left /\ Deadline(w)
    \/ \E m \in wire : m.to = p /\ Lose(m)
    \/ \E m \in wire : m.to = p /\ m.right # Right(role[p]) /\ Execute(m)
    \/ \E t \in old : t.to = p /\ Connect(t)

RightsFollow ==
    [][\A p \in Participant : RightMisled(p)' /\ ~RightMisled(p) => MisleadsLiveKit(p)]_vars

\* What is on its way arrives, whatever is lost: in the end every socket and every
\* right is the row's, or was misled in one of those ways.
CopiesSettle ==
    \A p \in Participant :
       <>[](SocketBehind(p) => SocketMisled(p)) /\ <>[](RightBehind(p) => RightMisled(p))

=============================================================================
