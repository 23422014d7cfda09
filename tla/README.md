# Together: a TLA+ model of the room server

Together is a screen-sharing server in Go: rooms that are joined with a code, a
REST API over a SQL database, a WebSocket per participant for live events, and
LiveKit for the media of online rooms. This directory holds a TLA+ model of its
core, configurations for TLC, and proofs for TLAPS. Paths below are relative to
`src/internal/` unless they say otherwise.

- `tlc -config membership.cfg MCRoomService.tla` (and likewise for every other
  `.cfg`; `hub.cfg` and `hub_ends.cfg` go with `MCRoomHub.tla`, `rolesync.cfg`
  with `MCRoleSync.tla`, `deploy.cfg` with `MCLobby.tla`) checks a model.
- `tlapm RoomServiceProofs.tla` (and the other `*Proofs.tla`) checks proofs.
- `PROJECT.json` lists the runs, the properties, for each property a small bug
  that breaks it, the source lines behind each definition, the hazards and the
  divergences found.

## 1. The system

### Components

| component | source | state | operations | modelled in |
|---|---|---|---|---|
| Room service and handlers | `rooms/service.go`, `api/handlers_*.go` | none of its own: rows in the database | create, join, leave, end, pause/resume, screen started/stopped, kick, role, transfer, request, resolve, list | `RoomService`; what it promises in `Membership` and `Roster` |
| Session authentication | `auth/middleware.go`, `auth/jwt.go`, `db/sessions.go` | `room_sessions` (revoked, expiry) | `RequireRoomAuth`, `IsSessionValid`, revocation | `RoomService`, `Store` |
| Store | `db/*.go`, `db/migrations/` | tables `rooms`, `room_participants`, `room_sessions`, `room_actions`, ... | one function per statement | `Store` |
| Permissions | `rooms/permissions.go` | constant matrix role -> actions | `Can` | `Permissions` |
| Hub and sockets | `ws/hub.go`, `ws/room_hub.go`, `ws/conn.go`, `api/ws_handler.go` | per room: map participant -> connection, four channels; per connection: a send channel, two pumps | register, unregister, broadcast, direct, read, write, close | `RoomHub`; what it promises in `Directory`; the database side of open and close in `RoomService` |
| Role propagation | `api/server.go` (`syncRoomRoles`), `livekit/` | role cached in each live connection; publish right at LiveKit | push after a role change, asynchronous LiveKit updates, tokens | `RoleSync`, over `Directory` and `Roster` |
| Room creation | `rooms/codes.go`, `CreateRoom` | `rooms.id`, `rooms.join_code` | allocation of id and code with retries, owner's row and session | `Lobby`; what it promises in `Registry` |
| Accounts | `api/handlers_auth.go`, `db/users.go` | `users` | register (login and me only read) | `Lobby`, `Registry` |
| Migrations | `db/db.go` | `schema_migrations`, the schema | `migrate` at boot | `Migrate`, `Registry` |
| Access settings, invites, routing, static files, JSON, configuration, LAN discovery, scripts | see `PROJECT.json` | | | not modelled, see section 5 |

### How they interact

`net/http` serves each request in a goroutine of its own. An authenticated
request reads its session, then its participant's row; the handler trusts the
role and identity found there and calls the service, whose operations are
sequences of SQL statements. **No request opens a transaction**, so the
statements of different requests interleave in any order, and a statement that
fails (or a client that goes away, which cancels the context) leaves what was
written before it. After the database the handlers broadcast an event through the
room's hub. A WebSocket's handshake is an authenticated request; the end of the
socket runs a close handler (`OnClose`) that unregisters the connection and
calls `LeaveRoom`, outside any request. After a role change the handler also pushes
the room's roles, as it lists them, into the connections of the hub's table, and
leaves the rights at LiveKit to a goroutine that outlives the request. Several
servers may share one database (a new version next to an old one, or a hosted
database); each applies its migrations before it listens. The transaction of a
migration is the only one in the program.

A caller is bound to its own room only by the path of the request
(`requireMatchingRoom`). The participant or request that the path or the body names is
found by its id alone, so **it may be of another room**: a host of one room can kick, give
roles, answer requests and transfer in another, while the sync of roles and the
spotlight's flags stay those of the caller's room.

### What is hard

- requests interleaving between their statements: kick against join, start,
  leave; end against anything already past the middleware; joins that count and
  then insert; transfers that clear and then set;
- what was read once and used much later: the caller's role, a target's role;
- failures in the middle of an operation, a killed process, an expired room;
- hosts of other rooms, whose requests run here with nobody inside;
- the hub: rendezvous and buffered channels, several connections of one
  participant, a channel closed by one goroutine and sent to by another, full
  buffers;
- copies of a role: one per connection and one at LiveKit, carried there by lists
  that overtake each other, by handshakes and tokens that read before a change
  and arrive after it, and by calls that are lost and never repeated;
- servers that boot on one database, where each looks a migration up before
  the transaction that applies it; and creations of which any step may be the last.

`PROJECT.json` lists these hazards line by line with the property that covers each.

### What makes each component correct

- *Membership*: who was expelled stays out, who was kicked is not listed, an
  ended room with nothing of its own in flight stays ended, a local room exceeds its
  limit by fewer than the joins in flight at once. To its clients the room is a plain table
  of who is in it, and somebody put out who has nothing going on any more never gets
  in again and never on stage.
- *Presence*: whoever closes the last socket goes off the list, and stays off; a
  stale row is left by a leave that was cut short or a restart, by nothing else.
- *Stage*: one holder; only its own release or a kick of it takes the slot away.
- *Roles*: a transfer within the room that completes leaves somebody in the spotlight;
  nobody but a host's explicit decision demotes the owner; an accepted request leads to the
  right, and the right stays but for another role change.
- *Hub*: its goroutine never panics and never waits for its own callers; a late
  close of an old connection does not cut off the new one; in a local room's
  mesh no two peers miss each other; and to its users it is a plain table.
- *Role copies*: a socket's role and a right to publish differ from the row while news
  of the change is under way; that there is none comes about in a handful of ways,
  each a step one can name, and in no other; and all that is under way arrives.
- *Servers*: the schema is that of one boot, complete under whoever serves, and
  every server comes up in the end.
- *Lobby*: a room or an account that was announced to its creator exists, whole,
  and nobody else's request ever takes it over; to clients the servers are one registry.

## 2. Modules

```
Permissions   the role -> action matrix
    |
Store         the tables; one operator per SQL statement
    |
    |         Roster        what the rows promise: in once, off once, one role at a time
    |             |
    |         Membership    what the server promises about one room
    |             |
RoomService   requests in flight, one action per statement; sockets, clock,
    |         failures, restarts; the properties; implements Membership
    +-- MCRoomService       symmetry for TLC; 8 configurations
    +-- RoomServiceProofs   types, ExpelledStayOut, KickedAreUnlisted
          +-- StageProofs   StageKept, OverForGood, CapacityOvershoot
                +-- RolesProofs   OwnerKept, PrimariesBounded, SpotlightKept, GrantsKept
                      +-- PresenceProofs   PhantomsAreCutLeaves, NoPhantom
                            +-- MembershipProofs   ImplementsMembership, OutForGood

Directory     what a hub promises: a table of who is reached by which connection
    |
    +-- RoomHub             one hub, its connections and their goroutines: implements it
    |     +-- MCRoomHub     whose connection is whose; 2 configurations
    |     +-- HubProofs     types, HubNeverPanics, NoDeadEntry, EntryKept,
    |                       ImplementsDirectory, MeshComplete
    +-- RoleSync            the roles copied from Roster's rows to Directory's
          |                 connections and to LiveKit: uses both
          +-- MCRoleSync    one configuration
          +-- RoleSyncProofs  types, SocketsFollow, RightsFollow

Migrate       servers that boot on one database
    |
    |         Registry      what the servers of one database promise together
    |             |
Lobby         requests to those servers that create rooms and accounts; implements
    |         Registry
    +-- MCLobby             which server has which migrations; one configuration
    +-- LobbyProofs         types, SchemaInOrder, ServersFindSchema,
                            AnsweredRoomStands, AnsweredAccountStands,
                            ImplementsRegistry
```

`RoomService` and `RoomHub` meet at the socket: `OpenSocket` and `CloseSocket` of
the one are the handshake and the close handler of the other. They are kept apart
because neither reads the other's state: the hub never looks at the database, and
no service operation looks at the hub's table. Where a module does read that
table, in `RoleSync`, it uses `Directory`, which `RoomHub` is shown to implement;
so what `RoleSync` says of sockets rests on the hub as it is, goroutines and all,
without a product of the two state spaces. Its rows are `Roster`'s in the same way: joins,
departures and role changes as `RoomService` is shown to write them. `Lobby` extends `Migrate`
because a request lives and dies with the server that takes it.

### `Permissions` and `Store`

The matrix is transcribed row by row. `Store` keeps the columns that any
condition in the code reads: the room's status and presenter slot
(`primary_presenter_id`), a participant's status, role and `is_primary`, one
session and one stage request per participant. Each operator is one SQL
statement; its condition is the statement's `WHERE` (`ClaimPresenter` succeeds
only where its row count would be 1).
A participant id is issued once, so `Participant` bounds how many ever join. The rows of
other rooms are not kept: `Elsewhere` are ids that have none here, of other rooms or of
nobody. What a statement does with one follows from its `WHERE`: an UPDATE by id changes
nothing here, a SELECT may find anything (`RolesFound`, `TypesFound`), and of the two with a
condition on the room (`ClearOtherPrimaries`, `SetParticipantPrimary`) the first still
clears the flags of the caller's room.

### `RoomService`

`req[w]` is the request worker `w` serves: `at` names the next statement, `by` is
`claims.ParticipantID`, `from`/`to`/`arg` what path and body carry. An operation
is a chain of actions, in the order of the code:

| code | actions |
|---|---|
| `RequireRoomAuth` | `Authenticate` (the session) then `Admit`/`Refuse` (the participant's row, the `Can` check) |
| `JoinRoom` | `JoinCheck`, `JoinCount` (local rooms), `JoinInsert`, `JoinSession`, `JoinReply` |
| `LeaveRoom` | `BeginLeave` or `CloseSocket`, then `LeaveRelease`, `LeaveStatus` |
| `EndRoom` | `BeginEnd`, `EndStatus`, `EndRevoke` |
| `SetPaused` | `BeginPause`/`BeginResume`, `SetPaused` |
| `StartPresenting`, `StopPresenting` | `BeginStart`, `StartClaim`, `StartStatus`; `BeginStop`, `StopRelease`, `StopStatus` |
| `KickParticipant` | `BeginKick`, `KickRelease`, `KickStatus`, `KickRevoke` |
| `ChangeRole` | `BeginRole`, `RoleWrite` |
| `TransferPresenter` | `BeginTransfer`, `TransferTarget`, `TransferPromote`, `TransferFrom`, `TransferDemote`, `TransferClear`, `TransferSet`; `TransferNotFound` for an id of nobody |
| `RequestAction`, `ResolveAction` and the handler's transfer | `BeginRequest`, `RequestAction`; `BeginResolve`, `Accept`/`Decline`, `ResolveRead`, then the transfer with no `from` |
| handshake | `BeginSocket`, `OpenSocket`/`AbandonSocket` |

`Fail` ends any request at any statement (a failed statement or a cancelled
context), `Restart` loses requests and sockets and keeps the tables, `Tick` moves
the clock past the room's `ExpiresAt`. `ended`, `kicked`, `expelled` and
`attended` are history: they record that an operation completed and guard nothing.

The service's check of the caller's role reads nothing, so it belongs to the step of the
middleware's second read.

Callers and those they name are of `Anyone`, this room's participants and `Elsewhere`, in every
combination that touches this room. A caller of another room may have any role there, which
its middleware has read by the time `Admit` lets its request on to what it does here. A participant
of this room is named once it has a row (`Nameable`): its id is a UUID nobody knows before, and rows are
never deleted. With `OwnRoom` the two statements that have a condition on the
room know whose room they are run for.

### `Membership` and `Roster`

`Membership` has no statements, sessions or sockets. `Member` in `RoomService` says what its
variables are there:

| `Membership` | in `RoomService` |
|---|---|
| `joined`, `listed`, `role` | who has a row, who is CONNECTED, the rows' roles |
| `holders` | who has been answered with a token |
| `inside` | who has a socket, a request past the middleware, or one whose session was found valid and whose row is not KICKED (`IsInside`) |
| `barred` | `expelled`: targets of completed kicks, holders of tokens when an end completed |
| `holder` | `rooms.primary_presenter_id` |

Under it every statement of every request, every failure and restart is one of its actions
or a stutter (`ImplementsMembership`). What the abstract room says and no single
invariant of the runs does: a kick is over only when its target is off the list; nobody gets
in without a row and a token, nor after being put out; the stage goes to nobody but
somebody the server is serving; and the room is ended by nobody but somebody inside. A kick or a
role change asks for nobody inside, as hosts of other rooms make them too.

The middleware reads the session first and the row after. A request whose session was read
before the kick can therefore still pass it, when the target's own leave has overwritten
KICKED in between. So whoever is put out is not out at once, and
`OutForGood` speaks of those who are: from the step at which somebody barred is no longer
inside, it is for good.

### `RoomHub`

The hub's goroutine (`hub`) is at its select or holds a connection it has just
received. Register and unregister are rendezvous: `ReceiveRegister` and
`ReceiveUnregister` move the caller and the hub together, and what the hub then
does to the map (`Insert`, `Remove`) is a later step, so that the handshake can
already list the peers before its own entry exists, as it can in the code.
`broadcast` and `direct` are bounded queues whose senders block; `send[c]` is a
bounded buffer whose sender drops. A send to a closed channel panics: in the
handshake's goroutine the router recovers it (`Announce` ends "missed"), in the hub's
nobody does (`Panicked`). The two pumps of a connection end separately and each
closes the socket, which the other notices. Left out: the content of
events, and `LeaveRoom` inside the close handler, which `RoomService` has.

`Standing` says where a connection stands for the hub's users: in the room from
the step that puts it in the table to the one that has dealt with its unregister.
Under that mapping, with `conns` for the table, every step of the hub's goroutines is
an arrival, a departure or nothing at all to its users (`ImplementsDirectory`): the
rendezvous, the late update of the map and the superseded connection whose
unregister comes after its successor's register are all invisible.

### `RoleSync`

`joined`, `listed` and `role` are the rows, `cached[c]` the role connection `c` carries,
`media[p]` the right LiveKit grants. Each worker is a handler with the
goroutine its last sync has left behind:

| code | actions |
|---|---|
| `UpdateParticipantRole` in `ChangeRole`, a transfer, an accepted request, of this room's handlers | `ChangeRole`, with the sync to come; `ChangeRoleElsewhere` where whoever is named is of another room |
| the same, of another room's | `ChangeRoleFromElsewhere`, with none |
| `syncRoomRoles` | `ListParticipants`, `SetParticipantRole` per participant, `Launch`; `SyncAbandoned`, `LaunchAbandoned` where a read fails |
| its goroutine | `UpdatePermissions` per participant, `Deadline` |
| LiveKit (external) | `Execute`, `Lose`; `Connect`, `Disconnect` of its clients |
| `handleLiveKitToken` | `Mint` |
| handshake, hub | `Handshake` (the role is read), `Register`, `Unregister` (of `Directory`) |
| `JoinRoom`'s insert | `Join` |
| leave, kick, close handler | `Leave` |

The rows are `Roster`'s, by its actions. The owner's is there from the start, as `CreateRoom`
leaves it, when the owner is among those followed; everybody else joins first, in between
whatever the handlers are doing, before having a socket or a token.
The code tells participants in the order they joined; the model in any. An update
may be executed after its goroutine has given it up. A LiveKit token is good for 24 hours, so `tokens`
only grows and a client connects with any of its own, any number of times.

A copy is *misled* when it is not the row's and nothing on its way would correct it
(`SocketMisled`, `RightMisled`). Nothing in the code rules that out; `SocketsFollow` and
`RightsFollow` say by which steps it comes about, and that it does by no others:

| step | socket | LiveKit |
|---|---|---|
| the role is written by a host of another room, or while its participant is off the list with the socket still open (`WrittenUnheard`) | x | x |
| the participant goes off the list, or the handler fails, between a write and the list (`Unlisted`) | x | x |
| a sync pushes a role that has been overwritten since it was listed | x | |
| a handshake registers with a role that has been overwritten since it was read (`late`) | x | |
| `GetRoom` fails; an update is lost or passes the deadline | | x |
| an update of a right that has been overwritten since is executed last | | x |
| a client connects with a token minted before the last write (`old`) | | x |

`late` and `old` are history. Each of these is a hazard in `PROJECT.json`. What the properties
exclude is everything else: a push, an update, a register or a mint that goes wrong with
nothing overtaken, a change of this room's handlers that is not followed by a
sync, a copy spoiled while somebody else's is written. `CopiesSettle` adds that what is
under way arrives: in the end a copy is the row's or misled.

### `Migrate` and `Lobby`

A boot is `Create` (of `schema_migrations`), then for each file a `Lookup` and,
if there is no row, the transaction `Apply`, `Record`, `Commit`. The lookup
is outside the transaction, so another server may have applied the file by then; its
statements then fail, the boot ends and the container starts it again.
SQLite and libsql admit one writer at a time: `writer` is its transaction.
`Stop` is a process that dies or a statement that fails anywhere,
`CommitUnanswered` a commit whose answer is lost.

In `Lobby`, `CreateRoom` is `InsertRoom` (or `Collide`, and another draw),
`InsertOwner`, `MintSession`, `AnswerRoom`. A collision is recognised with the
local driver only: `IsUniqueViolation` unwraps that driver's error type, so with
libsql the first collision is an error, which the client sees and nobody
else. Registration is `CheckFree`, `InsertUser`, `AnswerUser`; between the
first two the e-mail may be taken, and the column's uniqueness decides. `Fail` and
`Die` end requests anywhere.

`Registry` is what all that amounts to for clients. Its `version` is the length of the
schema, `up` the servers that serve, `whole` the rooms whose owner has both a row and a
session (`Shared` in `Lobby`); codes, accounts and who was told of what are the same. Its actions say
what may happen at all: a server comes up only on a schema that has its migrations; a
code is reserved while no room has it; a creator is told of a room only when it is whole, and one
creator at most; an e-mail gets an account once. Boots, transactions, collisions, retries and
dying requests are stutters or nothing more than one of these (`ImplementsRegistry`).

## 3. Runs

All bounds are constants with a `BOUND` comment where they are declared, or
guards marked `BOUND` (`IdsLeft`, `HasNotAsked`). Two workers are two requests
at once, with any number in sequence: the races above are all between two
requests. Participants who are not the owner are symmetric where a run says so.

| run | instance | what it shows |
|---|---|---|
| `membership` | the owner, a guest and a host of another room, 1 socket each, 2 workers; join, leave, start, stop, pause, role, kick, end, sockets; failures and restarts | `TypeOK`, `ExpelledStayOut`, `KickedAreUnlisted`, `OverForGood`, `StageKept`, `OutForGood`, `PhantomsAreCutLeaves`, `ImplementsMembership` |
| `presence` | a local room of 1, 3 people, 2 sockets each; join, leave, sockets; expiry; fair | `NoPhantom`, `CapacityOvershoot`, `ClosedGoesOffList` |
| `roles` | 3 people and a host of another room; transfers, also to the latter, and role changes to HOST; failures | `PrimariesBounded`, `SpotlightKept`, `OwnerKept` |
| `asks` | 2 people and a host of another room; requests of two kinds, answered also twice at once and in different ways; transfers, role changes; restarts | `GrantsKept` |
| `hub` | connections a1, a2 of one participant, b1 of another; channels of capacity 1; writes that fail at any time | `HubNeverPanics`, `NoDeadEntry`, `MeshComplete`, `EntryKept`, `ImplementsDirectory` |
| `hub_ends` | a1, a2 and one event of a client or REST handler; writes that fail at any time; fair | `TypeOK`, `PumpsEndTogether`, `PostsGetThrough` |
| `rolesync` | one participant with an older and a newer tab, 2 handlers, 2 role changes between two roles of different right, of this room's hosts and of another's; failures and lost or late updates; fair | `TypeOK`, `SocketsFollow`, `RightsFollow`, `CopiesSettle` |
| `deploy` | a server with both migrations and one with the first, 2 deaths; a request to each; 2 ids, 2 codes, 2 tries; either driver; 2 people who want one e-mail; fair | `TypeOK`, `SchemaInOrder`, `ServersFindSchema`, `AllServe`, `AnsweredRoomStands`, `AnsweredAccountStands`, `ImplementsRegistry` |

Each run's property is broken by at least one small change to the modelled code
(the `mutants`), kept in the modules as definitions commented `Mutation`. Each module's types
are checked in one run.

Capacities of 1 make every buffer full at once, which 64 and 32 would
need long runs for; the code compares nothing else with them. Three
connections are what the late unregister of a superseded connection needs
together with a peer to be told of. Participants do not interact in role
propagation except through the order of a sync's pushes, so one is enough for
it, with the two changes and two handlers that let lists and updates overtake
each other; the owner, whose row is there from the start, need not be that one. Two ids and two codes let a draw collide with either alone.
`membership` has two people because every race it is about is between one
participant and a host, of this room or another, or between a participant's own requests and
its socket; a second socket of theirs is in `presence`, which has no failures, so that
a row left on the list can only be the close handlers' doing; with its limit of one, any two
joins let in together exceed it. One id of `Elsewhere` stands for all the others: nothing of
theirs is kept. In `roles` HOST is the role that a transfer treats
differently; PRESENTER and PARTICIPANT are given and taken by the transfers themselves.
`asks` has restarts and no failures: a failure takes a request away as its last
statement does, and where the two steps look the same `GrantsKept`'s exception for an answer cut off
would excuse the code's own step. That failures change nothing else is in the theorem.
Deadlock is not checked: every client may stop asking anything of the server.

### Where the code and its documents disagree

These runs are expected to fail; each shows a shortest execution.

| run | violated | the execution |
|---|---|---|
| `ended_reopens` | `EndIsFinal` | the owner's pause passes the middleware, the room is ended, the pause writes PAUSED over ENDED; the room can be joined again |
| `removed_holds_stage` | `RemovedHoldNoStage` | a start passes the middleware, the kick of its maker releases the slot, the start claims it; a second kick, or the close of the maker's socket, would take it back |
| `local_overfull` | `CapacityHeld` | two joins count before either inserts |
| `phantom_after_restart` | `NoPhantom` | the process dies with a socket open; no close handler runs |

What the code does with ids of other rooms is a hazard (see `PROJECT.json`) and in every
passing run that names anybody, but no such divergence: no document speaks of it.
`CapacityOvershoot`, `OverForGood`, `OutForGood` (once out, never on stage again) and
`PhantomsAreCutLeaves` are the positive counterparts: what does hold.

### Fairness

`RoomService!FairSpec` has weak fairness of `Serve \/ Refuse` per worker: a goroutine
between two statements is scheduled again and its statement returns. Nothing is
assumed of clients: no request, close or `Tick` must ever happen; nor of failures.

`RoomHub!FairSpec` has weak fairness of every goroutine's own steps (the hub's,
the handshake's, a pump's next step) and strong fairness of the two rendezvous: the
hub's select chooses at random among the ready cases, so a caller that is
ready at infinitely many selects is taken. A pump whose socket has
been closed under it gets an error from its next read, write or ping (pings go
out every 54 s). Clients need not send, close or answer.

`RoleSync!FairSpec` has weak fairness of a handler's `Serve` and its goroutine's
`Tell`, and of `Answer`: an HTTP request is answered or fails in the end, the
goroutine's context seeing to it. Role changes, handshakes, tokens and leaves need not happen.

`Lobby!FairSpec` has weak fairness of `Migrating(s)`, the start of a dead process
included: `docker-compose.yml:8` (beside `internal/`) says
`restart: unless-stopped`. The bound on
faults is what "once no more processes die" means in `AllServe`.

## 4. Proofs

The theorems hold for every set of participants, workers, connections and every value of
the other constants that satisfies the named assumptions (`StoreAssumption`,
`RoomServiceAssumption`, `RoomHubAssumption`, `RoleSyncAssumption`, `MigrateAssumption`,
`LobbyAssumption`): finite non-empty `Worker`, finite `Participant` with an owner, any
`Elsewhere` disjoint from it, positive limits, `Null` outside every set it stands in for. They are safety theorems.

- **Types** (`TypeCorrect`). Inductive as it stands, because `TypeOK` says which fields
  a request must carry at which point.
- **ExpelledStayOut**, **KickedAreUnlisted** (`ExpelledInvariant`). Not inductive: a
  leave can overwrite KICKED, and a join can mint a session after the kick's revocation.
  The strengthening `ExpelledInv` says of somebody expelled (`Shut`) that *either* the
  session is revoked, *or* the row is KICKED and they are `Outside`: no socket, and no request
  past the middleware but the rest of their join, so nothing of theirs can overwrite KICKED.
  It needs that without a session there is no token, socket or request but the join
  (`SessionFirst`), nor a session or request without a row (`RowFirst`), that an id is joined
  once (`OneJoinEach`), and what a kick in progress has established (`KickInProgress`).
- **StageKept** needs only the types: a case analysis of the statements that write
  the slot. **OverForGood** likewise, once requests of other rooms' hosts are seen to be nothing
  but kicks, role changes, answers and transfers, which write neither the room's status nor a session as VALID.
- **CapacityOvershoot** by `CapacityInv`: those listed plus the joins past their count
  exceed the limit by less than the number of workers. A join that counts adds itself to
  the second when the first was below the limit, and moves from one to the other when it
  inserts.
- **OwnerKept** by `OwnerInv`: a transfer about to promote or demote somebody names
  somebody who is no owner, and no statement makes an owner when hosts give out none.
- **PrimariesBounded** by `LightsInv`: primaries together with the targets of
  transfers about to set their flag are at most as many as workers.
- **SpotlightKept** by `Referenced` and `Unmarked`: whomever of this room a request names has a row,
  which `Nameable` establishes when it is admitted and no statement undoes; who has no row has
  no flag. A failure is allowed anywhere but at the statement that sets the new primary's flag
  after the old one is cleared (`CutShort`), and a transfer may name anybody but somebody of
  another room (`HandedAway`): there the spotlight is lost. Transfers by hosts of other rooms touch
  no flag here.
- **GrantsKept** (`GrantsAreKept`) by cases of the statements that write a role: somebody who is
  granted the stage and may not present (`Owed`) has a promotion in flight, or has become so
  by a failure, a restart, a role change or a transfer of its own. `AcceptedPresent` is a
  corollary for instances without those: whoever's request stands accepted may
  present once nothing is in flight.
- **PhantomsAreCutLeaves** (`PhantomsComeFromCuts`), with `AttendedExist`: whoever loses its last
  socket has a leave in flight, which goes only by its last statement, which takes them off
  the list, or by a failure or a restart. **NoPhantom** (`NobodyIsAPhantom`) without
  failures and restarts follows.
- **ImplementsMembership** (`ServiceImplementsMembership`), a refinement, from the types,
  `ExpelledInv` and `Referenced`. The step that matters is `EntersBy`: whoever becomes
  `IsInside` does so by a first read that found the session valid and a row not KICKED
  (so `ExpelledInv` says it is not barred), or was there already. Then one lemma
  for each kind of statement: those that write a row (`JoinStep`, `MarkStep`, `RoleStep`, `FlagsStep`),
  the slot (`SlotStep`), tokens and those expelled (`TokenStep`), and the rest (`ExitStep`).
  **OutForGood** (`OutIsForGood`) follows from the abstract room's step and the types.
- **Hub** (`HubInvariant`): what is in the table is under its own participant, has an open
  channel and a running read pump, or is the very connection the hub is about to remove.
  Then a delivery finds open channels only, and a channel is closed once. All of
  `HubNeverPanics`, `NoDeadEntry`, `EntryKept` follow.
- **ImplementsDirectory** (`HubImplementsDirectory`), a refinement: from `HubInvariant`, the
  hub's `Insert` maps to `Arrive`, its `Remove` (of a superseded connection too) to `Depart`,
  and every other step to a stutter.
- **MeshComplete** (`MeshIsComplete`) by `ListsAll`, a connection that lists its peers
  before the hub inserts it still has everybody in the table on its list when it is, and `OneLists`, of two connections in the
  table one was told of the other. The hub receives one register at a time, so the
  table does not change in between.
- **SocketsFollow**, **RightsFollow** (`CopiesInv`), by one case per action: each either leaves
  a copy that was right, or had its correction coming, that way, or is a named step. The
  invariant is what makes that so: the connection in the table is the participant's
  own (`Directory`'s `ReachedIsHere`); whoever has not joined has the newcomer's role and no
  socket, right or token yet, so a join finds nothing outdated (`Strangers`); and a handshake that
  is not `late`, and a token that is not `old`, carries what the row says (`Fresh`).
- **SchemaInOrder**, **ServersFindSchema** (`ServersInv`): the rows of `schema_migrations`
  are the files applied, and a boot at file *n* has found all before *n* in the schema; a
  writer past `Apply` is alone, so the file it commits is the next one.
- **AnsweredRoomStands**, **AnsweredAccountStands** (`LobbyInv`): codes are unique, and what
  a request has written before the statement it stands at (`Achieved`) is there; nothing
  overwrites any of it (`NothingLost`).
- **ImplementsRegistry** (`LobbyImplementsRegistry`), a refinement, from `ServersInv`, `LobbyInv` and
  `OneMaker`: no two requests in flight make the same room or account, and none makes one
  that was announced. A boot's steps map by where `ServersInv` has it: its commit is
  the next migration, and it serves when it has found all of its own.

Only model-checked: the liveness properties (`ClosedGoesOffList`, `PumpsEndTogether`,
`PostsGetThrough`, `CopiesSettle`, `AllServe`), as fairness and ENABLED are outside this
prover. Every safety property of the runs has its theorem.

## 5. Not modelled

- *Access settings* (`PATCH /rooms/{id}`): one UPDATE of values from one body, which a join
  reads in the SELECT that reads the room. There is no pair of steps whose order
  could matter, and a model would restate the statement.
- *Invites*: a row is inserted that no operation reads.
- *Login, Me, hashes and tokens of accounts*: they only read; bcrypt and JWT are taken to
  accept what they made and nothing else. A client holds its own token or none.
- *`SetRoomHostLANAddr`*: a column the server only displays; `TouchParticipant` and the table
  `room_permissions` have no user.
- *The older of two tabs*: no sync reaches a superseded connection, which is in the model
  (its `cached` never changes again) but under no property; the repository does not
  say what it may still do.
- *Contents of events, names, PINs, HTTP and JSON, routing, CORS, static files, configuration,
  LAN discovery, scripts*: stateless, or read once at start.
- *Rows of other rooms*: what a host of this room does to another with its ids is that room's
  model, with this room's host as the caller from elsewhere.
- *LiveKit* itself, and the supervisor that restarts a process, are external. SQLite and
  libsql are taken to execute single statements atomically, and to hold other
  writers off while a transaction writes; the code relies on no more.
- *More than one server in one room*: each process has its own hub and would relay only to
  its own sockets. Rooms are modelled for one server; only creation and boot are for several.

## 6. Plan

1. A promise of the hub to `RoomService`, as `Directory` is to `RoleSync`: that a
   participant with a socket there has a connection in the table here, so that "listed",
   "served" and "reached" become one statement.
2. Larger instances, where a faster machine allows: three people in `membership`, two
   participants in `rolesync`. The theorems cover these sizes; the runs would add only the
   liveness of `CopiesSettle` for them.
3. The access settings, if a join ever comes to read them in more than one step.
