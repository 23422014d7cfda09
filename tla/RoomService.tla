----------------------------- MODULE RoomService -----------------------------
(***************************************************************************)
(* The REST handlers and the room service of one room, with the sockets'   *)
(* close handler.  net/http runs every request in a goroutine of its own   *)
(* and no operation opens a transaction, so an operation is a sequence of  *)
(* steps, one per SQL statement, and the steps of different requests       *)
(* interleave freely.  A Worker is a goroutine serving one request; where  *)
(* it stands is req[w].at, named after the operation and the statement it  *)
(* is about to execute.                                                    *)
(*                                                                         *)
(* A caller is bound to its own room only by the path of its request.  The *)
(* participant or request its path or body names may be of another room,   *)
(* and a host of another room may name one of this: its request is served  *)
(* here from the moment it passes the middleware there.                    *)
(*                                                                         *)
(* The room was created before the model starts (StoreInit).  PINs, names, *)
(* join codes and invites are not this module's business: every guest here *)
(* knows the PIN.                                                          *)
(***************************************************************************)
EXTENDS Store, Naturals

CONSTANTS
    Worker,      \* BOUND: how many requests are in flight at once
    Ops,         \* the operations clients call in this instance
    Local,       \* the room's mode: LOCAL has a capacity, ONLINE has none
    MaxLocal,    \* maxLocalParticipants
    MaxSockets,  \* BOUND: sockets a participant has open at once
    Targets,     \* BOUND: whom kicks, role changes and transfers name
    GrantRoles,  \* the roles hosts give out in this instance
    Asks,        \* the kinds of request participants make in this instance
    Faults       \* what may go wrong in this instance, see FaultName

OpName == {"join", "leave", "end", "pause", "start", "stop", "kick", "role",
           "transfer", "request", "resolve", "socket"}

\* failure: a statement fails or its context is cancelled, which ends the
\* request there; restart: the process is killed and started again; expiry:
\* the clock reaches the room's ExpiresAt.
FaultName == {"failure", "restart", "expiry"}

ASSUME RoomServiceAssumption ==
    /\ Ops \subseteq OpName /\ Faults \subseteq FaultName
    /\ Local \in BOOLEAN
    /\ IsFiniteSet(Worker) /\ Worker # {}
    /\ MaxLocal \in Nat \ {0} /\ MaxSockets \in Nat
    /\ Targets \subseteq Participant \cup Elsewhere
    /\ GrantRoles \subseteq Role
    /\ Asks \subseteq ActionType

VARIABLES
    req,       \* req[w]: the request worker w serves
    token,     \* the participants whose client holds its room token
    sockets,   \* sockets[p]: WebSocket connections p has open
    clock,     \* now, against the room's ExpiresAt
    ended,     \* history: some EndRoom has completed
    kicked,    \* history: the targets of completed kicks
    expelled,  \* history: kicked, and who held a token when an EndRoom completed
    attended   \* history: who has ever had a socket open

history == <<ended, kicked, expelled, attended>>
vars == <<db, req, token, sockets, clock, history>>

-----------------------------------------------------------------------------
(* Requests in flight *)

JoinPoint == {"join.count", "join.insert", "join.session", "join.reply"}
EndPoint == {"end.status", "end.revoke"}
LeavePoint == {"leave.release", "leave.status"}
KickPoint == {"kick.release", "kick.status", "kick.revoke"}
StagePoint == {"start.claim", "start.status", "stop.release", "stop.status"}
TransferPoint == {"xfer.target", "xfer.promote", "xfer.from", "xfer.demote",
                  "xfer.clear", "xfer.set"}
AskPoint == {"request", "accept", "decline", "resolve.read"}
Point == JoinPoint \cup EndPoint \cup LeavePoint \cup KickPoint \cup StagePoint
         \cup TransferPoint \cup AskPoint
         \cup {"idle", "identify", "pause", "resume", "role.write", "ws.open"}

Anyone == Participant \cup Elsewhere

\* by: claims.ParticipantID; from, to: a transfer's, to also whom a kick or a
\* role change names and whose request is answered; arg: the role or the kind
\* of request the body carries.
Request == [at : Point,
            by : Anyone \cup {Null},
            from : Anyone \cup {Null},
            to : Anyone \cup {Null},
            arg : Role \cup ActionType \cup {Null}]

Idle == [at |-> "idle", by |-> Null, from |-> Null, to |-> Null, arg |-> Null]

At(w, point) == req[w].at = point
Goto(w, point) == req' = [req EXCEPT ![w].at = point]
Finish(w) == req' = [req EXCEPT ![w] = Idle]
\* claims.RoomID is this room.
OwnRoom(w) == req[w].by \in Participant

Quiet == \A w \in Worker : At(w, "idle")

\* Of each request, one SQL statement and the move to the next point: nothing
\* outside the database and the request changes.
OnlyDb == UNCHANGED <<token, sockets, clock, history>>

Init ==
    /\ StoreInit
    /\ req = [w \in Worker |-> Idle]
    /\ token = {Owner}
    /\ sockets = [p \in Participant |-> 0]
    /\ clock = "before"
    /\ ended = FALSE
    /\ kicked = {} /\ expelled = {} /\ attended = {}

-----------------------------------------------------------------------------
(* RequireRoomAuth: two reads, the session and then the participant.  What *)
(* the second one finds (role and status) decides; the handler that runs   *)
(* next never looks at the participant's row again.  Of a caller of        *)
(* another room the rows are there: it may have any role.                  *)

Authenticate(w, p) ==
    /\ At(w, "idle")
    /\ p \in Participant => p \in token /\ clock = "before" /\ session[p] = "VALID"
    /\ req' = [req EXCEPT ![w] = [Idle EXCEPT !.at = "identify", !.by = p]]
    /\ UNCHANGED db /\ OnlyDb

NotKicked(p) == p \in Participant => row[p].status # "KICKED"

\* A request for the operation op passes the middleware, and the service's
\* check of the role just read when the operation has one; its handler goes on
\* from `point' with what its path and body name.  What a caller of another room
\* does in that room alone is not followed.
Admit(w, op, point, from, to, arg) ==
    /\ op \in Ops
    /\ At(w, "identify") /\ NotKicked(req[w].by)
    /\ OwnRoom(w) \/ to \in Participant
    /\ req' = [req EXCEPT ![w] =
                 [@ EXCEPT !.at = point, !.from = from, !.to = to, !.arg = arg]]
    /\ UNCHANGED db /\ OnlyDb

May(w, what) ==
    At(w, "identify") /\ \E role \in RolesFound(req[w].by) : Can(role, what)

\* Whom a request may name.  The ids of this room are UUIDs that JoinRoom makes up,
\* so nobody can name one before its row is there; no handler asks for its room.
Nameable(p) == p \in Participant => Exists(p)

\* The request is refused (session revoked, forbidden, a body that does not
\* parse), or it only reads (GetRoom, ListParticipants, ListPendingActions).
Refuse(w) ==
    /\ At(w, "identify")
    /\ Finish(w)
    /\ UNCHANGED db /\ OnlyDb

\* Any statement may fail, and the context is cancelled when the client goes
\* away: the operation returns there and what it has written stays.
Fail(w) ==
    /\ "failure" \in Faults
    /\ ~At(w, "idle")
    /\ Finish(w)
    /\ UNCHANGED db /\ OnlyDb

-----------------------------------------------------------------------------
(* JoinRoom.  Not authenticated; the room's row is read first. *)

\* BOUND: as many joins are let through as there are ids left to issue.
IdsLeft == Cardinality({p \in Participant : ~Exists(p)})
              > Cardinality({w \in Worker : req[w].at \in {"join.count", "join.insert"}})

\* Mutation: the room's status is not looked at.
JoinCheckOpen(w) ==
    /\ "join" \in Ops /\ IdsLeft
    /\ At(w, "idle")
    /\ clock # "after"
    /\ Goto(w, IF Local THEN "join.count" ELSE "join.insert")
    /\ UNCHANGED db /\ OnlyDb

JoinCheck(w) ==
    /\ "join" \in Ops /\ IdsLeft
    /\ At(w, "idle")
    /\ room.status # "ENDED" /\ clock # "after"
    /\ Goto(w, IF Local THEN "join.count" ELSE "join.insert")
    /\ UNCHANGED db /\ OnlyDb

\* Mutation: one more than the limit is let in.
JoinCountOffByOne(w) ==
    /\ At(w, "join.count")
    /\ IF Cardinality(Connected) <= MaxLocal THEN Goto(w, "join.insert") ELSE Finish(w)
    /\ UNCHANGED db /\ OnlyDb

JoinCount(w) ==
    /\ At(w, "join.count")
    /\ IF Cardinality(Connected) < MaxLocal THEN Goto(w, "join.insert") ELSE Finish(w)
    /\ UNCHANGED db /\ OnlyDb

\* p is the UUID the service has just made up: no row has it.
JoinInsert(w, p) ==
    /\ At(w, "join.insert")
    /\ ~Exists(p)
    /\ CreateParticipant(p)
    /\ req' = [req EXCEPT ![w] = [@ EXCEPT !.at = "join.session", !.by = p]]
    /\ OnlyDb

JoinSession(w) ==
    /\ At(w, "join.session")
    /\ CreateSession(req[w].by)
    /\ Goto(w, "join.reply")
    /\ OnlyDb

JoinReply(w) ==
    /\ At(w, "join.reply")
    /\ token' = token \cup {req[w].by}
    /\ Finish(w)
    /\ UNCHANGED <<db, sockets, clock, history>>

-----------------------------------------------------------------------------
(* LeaveRoom, called by the leave handler and by every socket's close. *)

BeginLeave(w) == Admit(w, "leave", "leave.release", Null, Null, Null)

LeaveRelease(w) ==
    /\ At(w, "leave.release")
    /\ ReleasePresenterForParticipant(req[w].by)
    /\ Goto(w, "leave.status")
    /\ OnlyDb

LeaveStatus(w) ==
    /\ At(w, "leave.status")
    /\ UpdateParticipantStatus(req[w].by, "DISCONNECTED")
    /\ Finish(w)
    /\ OnlyDb

-----------------------------------------------------------------------------
(* EndRoom *)

BeginEnd(w) == May(w, "END_ROOM") /\ Admit(w, "end", "end.status", Null, Null, Null)

EndStatus(w) ==
    /\ At(w, "end.status")
    /\ UpdateRoomStatus("ENDED")
    /\ Goto(w, "end.revoke")
    /\ OnlyDb

EndRevoke(w) ==
    /\ At(w, "end.revoke")
    /\ RevokeSessionsForRoom
    /\ Finish(w)
    /\ ended' = TRUE
    /\ expelled' = expelled \cup token
    /\ UNCHANGED <<token, sockets, clock, kicked, attended>>

-----------------------------------------------------------------------------
(* SetPaused *)

BeginPause(w) == May(w, "PAUSE_RESUME") /\ Admit(w, "pause", "pause", Null, Null, Null)
BeginResume(w) == May(w, "PAUSE_RESUME") /\ Admit(w, "pause", "resume", Null, Null, Null)

SetPaused(w) ==
    /\ \/ At(w, "pause") /\ UpdateRoomStatus("PAUSED")
       \/ At(w, "resume") /\ UpdateRoomStatus("WAITING")
    /\ Finish(w)
    /\ OnlyDb

-----------------------------------------------------------------------------
(* StartPresenting and StopPresenting *)

BeginStart(w) == May(w, "START_PRESENT") /\ Admit(w, "start", "start.claim", Null, Null, Null)

StartClaim(w) ==
    /\ At(w, "start.claim")
    /\ \/ /\ ClaimPresenter(req[w].by)
          /\ Goto(w, "start.status")
       \/ /\ ~PresenterFreeFor(req[w].by)
          /\ Finish(w)
          /\ UNCHANGED db
    /\ OnlyDb

StartStatus(w) ==
    /\ At(w, "start.status")
    /\ UpdateRoomStatus("PRESENTING")
    /\ Finish(w)
    /\ OnlyDb

BeginStop(w) == Admit(w, "stop", "stop.release", Null, Null, Null)

StopRelease(w) ==
    /\ At(w, "stop.release")
    /\ ReleasePresenter(req[w].by)
    /\ Goto(w, "stop.status")
    /\ OnlyDb

\* Whether or not the release found the slot held by the caller.
StopStatus(w) ==
    /\ At(w, "stop.status")
    /\ UpdateRoomStatus("WAITING")
    /\ Finish(w)
    /\ OnlyDb

-----------------------------------------------------------------------------
(* KickParticipant *)

\* Mutation: the path parameter is read under another name.
BeginKickUnnamed(w, target) ==
    May(w, "KICK") /\ Nameable(target) /\ Admit(w, "kick", "kick.release", Null, Null, Null)

BeginKick(w, target) ==
    /\ May(w, "KICK")
    /\ Nameable(target)
    /\ Admit(w, "kick", "kick.release", Null, target, Null)

\* Mutation: the sessions are revoked, the status is not written.
KickReleaseThenRevoke(w) ==
    /\ At(w, "kick.release")
    /\ ReleasePresenterForParticipant(req[w].to)
    /\ Goto(w, "kick.revoke")
    /\ OnlyDb

KickRelease(w) ==
    /\ At(w, "kick.release")
    /\ ReleasePresenterForParticipant(req[w].to)
    /\ Goto(w, "kick.status")
    /\ OnlyDb

\* Mutation: the kick is written like a departure.
KickStatusAsLeave(w) ==
    /\ At(w, "kick.status")
    /\ UpdateParticipantStatus(req[w].to, "DISCONNECTED")
    /\ Goto(w, "kick.revoke")
    /\ OnlyDb

KickStatus(w) ==
    /\ At(w, "kick.status")
    /\ UpdateParticipantStatus(req[w].to, "KICKED")
    /\ Goto(w, "kick.revoke")
    /\ OnlyDb

KickRevoke(w) ==
    /\ At(w, "kick.revoke")
    /\ RevokeSessionsForParticipant(req[w].to)
    /\ Finish(w)
    /\ kicked' = kicked \cup ({req[w].to} \cap Participant)
    /\ expelled' = expelled \cup ({req[w].to} \cap Participant)
    /\ UNCHANGED <<token, sockets, clock, ended, attended>>

-----------------------------------------------------------------------------
(* ChangeRole *)

BeginRole(w, target, role) ==
    /\ May(w, "PROMOTE_DEMOTE")
    /\ Nameable(target)
    /\ Admit(w, "role", "role.write", Null, target, role)

RoleWrite(w) ==
    /\ At(w, "role.write")
    /\ UpdateParticipantRole(req[w].to, req[w].arg)
    /\ Finish(w)
    /\ OnlyDb

-----------------------------------------------------------------------------
(* TransferPresenter: reads and writes alternate, each a statement of its  *)
(* own.  A request's answer calls it with no `from'.                       *)

BeginTransfer(w, target) ==
    /\ May(w, "TRANSFER_PRESENTER")
    /\ Nameable(target)
    /\ Admit(w, "transfer", "xfer.target", req[w].by, target, Null)

AfterPromotion(w) == IF req[w].from \in {Null, req[w].to} THEN "xfer.clear" ELSE "xfer.from"

\* Mutation: the target is made PRESENTER whatever it was.
TransferToAnyone(w) ==
    /\ At(w, "xfer.target")
    /\ Goto(w, "xfer.promote")
    /\ UNCHANGED db /\ OnlyDb

TransferTarget(w) ==
    /\ At(w, "xfer.target")
    /\ \E role \in RolesFound(req[w].to) :
          Goto(w, IF role \in {"OWNER", "HOST"} THEN AfterPromotion(w) ELSE "xfer.promote")
    /\ UNCHANGED db /\ OnlyDb

\* GetParticipantByID finds no row, in no room.
TransferNotFound(w) ==
    /\ At(w, "xfer.target") /\ req[w].to \in Elsewhere
    /\ Finish(w)
    /\ UNCHANGED db /\ OnlyDb

TransferPromote(w) ==
    /\ At(w, "xfer.promote")
    /\ UpdateParticipantRole(req[w].to, "PRESENTER")
    /\ Goto(w, AfterPromotion(w))
    /\ OnlyDb

\* A failure of this read, unlike the others, skips the demotion and goes on.
TransferFrom(w) ==
    /\ At(w, "xfer.from")
    /\ \/ \E role \in RolesFound(req[w].from) :
             Goto(w, IF role = "PRESENTER" THEN "xfer.demote" ELSE "xfer.clear")
       \/ "failure" \in Faults /\ Goto(w, "xfer.clear")
    /\ UNCHANGED db /\ OnlyDb

\* Its error is ignored.
TransferDemote(w) ==
    /\ At(w, "xfer.demote")
    /\ \/ UpdateParticipantRole(req[w].from, "PARTICIPANT")
       \/ "failure" \in Faults /\ UNCHANGED db
    /\ Goto(w, "xfer.clear")
    /\ OnlyDb

\* Mutation: nobody else's flag is cleared.
TransferKeepOthers(w) ==
    /\ At(w, "xfer.clear")
    /\ Goto(w, "xfer.set")
    /\ UNCHANGED db /\ OnlyDb

TransferClear(w) ==
    /\ At(w, "xfer.clear")
    /\ ClearOtherPrimaries(OwnRoom(w), req[w].to)
    /\ Goto(w, "xfer.set")
    /\ OnlyDb

TransferSet(w) ==
    /\ At(w, "xfer.set")
    /\ SetParticipantPrimary(OwnRoom(w), req[w].to)
    /\ Finish(w)
    /\ OnlyDb

-----------------------------------------------------------------------------
(* RequestAction and ResolveAction.  Asking needs no right. *)

\* BOUND: one request for the stage per participant (see Store).
HasNotAsked(p) ==
    action[p].status = "ABSENT" /\ \A w \in Worker : At(w, "request") => req[w].by # p

BeginRequest(w, type) ==
    /\ At(w, "identify") /\ OwnRoom(w) /\ HasNotAsked(req[w].by)
    /\ Admit(w, "request", "request", Null, Null, type)

RequestAction(w) ==
    /\ At(w, "request")
    /\ CreateAction(req[w].by, req[w].arg)
    /\ Finish(w)
    /\ OnlyDb

BeginResolve(w, asker, point) ==
    /\ May(w, "RESOLVE_ACTION")
    /\ asker \in Participant => action[asker].status # "ABSENT"
    /\ Admit(w, "resolve", point, Null, asker, Null)

Accept(w) ==
    /\ At(w, "accept")
    /\ ResolveAction(req[w].to, "ACCEPTED")
    /\ Goto(w, "resolve.read")
    /\ OnlyDb

\* The row is read back here too, for the reply only.
Decline(w) ==
    /\ At(w, "decline")
    /\ ResolveAction(req[w].to, "DECLINED")
    /\ Finish(w)
    /\ OnlyDb

\* Mutation: one of the two kinds is forgotten.
ResolveReadPresenterOnly(w) ==
    /\ At(w, "resolve.read")
    /\ \E type \in TypesFound(req[w].to) :
          IF type = "REQUEST_PRESENTER" THEN Goto(w, "xfer.target") ELSE Finish(w)
    /\ UNCHANGED db /\ OnlyDb

\* GetActionByID; what was asked for decides whether a transfer follows.  The
\* right to transfer is checked on the role read at the start, and every role
\* that may answer a request may also transfer.  The transfer is one of the
\* caller's room, whosever request it was.
ResolveRead(w) ==
    /\ At(w, "resolve.read")
    /\ \E type \in TypesFound(req[w].to) :
          IF type \in {"REQUEST_PRESENTER", "REQUEST_STAGE"}
          THEN Goto(w, "xfer.target")
          ELSE Finish(w)
    /\ UNCHANGED db /\ OnlyDb

-----------------------------------------------------------------------------
(* The room's WebSocket: its handshake is one more authenticated request.  *)
(* A close is served by the connection's own goroutine with a context of   *)
(* its own, and nobody authenticates it.                                   *)

BeginSocket(w) == Admit(w, "socket", "ws.open", Null, Null, Null)

OpenSocket(w) ==
    /\ At(w, "ws.open")
    /\ sockets[req[w].by] < MaxSockets
    /\ sockets' = [sockets EXCEPT ![req[w].by] = @ + 1]
    /\ attended' = attended \cup {req[w].by}
    /\ Finish(w)
    /\ UNCHANGED <<db, token, clock, ended, kicked, expelled>>

\* The upgrade fails, or the client is gone.
AbandonSocket(w) ==
    /\ At(w, "ws.open")
    /\ Finish(w)
    /\ UNCHANGED db /\ OnlyDb

\* Mutation: the handler uses the request's context, cancelled long ago.
CloseSocketCancelled(w, p) ==
    /\ At(w, "idle")
    /\ sockets[p] > 0
    /\ sockets' = [sockets EXCEPT ![p] = @ - 1]
    /\ UNCHANGED <<db, req, token, clock, history>>

CloseSocket(w, p) ==
    /\ At(w, "idle")
    /\ sockets[p] > 0
    /\ sockets' = [sockets EXCEPT ![p] = @ - 1]
    /\ req' = [req EXCEPT ![w] = [Idle EXCEPT !.at = "leave.release", !.by = p]]
    /\ UNCHANGED <<db, token, clock, history>>

-----------------------------------------------------------------------------
(* Time, and the process *)

Tick ==
    /\ "expiry" \in Faults
    /\ \/ clock = "before" /\ clock' = "at"
       \/ clock = "at" /\ clock' = "after"
    /\ UNCHANGED <<db, req, token, sockets, history>>

\* What is in memory is lost (requests, sockets); the tables stay, and so do
\* the tokens the clients hold.  No close handler runs.
Restart ==
    /\ "restart" \in Faults
    /\ req' = [w \in Worker |-> Idle]
    /\ sockets' = [p \in Participant |-> 0]
    /\ UNCHANGED <<db, token, clock, history>>

-----------------------------------------------------------------------------

Begin(w) ==
    \/ BeginLeave(w) \/ BeginEnd(w) \/ BeginPause(w) \/ BeginResume(w)
    \/ BeginStart(w) \/ BeginStop(w) \/ BeginSocket(w)
    \/ \E target \in Targets :
          \/ BeginKick(w, target)
          \/ BeginTransfer(w, target)
          \/ \E role \in GrantRoles : BeginRole(w, target, role)
    \/ \E type \in Asks : BeginRequest(w, type)
    \/ \E asker \in Anyone, point \in {"accept", "decline"} :
          BeginResolve(w, asker, point)

Serve(w) ==
    \/ JoinCount(w) \/ (\E p \in Participant : JoinInsert(w, p))
    \/ JoinSession(w) \/ JoinReply(w)
    \/ LeaveRelease(w) \/ LeaveStatus(w)
    \/ EndStatus(w) \/ EndRevoke(w)
    \/ SetPaused(w)
    \/ StartClaim(w) \/ StartStatus(w) \/ StopRelease(w) \/ StopStatus(w)
    \/ KickRelease(w) \/ KickStatus(w) \/ KickRevoke(w)
    \/ RoleWrite(w)
    \/ TransferTarget(w) \/ TransferNotFound(w) \/ TransferPromote(w)
    \/ TransferFrom(w) \/ TransferDemote(w) \/ TransferClear(w) \/ TransferSet(w)
    \/ RequestAction(w) \/ Accept(w) \/ Decline(w) \/ ResolveRead(w)
    \/ OpenSocket(w) \/ AbandonSocket(w)

Next ==
    \/ \E w \in Worker :
          \/ JoinCheck(w)
          \/ \E p \in Anyone : Authenticate(w, p)
          \/ \E p \in Participant : CloseSocket(w, p)
          \/ Begin(w) \/ Refuse(w) \/ Fail(w) \/ Serve(w)
    \/ Tick \/ Restart

Spec == Init /\ [][Next]_vars

\* Every goroutine that stands between two statements is scheduled again.
Fairness == \A w \in Worker : WF_vars(Serve(w) \/ Refuse(w))
FairSpec == Spec /\ Fairness

-----------------------------------------------------------------------------
(* Type invariant *)

\* Where a request is about somebody its path or body has named.
NamingPoint == KickPoint \cup TransferPoint
               \cup {"role.write", "accept", "decline", "resolve.read"}

\* r carries what a request needs to stand at that point.
Carries(r, point) ==
    /\ r.by = Null => point \in {"idle", "join.count", "join.insert"}
    /\ point = "idle" => r.by = Null
    /\ point \in {"xfer.from", "xfer.demote"} => r.from \in Anyone
    /\ point \in NamingPoint => r.to \in Anyone
    /\ r.by \in Elsewhere /\ point # "identify" =>
          point \in NamingPoint /\ r.to \in Participant
    /\ point = "role.write" => r.arg \in Role
    /\ point = "request" => r.arg \in ActionType

ReqOK == req \in [Worker -> Request] /\ \A w \in Worker : Carries(req[w], req[w].at)

ClientsOK ==
    /\ token \subseteq Participant
    /\ sockets \in [Participant -> Nat]
    /\ clock \in {"before", "at", "after"}
    /\ ended \in BOOLEAN
    /\ expelled \subseteq Participant /\ kicked \subseteq expelled
    /\ attended \subseteq Participant

\* Type of the tables, of the requests in flight (each carries what its next
\* statement needs) and of the clients' state.
TypeOK == StoreTypeOK /\ ReqOK /\ ClientsOK

-----------------------------------------------------------------------------
(* Membership *)

\* A participant the middleware lets through now.
CanAuthenticate(p) == p \in token /\ session[p] = "VALID" /\ NotKicked(p)

\* Once a kick has completed its target never passes the middleware again, and
\* once an EndRoom has completed nobody who held a token then does, whatever
\* else is in flight: a join of theirs that mints its session after the kick has
\* revoked it, their own leave or close that overwrites KICKED, a second kick.
ExpelledStayOut == \A p \in expelled : ~CanAuthenticate(p)

\* Nor is the target of a completed kick ever listed again (ListParticipants).
KickedAreUnlisted == kicked \cap Connected = {}

\* What p has going on is at most a join, and requests the middleware has yet to
\* look up in room_participants.
Outside(p) ==
    /\ sockets[p] = 0
    /\ \A w \in Worker : req[w].by = p => req[w].at \in {"identify", "join.session", "join.reply"}

\* p has a socket, a request past the middleware, or one it would let through.
IsInside(p) ==
    \/ ~Outside(p)
    \/ NotKicked(p) /\ \E w \in Worker : At(w, "identify") /\ req[w].by = p

Member == INSTANCE Membership WITH
    joined <- {p \in Participant : Exists(p)},
    listed <- Connected,
    role <- [p \in Participant |-> row[p].role],
    holders <- token,
    inside <- {p \in Participant : IsInside(p)},
    barred <- expelled,
    holder <- room.presenter

\* Statement by statement, whatever interleaves, fails or is lost in a restart, the
\* room is one of Membership: rows come once and go off the list for good, a kick
\* is over only when its target is off the list, the stage goes to nobody but one
\* the server is serving, and nobody gets in who has been put out.
ImplementsMembership == Member!Spec

\* Somebody put out may still have a request in flight that was let through, even
\* one whose session was read before the kick and whose KICKED a leave of its own
\* has overwritten since.  Once it has none and no socket, it has got out: it never
\* gets in again and never gets the stage.
OutForGood == Member!OutForGood

\* Joins count and insert in two statements, so the limit of a local room can be
\* passed, but only by the joins that were in flight together.
CapacityOvershoot ==
    Local => Cardinality(Connected) <= MaxLocal + Cardinality(Worker) - 1

\* The room is over: marked ENDED, no token still opens it, and nothing of it is in
\* flight but the departures of those whose sockets close.
Over ==
    /\ room.status = "ENDED"
    /\ \A p \in token : session[p] # "VALID"
    /\ \A w \in Worker :
          req[w].at \in {"idle"} \cup LeavePoint \/ req[w].by \in Elsewhere

\* An ended room with nothing else in flight never reopens: no later call, join
\* or restart gets it out of ENDED or lets anybody in, and no host of another room.
OverForGood == [][Over => Over']_vars

\* Somebody who had a socket open and has none left is not listed, once the
\* close handlers have run (OnClose in handleRoomWebSocket).
NoPhantom ==
    Quiet => \A p \in attended : sockets[p] = 0 => p \notin Connected

Leaves(w, p) == req[w].at \in LeavePoint /\ req[w].by = p

\* Listed, though the last socket has closed and nothing is about to notice.
Phantom(p) ==
    /\ p \in attended \cap Connected /\ sockets[p] = 0
    /\ \A w \in Worker : ~Leaves(w, p)

\* Whatever fails, a participant becomes one in two ways only: the process is
\* killed, or a statement of its own leave fails.
PhantomsAreCutLeaves ==
    [][\A p \in Participant :
          Phantom(p)' /\ ~Phantom(p) =>
             Restart \/ \E w \in Worker : Leaves(w, p) /\ Fail(w)]_vars

\* ... and they do run: whoever's last socket closes goes off the list.
ClosedGoesOffList ==
    \A p \in Participant :
       (p \in attended /\ sockets[p] = 0) ~> (p \notin Connected \/ sockets[p] > 0)

-----------------------------------------------------------------------------
(* The stage *)

\* The holder of the presenter slot loses it only to a release of its own (it
\* stops, leaves or a socket of its closes) or to a kick of it, and the slot is
\* then free: nobody's late stop and nobody's claim takes it away.
StageKept ==
    [][\A p \in Participant :
          room.presenter = p /\ room'.presenter # p =>
             /\ room'.presenter = Null
             /\ \E w \in Worker :
                   \/ req[w].at \in {"stop.release", "leave.release"} /\ req[w].by = p
                   \/ req[w].at = "kick.release" /\ req[w].to = p]_vars

-----------------------------------------------------------------------------
(* Roles and the spotlight *)

Primaries == {p \in Participant : row[p].primary}

\* The transfers that are about to set a flag here.
Setting == {w \in Worker : At(w, "xfer.set") /\ OwnRoom(w) /\ req[w].to \in Participant}

\* Transfers clear everybody else's flag and set their own target's in two
\* statements, so concurrent ones can leave several flags set, but never more
\* than there were transfers in flight together.
PrimariesBounded == Cardinality(Primaries) <= Cardinality(Worker)

\* A transfer, or the process, stops between clearing everybody else's flag and
\* setting its target's.
CutShort == Restart \/ \E w \in Setting : Fail(w)

\* A host of this room hands the spotlight to somebody of another: everybody's flag
\* is cleared here, and nobody's is set.
HandedAway == \E w \in Worker : OwnRoom(w) /\ req[w].to \in Elsewhere /\ TransferClear(w)

\* The spotlight is lost in these two ways and in no other: once somebody has it,
\* somebody has it or a transfer is about to set it at every moment, whatever
\* transfers, of hosts of other rooms too, role changes and other failures interleave.
SpotlightKept ==
    [][(Primaries # {} \/ Setting # {}) /\ ~CutShort /\ ~HandedAway
          => Primaries' # {} \/ Setting' # {}]_vars

\* As long as hosts hand out no OWNER role, a transfer never takes it away, in
\* whatever order its reads and writes interleave with other role changes: only
\* an explicit role change of that participant does.
OwnerKept ==
    [][\A p \in Participant :
          "OWNER" \notin GrantRoles /\ row[p].role = "OWNER" /\ row'[p].role # "OWNER" =>
             \E w \in Worker : At(w, "role.write") /\ req[w].to = p]_vars

-----------------------------------------------------------------------------
(* Requests for the stage *)

Granted(p) ==
    action[p].status = "ACCEPTED" /\ action[p].type \in {"REQUEST_PRESENTER", "REQUEST_STAGE"}

\* w is about to make p a presenter, or to find that p need not be.
Promotes(w, p) ==
    req[w].at \in {"resolve.read", "xfer.target", "xfer.promote"} /\ req[w].to = p

\* A request of p's stands accepted, p may not present and is not about to.
Owed(p) ==
    /\ Granted(p) /\ ~Can(row[p].role, "START_PRESENT")
    /\ \A w \in Worker : ~Promotes(w, p)

\* However many hosts answer at once, and not all the same way, whoever's request
\* for the stage is accepted gets the right to present, unless the answer is cut
\* off before it has; and keeps it but for a later role change or transfer of its own.
GrantsKept ==
    [][\A p \in Participant :
          Owed(p)' /\ ~Owed(p) =>
             \/ Restart
             \/ \E w \in Worker :
                   \/ Promotes(w, p) /\ Fail(w)
                   \/ At(w, "role.write") /\ req[w].to = p
                   \/ At(w, "xfer.demote") /\ req[w].from = p]_vars

-----------------------------------------------------------------------------
(* What the repository says of the program, and the program does not do.   *)

\* README: "an ended room can't be joined"; JoinRoom answers ErrRoomEnded.
EndIsFinal == ended => room.status = "ENDED"

\* store: the slot is cleared when a participant is removed "so the stage
\* doesn't stay locked by someone who has left the room".
RemovedHoldNoStage == Quiet => room.presenter \notin kicked

\* local-capacity.py: a local room admits exactly its limit.
CapacityHeld == Local => Cardinality(Connected) <= MaxLocal

=============================================================================
