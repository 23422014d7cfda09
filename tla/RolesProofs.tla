---------------------------- MODULE RolesProofs ----------------------------
(***************************************************************************)
(* Theorems about roles, the spotlight (is_primary) and requests for the   *)
(* stage in RoomService.                                                   *)
(***************************************************************************)
EXTENDS StageProofs

USE StoreAssumption, RoomServiceAssumption

-----------------------------------------------------------------------------
(* Which steps write a participant's role, flag or status *)

WritesRow(w) ==
    \/ \E p \in Participant : JoinInsert(w, p)
    \/ LeaveStatus(w) \/ KickStatus(w) \/ RoleWrite(w)
    \/ TransferPromote(w) \/ TransferDemote(w) \/ TransferClear(w) \/ TransferSet(w)

LEMMA StatementsKeepRows ==
    /\ UNCHANGED db => UNCHANGED row
    /\ \A s : UpdateRoomStatus(s) => UNCHANGED row
    /\ \A p :
          /\ ClaimPresenter(p) => UNCHANGED row
          /\ ReleasePresenter(p) => UNCHANGED row
          /\ ReleasePresenterForParticipant(p) => UNCHANGED row
          /\ CreateSession(p) => UNCHANGED row
          /\ RevokeSessionsForParticipant(p) => UNCHANGED row
          /\ \A t : CreateAction(p, t) => UNCHANGED row
          /\ \A s : ResolveAction(p, s) => UNCHANGED row
    /\ RevokeSessionsForRoom => UNCHANGED row
    BY DEF db, UpdateRoomStatus, ClaimPresenter, ReleasePresenter, ReleasePresenterForParticipant,
           CreateSession, RevokeSessionsForParticipant, CreateAction, ResolveAction,
           RevokeSessionsForRoom

LEMMA RowSteps ==
    ASSUME [Next]_vars, row' # row
    PROVE  \E w \in Worker : WritesRow(w)
<1> USE StatementsKeepRows DEF WritesRow
<1>1. ASSUME NEW w \in Worker, JoinCheck(w) \/ Begin(w) \/ Refuse(w) \/ Fail(w)
      PROVE  FALSE
    BY <1>1, BeginWritesNothing DEF JoinCheck, Refuse, Fail
<1>2. ASSUME NEW w \in Worker, NEW p \in Anyone, Authenticate(w, p) \/ CloseSocket(w, p)
      PROVE  FALSE
    BY <1>2 DEF Authenticate, CloseSocket
<1>3. CASE Tick \/ Restart \/ UNCHANGED vars
    BY <1>3 DEF Tick, Restart, vars
<1>4. ASSUME NEW w \in Worker, JoinCount(w) \/ JoinSession(w) \/ JoinReply(w) \/ LeaveRelease(w)
                               \/ EndStatus(w) \/ EndRevoke(w) \/ SetPaused(w)
      PROVE  FALSE
    BY <1>4 DEF JoinCount, JoinSession, JoinReply, LeaveRelease, EndStatus, EndRevoke, SetPaused
<1>5. ASSUME NEW w \in Worker, StartClaim(w) \/ StartStatus(w) \/ StopRelease(w) \/ StopStatus(w)
                               \/ KickRelease(w) \/ KickRevoke(w)
      PROVE  FALSE
    BY <1>5 DEF StartClaim, StartStatus, StopRelease, StopStatus, KickRelease, KickRevoke
<1>6. ASSUME NEW w \in Worker,
             \/ TransferTarget(w) \/ TransferNotFound(w) \/ TransferFrom(w) \/ RequestAction(w)
             \/ Accept(w) \/ Decline(w) \/ ResolveRead(w) \/ OpenSocket(w) \/ AbandonSocket(w)
      PROVE  FALSE
    BY <1>6 DEF TransferTarget, TransferNotFound, TransferFrom, RequestAction, Accept, Decline, ResolveRead,
                OpenSocket, AbandonSocket
<1>7. ASSUME NEW w \in Worker, Serve(w)
      PROVE  WritesRow(w)
    BY <1>4, <1>5, <1>6, <1>7 DEF Serve
<1>8. CASE Next
    BY <1>1, <1>2, <1>3, <1>7, <1>8 DEF Next, Anyone
<1> QED
    BY <1>3, <1>8

\* What each of them writes.  The two statements of a transfer that are about a
\* room do nothing here when the caller is of another.
LEMMA RowWritten ==
    ASSUME TypeOK, NEW w \in Worker, NEW p \in Participant
    PROVE  /\ \A q \in Participant : JoinInsert(w, q) =>
                 /\ ~Exists(q) /\ (p = q => row'[p] = NewRow("CONNECTED", "PARTICIPANT"))
                 /\ (p # q => row'[p] = row[p])
           /\ LeaveStatus(w) \/ KickStatus(w) =>
                 /\ row'[p].role = row[p].role /\ row'[p].primary = row[p].primary
                 /\ row'[p].status \in {row[p].status, "DISCONNECTED", "KICKED"}
           /\ RoleWrite(w) =>
                 /\ row'[p].status = row[p].status /\ row'[p].primary = row[p].primary
                 /\ row'[p].role = IF p = req[w].to THEN req[w].arg ELSE row[p].role
           /\ TransferPromote(w) =>
                 /\ row'[p].status = row[p].status /\ row'[p].primary = row[p].primary
                 /\ row'[p].role = IF p = req[w].to THEN "PRESENTER" ELSE row[p].role
           /\ TransferDemote(w) =>
                 /\ row'[p].status = row[p].status /\ row'[p].primary = row[p].primary
                 /\ row'[p].role = row[p].role
                       \/ (p = req[w].from /\ row'[p].role = "PARTICIPANT")
           /\ TransferClear(w) =>
                 /\ row'[p].status = row[p].status /\ row'[p].role = row[p].role
                 /\ OwnRoom(w) /\ p # req[w].to => row'[p].primary = FALSE
                 /\ ~OwnRoom(w) \/ p = req[w].to => row'[p].primary = row[p].primary
           /\ TransferSet(w) =>
                 /\ row'[p].status = row[p].status /\ row'[p].role = row[p].role
                 /\ OwnRoom(w) /\ p = req[w].to => row'[p].primary = TRUE
                 /\ ~OwnRoom(w) \/ p # req[w].to => row'[p].primary = row[p].primary
<1> USE DEF TypeOK, StoreTypeOK, At
<1>1. ASSUME NEW q \in Participant, JoinInsert(w, q)
      PROVE  /\ ~Exists(q) /\ (p = q => row'[p] = NewRow("CONNECTED", "PARTICIPANT"))
             /\ (p # q => row'[p] = row[p])
    BY <1>1 DEF JoinInsert, CreateParticipant, DefaultRoleForNewParticipant
<1>2. ASSUME LeaveStatus(w) \/ KickStatus(w)
      PROVE  /\ row'[p].role = row[p].role /\ row'[p].primary = row[p].primary
             /\ row'[p].status \in {row[p].status, "DISCONNECTED", "KICKED"}
    <2>1. CASE LeaveStatus(w)
        BY <2>1 DEF LeaveStatus, UpdateParticipantStatus
    <2>2. CASE KickStatus(w)
        BY <2>2 DEF KickStatus, UpdateParticipantStatus
    <2> QED
        BY <1>2, <2>1, <2>2
<1>3. ASSUME RoleWrite(w)
      PROVE  /\ row'[p].status = row[p].status /\ row'[p].primary = row[p].primary
             /\ row'[p].role = IF p = req[w].to THEN req[w].arg ELSE row[p].role
    BY <1>3 DEF RoleWrite, UpdateParticipantRole
<1>4. ASSUME TransferPromote(w)
      PROVE  /\ row'[p].status = row[p].status /\ row'[p].primary = row[p].primary
             /\ row'[p].role = IF p = req[w].to THEN "PRESENTER" ELSE row[p].role
    BY <1>4 DEF TransferPromote, UpdateParticipantRole
<1>5. ASSUME TransferDemote(w)
      PROVE  /\ row'[p].status = row[p].status /\ row'[p].primary = row[p].primary
             /\ row'[p].role = row[p].role \/ (p = req[w].from /\ row'[p].role = "PARTICIPANT")
    BY <1>5 DEF TransferDemote, UpdateParticipantRole, db
<1>6. ASSUME TransferClear(w)
      PROVE  /\ row'[p].status = row[p].status /\ row'[p].role = row[p].role
             /\ OwnRoom(w) /\ p # req[w].to => row'[p].primary = FALSE
             /\ ~OwnRoom(w) \/ p = req[w].to => row'[p].primary = row[p].primary
    <2>1. row'[p] = IF OwnRoom(w) /\ p # req[w].to
                    THEN [row[p] EXCEPT !.primary = FALSE] ELSE row[p]
        BY <1>6 DEF TransferClear, ClearOtherPrimaries
    <2>2. CASE OwnRoom(w) /\ p # req[w].to
        <3>1. row'[p].primary = FALSE
            BY <2>1, <2>2
        <3>2. row'[p].status = row[p].status /\ row'[p].role = row[p].role
            BY <2>1, <2>2
        <3> QED
            BY <2>2, <3>1, <3>2
    <2>3. CASE ~(OwnRoom(w) /\ p # req[w].to)
        BY <2>1, <2>3
    <2> QED
        BY <2>2, <2>3
<1>7. ASSUME TransferSet(w)
      PROVE  /\ row'[p].status = row[p].status /\ row'[p].role = row[p].role
             /\ OwnRoom(w) /\ p = req[w].to => row'[p].primary = TRUE
             /\ ~OwnRoom(w) \/ p # req[w].to => row'[p].primary = row[p].primary
    <2>1. row'[p] = IF OwnRoom(w) /\ p = req[w].to
                    THEN [row[p] EXCEPT !.primary = TRUE] ELSE row[p]
        BY <1>7 DEF TransferSet, SetParticipantPrimary
    <2>2. CASE OwnRoom(w) /\ p = req[w].to
        BY <2>1, <2>2
    <2>3. CASE ~(OwnRoom(w) /\ p = req[w].to)
        BY <2>1, <2>3
    <2> QED
        BY <2>2, <2>3
<1> QED
    BY <1>1, <1>2, <1>3, <1>4, <1>5, <1>6, <1>7

-----------------------------------------------------------------------------
(* How a request comes to stand where it does *)

\* A role is written to the one named, or is PARTICIPANT's.
LEMMA RoleGoesTo ==
    ASSUME TypeOK, NEW w \in Worker, NEW p \in Participant,
           RoleWrite(w) \/ TransferPromote(w) \/ TransferDemote(w),
           RoleWrite(w) \/ TransferPromote(w) => req[w].to # p
    PROVE  row'[p].role \in {row[p].role, "PARTICIPANT"}
<1>1. CASE RoleWrite(w)
    BY <1>1, RowWritten
<1>2. CASE TransferPromote(w)
    BY <1>2, RowWritten
<1>3. CASE TransferDemote(w)
    BY <1>3, RowWritten
<1> QED
    BY <1>1, <1>2, <1>3

\* A join writes the newcomer's row and no other.
LEMMA OthersStay ==
    ASSUME TypeOK, NEW w \in Worker, NEW p \in Participant, NEW q \in Participant,
           JoinInsert(w, q), p # q
    PROVE  row'[p] = row[p]
BY RowWritten

\* Statements that leave roles alone.
LEMMA RoleStays ==
    ASSUME TypeOK, NEW w \in Worker, NEW p \in Participant,
           LeaveStatus(w) \/ KickStatus(w) \/ TransferClear(w) \/ TransferSet(w)
    PROVE  row'[p].role = row[p].role
<1>1. CASE LeaveStatus(w) \/ KickStatus(w)
    BY <1>1, RowWritten
<1>2. CASE TransferClear(w)
    BY <1>2, RowWritten
<1>3. CASE TransferSet(w)
    BY <1>3, RowWritten
<1> QED
    BY <1>1, <1>2, <1>3

\* A transfer gives out two roles.
LEMMA RoleMoved ==
    ASSUME TypeOK, NEW w \in Worker, NEW p \in Participant,
           TransferPromote(w) \/ TransferDemote(w)
    PROVE  row'[p].role \in {row[p].role, "PRESENTER", "PARTICIPANT"}
<1>1. CASE TransferPromote(w)
    <2>1. row'[p].role = IF p = req[w].to THEN "PRESENTER" ELSE row[p].role
        BY <1>1, RowWritten
    <2> QED
        BY <2>1
<1>2. CASE TransferDemote(w)
    <2>1. row'[p].role = row[p].role \/ row'[p].role = "PARTICIPANT"
        BY <1>2, RowWritten
    <2> QED
        BY <2>1
<1> QED
    BY <1>1, <1>2

\* The statements that write neither a new row nor the flag.
LEMMA FlagStays ==
    ASSUME TypeOK, NEW w \in Worker, NEW p \in Participant,
           LeaveStatus(w) \/ KickStatus(w) \/ RoleWrite(w)
              \/ TransferPromote(w) \/ TransferDemote(w)
    PROVE  row'[p].primary \in {row[p].primary}
<1>1. CASE LeaveStatus(w) \/ KickStatus(w)
    BY <1>1, RowWritten
<1>2. CASE RoleWrite(w)
    BY <1>2, RowWritten
<1>3. CASE TransferPromote(w)
    BY <1>3, RowWritten
<1>4. CASE TransferDemote(w)
    BY <1>4, RowWritten
<1> QED
    BY <1>1, <1>2, <1>3, <1>4

\* What an admitted request stands for.
LEMMA Admitted ==
    ASSUME TypeOK, NEW w \in Worker, NEW op, NEW point, NEW from, NEW to, NEW arg,
           Admit(w, op, point, from, to, arg)
    PROVE  /\ req'[w].at = point /\ req'[w].by = req[w].by /\ req'[w].from = from
           /\ req'[w].to = to /\ req'[w].arg = arg
           /\ \A v \in Worker \ {w} : req'[v] = req[v]
           /\ UNCHANGED db
    BY DEF Admit, TypeOK, ReqOK, Request

LEMMA GoneTo ==
    ASSUME TypeOK, NEW w \in Worker, NEW point, Goto(w, point)
    PROVE  /\ req'[w].at = point /\ req'[w].by = req[w].by /\ req'[w].from = req[w].from
           /\ req'[w].to = req[w].to /\ req'[w].arg = req[w].arg
           /\ \A v \in Worker \ {w} : req'[v] = req[v]
    BY DEF Goto, Request, TypeOK, ReqOK

\* Of the points past the middleware where somebody else is named, each has
\* few ways in.
Ways(w) ==
    /\ req'[w].at = "xfer.target" =>
          ResolveRead(w) \/ \E target \in Targets : BeginTransfer(w, target)
    /\ req'[w].at = "xfer.promote" => TransferTarget(w)
    /\ req'[w].at = "xfer.from" => TransferTarget(w) \/ TransferPromote(w)
    /\ req'[w].at = "xfer.demote" => TransferFrom(w)
    /\ req'[w].at = "xfer.clear" =>
          TransferTarget(w) \/ TransferPromote(w) \/ TransferFrom(w) \/ TransferDemote(w)
    /\ req'[w].at = "xfer.set" => TransferClear(w)
    /\ req'[w].at = "role.write" =>
          \E target \in Targets, role \in GrantRoles : BeginRole(w, target, role)
    /\ req'[w].at = "request" => \E type \in Asks : BeginRequest(w, type)
    /\ req'[w].at \in {"accept", "decline"} =>
          \E asker \in Anyone, point \in {"accept", "decline"} : BeginResolve(w, asker, point)
    /\ req'[w].at = "resolve.read" => Accept(w)

NamedPoint == TransferPoint \cup {"role.write", "request", "accept", "decline", "resolve.read"}

LEMMA WaysElsewhere ==
    ASSUME NEW w \in Worker, req'[w].at \notin NamedPoint
    PROVE  Ways(w)
    BY DEF Ways, NamedPoint, TransferPoint

LEMMA BeginWays ==
    ASSUME TypeOK, NEW w \in Worker, Begin(w)
    PROVE  Ways(w) /\ \A v \in Worker \ {w} : req'[v] = req[v]
<1>1. CASE \/ BeginLeave(w) \/ BeginEnd(w) \/ BeginPause(w) \/ BeginResume(w)
           \/ BeginStart(w) \/ BeginStop(w) \/ BeginSocket(w)
    BY <1>1, Admitted, WaysElsewhere DEF BeginLeave, BeginEnd, BeginPause, BeginResume,
             BeginStart, BeginStop, BeginSocket, NamedPoint, TransferPoint
<1>2. ASSUME NEW target \in Targets, BeginKick(w, target)
      PROVE  Ways(w) /\ \A v \in Worker \ {w} : req'[v] = req[v]
    BY <1>2, Admitted, WaysElsewhere DEF BeginKick, NamedPoint, TransferPoint
<1>3. ASSUME NEW target \in Targets, BeginTransfer(w, target)
      PROVE  Ways(w) /\ \A v \in Worker \ {w} : req'[v] = req[v]
    <2>1. req'[w].at = "xfer.target" /\ \A v \in Worker \ {w} : req'[v] = req[v]
        BY <1>3, Admitted DEF BeginTransfer
    <2> QED
        BY <1>3, <2>1 DEF Ways
<1>4. ASSUME NEW target \in Targets, NEW role \in GrantRoles, BeginRole(w, target, role)
      PROVE  Ways(w) /\ \A v \in Worker \ {w} : req'[v] = req[v]
    <2>1. req'[w].at = "role.write" /\ \A v \in Worker \ {w} : req'[v] = req[v]
        BY <1>4, Admitted DEF BeginRole
    <2> QED
        BY <1>4, <2>1 DEF Ways
<1>5. ASSUME NEW type \in Asks, BeginRequest(w, type)
      PROVE  Ways(w) /\ \A v \in Worker \ {w} : req'[v] = req[v]
    <2>1. req'[w].at = "request" /\ \A v \in Worker \ {w} : req'[v] = req[v]
        BY <1>5, Admitted DEF BeginRequest
    <2> QED
        BY <1>5, <2>1 DEF Ways
<1>6. ASSUME NEW asker \in Anyone, NEW point \in {"accept", "decline"},
             BeginResolve(w, asker, point)
      PROVE  Ways(w) /\ \A v \in Worker \ {w} : req'[v] = req[v]
    <2>1. req'[w].at \in {"accept", "decline"} /\ \A v \in Worker \ {w} : req'[v] = req[v]
        BY <1>6, Admitted DEF BeginResolve
    <2> QED
        BY <1>6, <2>1 DEF Ways
<1> QED
    BY <1>1, <1>2, <1>3, <1>4, <1>5, <1>6 DEF Begin

LEMMA ServeWays ==
    ASSUME TypeOK, NEW w \in Worker, Serve(w) \/ Refuse(w) \/ Fail(w) \/ JoinCheck(w)
    PROVE  Ways(w) /\ \A v \in Worker \ {w} : req'[v] = req[v]
<1> DEFINE Goal == Ways(w) /\ \A v \in Worker \ {w} : req'[v] = req[v]
<1>1. ASSUME Finish(w) PROVE Goal
    BY <1>1, AfterFinish, WaysElsewhere DEF NamedPoint, TransferPoint
<1>2. ASSUME NEW point, Goto(w, point), point \notin NamedPoint PROVE Goal
    BY <1>2, GoneTo, WaysElsewhere
<1>3. ASSUME NEW p \in Participant, JoinInsert(w, p) PROVE Goal
    BY <1>3, WaysElsewhere DEF JoinInsert, NamedPoint, TransferPoint, TypeOK, ReqOK, Request
<1> USE DEF NamedPoint, TransferPoint
<1>4. CASE JoinCheck(w) \/ JoinCount(w)
    <2>1. Finish(w) \/ Goto(w, "join.count") \/ Goto(w, "join.insert")
        BY <1>4 DEF JoinCheck, JoinCount
    <2> QED
        BY <2>1, <1>1, <1>2
<1>5. CASE JoinSession(w) \/ JoinReply(w)
    BY <1>1, <1>2, <1>5 DEF JoinSession, JoinReply
<1>6. CASE \/ LeaveRelease(w) \/ LeaveStatus(w) \/ EndStatus(w) \/ EndRevoke(w) \/ SetPaused(w)
           \/ KickRelease(w) \/ KickStatus(w) \/ KickRevoke(w)
    BY <1>1, <1>2, <1>6 DEF LeaveRelease, LeaveStatus, EndStatus, EndRevoke, SetPaused,
                            KickRelease, KickStatus, KickRevoke
<1>7. CASE \/ StartClaim(w) \/ StartStatus(w) \/ StopRelease(w) \/ StopStatus(w) \/ RoleWrite(w)
           \/ TransferSet(w) \/ RequestAction(w) \/ Decline(w)
    BY <1>1, <1>2, <1>7 DEF StartClaim, StartStatus, StopRelease, StopStatus, RoleWrite,
                            TransferSet, RequestAction, Decline
<1>8. CASE OpenSocket(w) \/ AbandonSocket(w) \/ Refuse(w) \/ Fail(w) \/ TransferNotFound(w)
    BY <1>1, <1>8 DEF OpenSocket, AbandonSocket, Refuse, Fail, TransferNotFound
<1>9. CASE TransferTarget(w) \/ TransferPromote(w)
    <2>1. \/ TransferTarget(w) /\ Goto(w, "xfer.promote")
          \/ Goto(w, "xfer.from") \/ Goto(w, "xfer.clear")
        BY <1>9 DEF TransferTarget, TransferPromote, AfterPromotion
    <2> QED
        BY <1>9, <2>1, GoneTo DEF Ways
<1>10. CASE TransferFrom(w)
    <2>1. Goto(w, "xfer.demote") \/ Goto(w, "xfer.clear")
        BY <1>10 DEF TransferFrom
    <2> QED
        BY <1>10, <2>1, GoneTo DEF Ways
<1>11. CASE TransferDemote(w) \/ TransferClear(w)
    <2>1. \/ TransferDemote(w) /\ Goto(w, "xfer.clear")
          \/ TransferClear(w) /\ Goto(w, "xfer.set")
        BY <1>11 DEF TransferDemote, TransferClear
    <2> QED
        BY <2>1, GoneTo DEF Ways
<1>12. CASE Accept(w)
    <2>1. Goto(w, "resolve.read")
        BY <1>12 DEF Accept
    <2> QED
        BY <1>12, <2>1, GoneTo DEF Ways
<1>13. CASE ResolveRead(w)
    <2>1. Goto(w, "xfer.target") \/ Finish(w)
        BY <1>13 DEF ResolveRead
    <2> QED
        BY <1>1, <1>13, <2>1, GoneTo DEF Ways
<1> QED
    BY <1>3, <1>4, <1>5, <1>6, <1>7, <1>8, <1>9, <1>10, <1>11, <1>12, <1>13 DEF Serve

\* A request either stands where it stood, or got there by a way of its own.
LEMMA Arrivals ==
    ASSUME TypeOK, [Next]_vars, NEW w \in Worker
    PROVE  req'[w] = req[w] \/ Ways(w)
<1>1. ASSUME NEW v \in Worker, NEW p \in Anyone, Authenticate(v, p) \/ CloseSocket(v, p)
      PROVE  req'[w] = req[w] \/ Ways(w)
    <2>1. /\ req'[v].at \in {"identify", "leave.release"}
          /\ \A u \in Worker \ {v} : req'[u] = req[u]
        BY <1>1 DEF Authenticate, CloseSocket, Idle, TypeOK, ReqOK
    <2> QED
        BY <2>1, WaysElsewhere DEF NamedPoint, TransferPoint
<1>2. ASSUME NEW v \in Worker,
             Serve(v) \/ Refuse(v) \/ Fail(v) \/ JoinCheck(v) \/ Begin(v)
      PROVE  req'[w] = req[w] \/ Ways(w)
    BY <1>2, ServeWays, BeginWays
<1>3. CASE Restart
    BY <1>3, WaysElsewhere DEF Restart, Idle, NamedPoint, TransferPoint
<1>4. CASE Tick \/ UNCHANGED vars
    BY <1>4 DEF Tick, vars
<1> QED
    BY <1>1, <1>2, <1>3, <1>4 DEF Next, Anyone

-----------------------------------------------------------------------------
(* Rows of this room that are named exist, and a row that does not yet exist *)
(* is unmarked.  This is what nobody's knowing an id before it is issued     *)
(* comes to (Nameable), carried through the requests in flight.              *)

Names(w) ==
    req[w].at \in TransferPoint \cup {"role.write", "accept", "decline", "resolve.read"}

Referenced ==
    /\ \A w \in Worker : Names(w) /\ req[w].to \in Participant => Exists(req[w].to)
    /\ \A w \in Worker : Names(w) /\ req[w].from \in Participant => Exists(req[w].from)
    /\ \A p \in Participant : action[p].status # "ABSENT" => Exists(p)

Unmarked ==
    \A p \in Participant : ~Exists(p) => row[p].role # "OWNER" /\ row[p].primary = FALSE

LEMMA ExistsStays ==
    ASSUME TypeOK, [Next]_vars, NEW p \in Participant, Exists(p)
    PROVE  Exists(p)'
<1>1. ASSUME NEW w \in Worker, WritesRow(w) PROVE Exists(p)'
    BY <1>1, RowWritten DEF WritesRow, Exists, NewRow
<1> QED
    BY <1>1, RowSteps DEF Exists

LEMMA ActionSteps ==
    ASSUME TypeOK, [Next]_vars, NEW p \in Participant, action'[p] # action[p]
    PROVE  \E w \in Worker : \/ RequestAction(w) /\ req[w].by = p
                             \/ (Accept(w) \/ Decline(w)) /\ req[w].to = p
<1> USE DEF TypeOK, StoreTypeOK
<1>1. ASSUME NEW w \in Worker, JoinCheck(w) \/ Begin(w) \/ Refuse(w) \/ Fail(w)
      PROVE  FALSE
    BY <1>1, BeginWritesNothing DEF JoinCheck, Refuse, Fail, db
<1>2. ASSUME NEW w \in Worker, NEW q \in Anyone, Authenticate(w, q) \/ CloseSocket(w, q)
      PROVE  FALSE
    BY <1>2 DEF Authenticate, CloseSocket, db
<1>3. CASE Tick \/ Restart \/ UNCHANGED vars
    BY <1>3 DEF Tick, Restart, vars, db
<1>4. ASSUME NEW w \in Worker, \/ JoinCount(w) \/ (\E q \in Participant : JoinInsert(w, q))
                               \/ JoinSession(w) \/ JoinReply(w) \/ OpenSocket(w) \/ AbandonSocket(w)
      PROVE  FALSE
    BY <1>4 DEF JoinCount, JoinInsert, JoinSession, JoinReply, OpenSocket, AbandonSocket, db,
                CreateParticipant, CreateSession
<1>5. ASSUME NEW w \in Worker,
             \/ LeaveRelease(w) \/ LeaveStatus(w) \/ EndStatus(w) \/ EndRevoke(w) \/ SetPaused(w)
             \/ KickRelease(w) \/ KickStatus(w) \/ KickRevoke(w)
      PROVE  FALSE
    BY <1>5 DEF LeaveRelease, LeaveStatus, EndStatus, EndRevoke, SetPaused, KickRelease, KickStatus,
                KickRevoke, ReleasePresenterForParticipant, UpdateParticipantStatus,
                UpdateRoomStatus, RevokeSessionsForRoom, RevokeSessionsForParticipant
<1>6. ASSUME NEW w \in Worker,
             \/ StartClaim(w) \/ StartStatus(w) \/ StopRelease(w) \/ StopStatus(w)
             \/ RoleWrite(w) \/ TransferTarget(w) \/ TransferPromote(w) \/ TransferFrom(w)
      PROVE  FALSE
    BY <1>6 DEF StartClaim, StartStatus, StopRelease, StopStatus, RoleWrite, TransferTarget,
                TransferPromote, TransferFrom, ClaimPresenter, ReleasePresenter, UpdateRoomStatus,
                UpdateParticipantRole, db
<1>7. ASSUME NEW w \in Worker,
             \/ TransferNotFound(w) \/ TransferDemote(w) \/ TransferClear(w) \/ TransferSet(w)
             \/ ResolveRead(w)
      PROVE  FALSE
    BY <1>7 DEF TransferNotFound, TransferDemote, TransferClear, TransferSet, ResolveRead, UpdateParticipantRole,
                ClearOtherPrimaries, SetParticipantPrimary, db
<1>8. ASSUME NEW w \in Worker, RequestAction(w) \/ Accept(w) \/ Decline(w)
      PROVE  \/ RequestAction(w) /\ req[w].by = p
             \/ (Accept(w) \/ Decline(w)) /\ req[w].to = p
    BY <1>8 DEF RequestAction, Accept, Decline, CreateAction, ResolveAction
<1>9. ASSUME NEW w \in Worker, Serve(w)
      PROVE  RequestAction(w) \/ Accept(w) \/ Decline(w)
    BY <1>4, <1>5, <1>6, <1>7, <1>9 DEF Serve
<1> QED
    BY <1>1, <1>2, <1>3, <1>8, <1>9 DEF Next, Anyone

LEMMA ReferencedKept ==
    ASSUME TypeOK, ExpelledInv, Referenced, [Next]_vars
    PROVE  Referenced'
<1> USE DEF Names, TransferPoint
<1>1. ASSUME NEW w \in Worker, Names(w)', NEW p \in Participant, req'[w].to = p
      PROVE  Exists(p)'
    <2>1. CASE Names(w) /\ req'[w].to = req[w].to
        BY <1>1, <2>1, ExistsStays DEF Referenced
    <2>2. ASSUME NEW target \in Targets, BeginTransfer(w, target)
          PROVE  Exists(p)'
        <3>1. target = p
            BY <1>1, <2>2, Admitted DEF BeginTransfer
        <3> QED
            BY <2>2, <3>1, ExistsStays DEF BeginTransfer, Nameable
    <2>3. ASSUME NEW target \in Targets, NEW role \in GrantRoles, BeginRole(w, target, role)
          PROVE  Exists(p)'
        <3>1. target = p
            BY <1>1, <2>3, Admitted DEF BeginRole
        <3> QED
            BY <2>3, <3>1, ExistsStays DEF BeginRole, Nameable
    <2>4. ASSUME NEW asker \in Anyone, NEW point \in {"accept", "decline"},
                 BeginResolve(w, asker, point)
          PROVE  Exists(p)'
        <3>1. asker = p
            BY <1>1, <2>4, Admitted DEF BeginResolve
        <3> QED
            BY <2>4, <3>1, ExistsStays DEF BeginResolve, Referenced
    <2>5. CASE req'[w] = req[w]
        BY <1>1, <2>1, <2>5
    <2>6. CASE \/ ResolveRead(w) \/ TransferTarget(w) \/ TransferPromote(w) \/ TransferFrom(w)
               \/ TransferDemote(w) \/ TransferClear(w) \/ Accept(w)
        <3>1. Names(w)
            BY <2>6 DEF ResolveRead, TransferTarget, TransferPromote, TransferFrom, TransferDemote,
                        TransferClear, Accept, At
        <3>2. (\E point : Goto(w, point)) \/ Finish(w)
            BY <2>6 DEF ResolveRead, TransferTarget, TransferPromote, TransferFrom, TransferDemote,
                        TransferClear, Accept
        <3>3. ~Finish(w)
            BY <1>1, AfterFinish
        <3> QED
            BY <2>1, <3>1, <3>2, <3>3, GoneTo
    <2> QED
        BY <1>1, <2>5, <2>2, <2>3, <2>4, <2>6, Arrivals DEF Ways
<1>2. ASSUME NEW p \in Participant, action'[p].status # "ABSENT"
      PROVE  Exists(p)'
    <2>1. CASE action'[p] = action[p]
        BY <1>2, <2>1, ExistsStays DEF Referenced
    <2>2. ASSUME NEW w \in Worker, RequestAction(w), req[w].by = p
          PROVE  Exists(p)'
        BY <2>2, ExistsStays DEF ExpelledInv, RowFirst
    <2>3. ASSUME NEW w \in Worker, Accept(w) \/ Decline(w), req[w].to = p
          PROVE  Exists(p)'
        BY <2>3, ExistsStays DEF Referenced, Accept, Decline, At
    <2> QED
        BY <2>1, <2>2, <2>3, ActionSteps
<1>3. ASSUME NEW w \in Worker, Names(w)', NEW p \in Participant, req'[w].from = p
      PROVE  Exists(p)'
    <2>1. CASE Names(w) /\ req'[w].from = req[w].from
        BY <1>3, <2>1, ExistsStays DEF Referenced
    <2>2. ASSUME NEW target \in Targets, BeginTransfer(w, target)
          PROVE  Exists(p)'
        <3>1. req[w].by = p
            BY <1>3, <2>2, Admitted DEF BeginTransfer
        <3>2. Exists(p)
            BY <3>1 DEF ExpelledInv, RowFirst
        <3> QED
            BY <3>2, ExistsStays
    <2>3. ASSUME NEW target \in Targets, NEW role \in GrantRoles, BeginRole(w, target, role)
          PROVE  FALSE
        BY <1>3, <2>3, Admitted DEF BeginRole
    <2>4. ASSUME NEW asker \in Anyone, NEW point \in {"accept", "decline"},
                 BeginResolve(w, asker, point)
          PROVE  FALSE
        BY <1>3, <2>4, Admitted DEF BeginResolve
    <2>5. CASE \/ ResolveRead(w) \/ TransferTarget(w) \/ TransferPromote(w) \/ TransferFrom(w)
               \/ TransferDemote(w) \/ TransferClear(w) \/ Accept(w)
        <3>1. Names(w)
            BY <2>5 DEF ResolveRead, TransferTarget, TransferPromote, TransferFrom, TransferDemote,
                        TransferClear, Accept, At
        <3>2. (\E point : Goto(w, point)) \/ Finish(w)
            BY <2>5 DEF ResolveRead, TransferTarget, TransferPromote, TransferFrom, TransferDemote,
                        TransferClear, Accept
        <3>3. ~Finish(w)
            BY <1>3, AfterFinish
        <3> QED
            BY <2>1, <3>1, <3>2, <3>3, GoneTo
    <2> QED
        BY <1>3, <2>1, <2>2, <2>3, <2>4, <2>5, Arrivals DEF Ways
<1> QED
    BY <1>1, <1>2, <1>3 DEF Referenced

LEMMA UnmarkedKept ==
    ASSUME TypeOK, Referenced, Unmarked, [Next]_vars
    PROVE  Unmarked'
<1>1. ASSUME NEW p \in Participant, ~Exists(p)'
      PROVE  row'[p].role # "OWNER" /\ row'[p].primary = FALSE
    <2>1. ~Exists(p)
        BY <1>1, ExistsStays
    <2>0. row[p].role # "OWNER" /\ row[p].primary = FALSE
        BY <2>1 DEF Unmarked
    <2>2. \A w \in Worker : Names(w) => req[w].to # p
        BY <2>1 DEF Referenced
    <2>3. ASSUME NEW w \in Worker, WritesRow(w)
          PROVE  row'[p].role # "OWNER" /\ row'[p].primary = FALSE
        <3>1. CASE \E q \in Participant : JoinInsert(w, q)
            <4>1. PICK q \in Participant : JoinInsert(w, q)
                BY <3>1
            <4>2. p # q
                BY <1>1, <4>1 DEF JoinInsert, CreateParticipant, NewRow, Exists, TypeOK, StoreTypeOK
            <4>3. row'[p] = row[p]
                BY <4>1, <4>2, RowWritten
            <4> QED
                BY <2>0, <4>3
        <3>2. CASE LeaveStatus(w) \/ KickStatus(w)
            <4>1. row'[p].role = row[p].role
                BY <3>2, RowWritten
            <4>2. row'[p].primary \in {FALSE, row[p].primary}
                BY <3>2, RowWritten
            <4> QED
                BY <2>0, <4>1, <4>2
        <3>3. CASE RoleWrite(w) \/ TransferPromote(w) \/ TransferDemote(w)
            <4>1. RoleWrite(w) \/ TransferPromote(w) => req[w].to # p
                BY <2>2 DEF RoleWrite, TransferPromote, Names, At, TransferPoint
            <4>2. row'[p].role \in {row[p].role, "PARTICIPANT"}
                BY <3>3, <4>1, RoleGoesTo
            <4>3. row'[p].primary \in {row[p].primary}
                BY <3>3, FlagStays
            <4> QED
                BY <2>0, <4>2, <4>3
        <3>4. CASE TransferClear(w) \/ TransferSet(w)
            <4>1. req[w].to # p
                BY <2>2, <3>4 DEF TransferClear, TransferSet, Names, At, TransferPoint
            <4>2. row'[p].role = row[p].role
                BY <3>4, RoleStays
            <4>3. row'[p].primary \in {FALSE, row[p].primary}
                BY <3>4, <4>1, RowWritten
            <4> QED
                BY <2>0, <4>2, <4>3
        <3> QED
            BY <2>3, <3>1, <3>2, <3>3, <3>4 DEF WritesRow
    <2> QED
        BY <2>1, <2>3, RowSteps DEF Unmarked
<1> QED
    BY <1>1 DEF Unmarked

LEMMA InitReferenced == Init => Referenced /\ Unmarked
<1> SUFFICES ASSUME Init PROVE Referenced /\ Unmarked
    OBVIOUS
<1>1. Referenced
    BY DEF Init, StoreInit, Referenced, Names, TransferPoint, Idle
<1>2. Unmarked
    BY DEF Init, StoreInit, Unmarked, Exists, NewRow, DefaultRoleForNewParticipant
<1> QED
    BY <1>1, <1>2

\* Whomever of this room a request in flight is about to write about has a row, and
\* so has the maker of every request for the stage that is stored.
LEMMA ReferencesHold == Spec => [](Referenced /\ Unmarked)
<1>1. Init => Referenced /\ Unmarked
    BY InitReferenced
<1>2. TypeOK /\ ExpelledInv /\ (Referenced /\ Unmarked) /\ [Next]_vars => (Referenced /\ Unmarked)'
    BY ReferencedKept, UnmarkedKept
<1> QED
    BY <1>1, <1>2, TypeCorrect, ExpelledInvariant, PTL DEF Spec

-----------------------------------------------------------------------------
(* The owner.  A transfer decides on a role it has read and writes a step    *)
(* later; what it is about to overwrite is not an owner's, since nothing     *)
(* makes anybody an owner in between.                                        *)

IsOwner(p) == p \in Participant /\ row[p].role = "OWNER"

OwnerInv ==
    "OWNER" \notin GrantRoles =>
       \A w \in Worker :
          /\ At(w, "role.write") => req[w].arg \in GrantRoles
          /\ At(w, "xfer.promote") => ~IsOwner(req[w].to)
          /\ At(w, "xfer.demote") => ~IsOwner(req[w].from)

LEMMA NobodyMadeOwner ==
    ASSUME TypeOK, OwnerInv, [Next]_vars, "OWNER" \notin GrantRoles,
           NEW p \in Participant, row[p].role # "OWNER"
    PROVE  row'[p].role # "OWNER"
<1>1. ASSUME NEW w \in Worker, WritesRow(w)
      PROVE  row'[p].role # "OWNER"
    <2>1. CASE \E q \in Participant : JoinInsert(w, q)
        <3>1. PICK q \in Participant : JoinInsert(w, q)
            BY <2>1
        <3>2. row'[p] = row[p] \/ row'[p].role = "PARTICIPANT"
            BY <3>1 DEF JoinInsert, CreateParticipant, NewRow, DefaultRoleForNewParticipant,
                        TypeOK, StoreTypeOK
        <3> QED
            BY <3>2
    <2>2. CASE RoleWrite(w)
        <3>1. row'[p].role \in {row[p].role, req[w].arg}
            BY <2>2, RowWritten
        <3>2. req[w].arg \in GrantRoles
            BY <2>2 DEF RoleWrite, OwnerInv
        <3> QED
            BY <3>1, <3>2
    <2>3. CASE \/ LeaveStatus(w) \/ KickStatus(w) \/ TransferPromote(w) \/ TransferDemote(w)
               \/ TransferClear(w) \/ TransferSet(w)
        <3>1. row'[p].role \in {row[p].role, "PRESENTER", "PARTICIPANT"}
            BY <2>3, RoleStays, RoleMoved
        <3> QED
            BY <3>1
    <2> QED
        BY <1>1, <2>1, <2>2, <2>3 DEF WritesRow
<1> QED
    BY <1>1, RowSteps

LEMMA OwnerInvKept ==
    ASSUME TypeOK, OwnerInv, [Next]_vars
    PROVE  OwnerInv'
<1> SUFFICES ASSUME "OWNER" \notin GrantRoles, NEW w \in Worker
             PROVE  /\ req'[w].at = "role.write" => req'[w].arg \in GrantRoles
                    /\ req'[w].at = "xfer.promote" => ~IsOwner(req[w].to)'
                    /\ req'[w].at = "xfer.demote" => ~IsOwner(req[w].from)'
    BY DEF OwnerInv, At
<1> USE DEF At, TypeOK
<1>0. ASSUME NEW p, ~IsOwner(p) PROVE ~IsOwner(p)'
    BY <1>0, NobodyMadeOwner DEF IsOwner
<1>1. CASE req'[w] = req[w]
    <2>1. ASSUME req[w].at = "xfer.promote" PROVE ~IsOwner(req[w].to)'
        <3>1. ~IsOwner(req[w].to)
            BY <2>1 DEF OwnerInv
        <3> QED
            BY <1>0, <1>1, <3>1
    <2>2. ASSUME req[w].at = "xfer.demote" PROVE ~IsOwner(req[w].from)'
        <3>1. ~IsOwner(req[w].from)
            BY <2>2 DEF OwnerInv
        <3> QED
            BY <1>0, <1>1, <3>1
    <2> QED
        BY <1>1, <2>1, <2>2 DEF OwnerInv
<1>2. CASE Ways(w)
    <2>1. ASSUME req'[w].at = "role.write" PROVE req'[w].arg \in GrantRoles
        BY <1>2, <2>1, Admitted DEF Ways, BeginRole
    <2>2. ASSUME req'[w].at = "xfer.promote" PROVE ~IsOwner(req[w].to)'
        <3>1. TransferTarget(w)
            BY <1>2, <2>2 DEF Ways
        <3>2. PICK role \in RolesFound(req[w].to) :
                 Goto(w, IF role \in {"OWNER", "HOST"} THEN AfterPromotion(w) ELSE "xfer.promote")
            BY <3>1 DEF TransferTarget
        <3>3. AfterPromotion(w) # "xfer.promote"
            BY DEF AfterPromotion
        <3>4. role # "OWNER" /\ req'[w].to = req[w].to
            BY <2>2, <3>2, <3>3, GoneTo
        <3>5. ~IsOwner(req[w].to)
            BY <3>2, <3>4 DEF RolesFound, IsOwner
        <3> QED
            BY <1>0, <3>4, <3>5
    <2>3. ASSUME req'[w].at = "xfer.demote" PROVE ~IsOwner(req[w].from)'
        <3>1. TransferFrom(w)
            BY <1>2, <2>3 DEF Ways
        <3>2. \A point : Goto(w, point) => point = "xfer.demote" /\ req'[w].from = req[w].from
            BY <2>3, GoneTo
        <3>3. PICK role \in RolesFound(req[w].from) :
                 Goto(w, IF role = "PRESENTER" THEN "xfer.demote" ELSE "xfer.clear")
            BY <3>1, <3>2 DEF TransferFrom
        <3>4. role = "PRESENTER" /\ req'[w].from = req[w].from
            BY <3>2, <3>3
        <3>5. ~IsOwner(req[w].from)
            BY <3>3, <3>4 DEF RolesFound, IsOwner
        <3> QED
            BY <1>0, <3>4, <3>5
    <2> QED
        BY <2>1, <2>2, <2>3
<1> QED
    BY <1>1, <1>2, Arrivals

LEMMA OwnerStep ==
    ASSUME TypeOK, Unmarked, OwnerInv, [Next]_vars, "OWNER" \notin GrantRoles,
           NEW p \in Participant, row[p].role = "OWNER", row'[p].role # "OWNER"
    PROVE  \E w \in Worker : At(w, "role.write") /\ req[w].to = p
<1>1. PICK w \in Worker : WritesRow(w)
    BY RowSteps
<1>2. ~\E q \in Participant : JoinInsert(w, q)
    <2> SUFFICES ASSUME NEW q \in Participant, JoinInsert(w, q) PROVE FALSE
        OBVIOUS
    <2>1. p # q
        BY DEF JoinInsert, Unmarked
    <2> QED
        BY <2>1, RowWritten
<1>3. ~(LeaveStatus(w) \/ KickStatus(w) \/ TransferClear(w) \/ TransferSet(w))
    BY RowWritten
<1>4. ~TransferPromote(w)
    <2> SUFFICES ASSUME TransferPromote(w) PROVE FALSE
        OBVIOUS
    <2>1. p # req[w].to
        BY DEF TransferPromote, OwnerInv, IsOwner
    <2>2. row'[p].role = row[p].role
        BY <2>1, RowWritten
    <2> QED
        BY <2>2
<1>5. ~TransferDemote(w)
    <2> SUFFICES ASSUME TransferDemote(w) PROVE FALSE
        OBVIOUS
    <2>1. p # req[w].from
        BY DEF TransferDemote, OwnerInv, IsOwner
    <2>2. row'[p].role = row[p].role
        BY <2>1, RowWritten
    <2> QED
        BY <2>2
<1>6. RoleWrite(w)
    BY <1>1, <1>2, <1>3, <1>4, <1>5 DEF WritesRow
<1> QED
    BY <1>6, RowWritten DEF RoleWrite

\* As long as hosts hand out no OWNER role, no interleaving of transfers with
\* role changes takes it from whoever has it.
THEOREM OwnerIsKept == Spec => OwnerKept
<1>1. Init => OwnerInv
    BY DEF Init, OwnerInv, At, Idle
<1>2. TypeOK /\ OwnerInv /\ [Next]_vars => OwnerInv'
    BY OwnerInvKept
<1>3. TypeOK /\ Unmarked /\ OwnerInv /\ [Next]_vars =>
        [\A p \in Participant :
            "OWNER" \notin GrantRoles /\ row[p].role = "OWNER" /\ row'[p].role # "OWNER" =>
               \E w \in Worker : At(w, "role.write") /\ req[w].to = p]_vars
    BY OwnerStep
<1> QED
    BY <1>1, <1>2, <1>3, TypeCorrect, ReferencesHold, PTL DEF Spec, OwnerKept

-----------------------------------------------------------------------------
(* The spotlight.  What is inductive are the lights: the participants who    *)
(* have the flag and those a transfer is about to set it for.                *)

Lights == Primaries \cup {req[w].to : w \in Setting}

LightsInv == Cardinality(Lights) <= Cardinality(Worker)

LEMMA ImageBound ==
    ASSUME NEW S, IsFiniteSet(S), NEW T, NEW f \in [S -> T], T = {f[x] : x \in S}
    PROVE  Cardinality(T) <= Cardinality(S) /\ Cardinality(T) \in Nat
<1>1. f \in Surjection(S, T)
    BY DEF Surjection
<1> QED
    BY <1>1, FS_Surjection, FS_CardinalityType

LEMMA LightsFinite ==
    ASSUME TypeOK
    PROVE  /\ Lights \subseteq Participant /\ IsFiniteSet(Lights)
           /\ Cardinality(Lights) \in Nat /\ Cardinality(Worker) \in Nat
<1>1. Lights \subseteq Participant
    BY DEF Lights, Primaries, Setting
<1> QED
    BY <1>1, FS_Subset, FS_CardinalityType

\* A row keeps its flag, or loses it, in every step but the one that sets it.
LEMMA FlagStep ==
    ASSUME TypeOK, NEW w \in Worker, WritesRow(w), ~TransferSet(w), NEW p \in Participant,
           row'[p].primary = TRUE
    PROVE  row[p].primary = TRUE
<1>1. CASE \E q \in Participant : JoinInsert(w, q)
    <2>1. PICK q \in Participant : JoinInsert(w, q)
        BY <1>1
    <2>2. row'[q].primary = FALSE
        BY <2>1 DEF JoinInsert, CreateParticipant, NewRow, TypeOK, StoreTypeOK
    <2>3. p # q
        BY <2>2
    <2>4. row'[p] = row[p]
        BY <2>1, <2>3, RowWritten
    <2> QED
        BY <2>4
<1>2. CASE \/ LeaveStatus(w) \/ KickStatus(w) \/ RoleWrite(w) \/ TransferPromote(w)
           \/ TransferDemote(w)
    <2>1. row'[p].primary \in {row[p].primary}
        BY <1>2, RowWritten
    <2> QED
        BY <2>1
<1>3. CASE TransferClear(w)
    <2>1. row'[p] = IF OwnRoom(w) /\ p # req[w].to
                    THEN [row[p] EXCEPT !.primary = FALSE] ELSE row[p]
        BY <1>3 DEF TransferClear, ClearOtherPrimaries
    <2>2. row[p] \in Row
        BY DEF TypeOK, StoreTypeOK, Row
    <2> QED
        BY <2>1, <2>2 DEF Row
<1> QED
    BY <1>1, <1>2, <1>3 DEF WritesRow

LEMMA PrimaryFlag ==
    ASSUME TypeOK, NEW p \in Participant
    PROVE  p \in Primaries <=> row[p].primary = TRUE
    BY DEF Primaries, TypeOK, StoreTypeOK

\* The statement that sets a transfer up to light its target.
Clears(w) == TransferClear(w) /\ OwnRoom(w)

\* Transfers being set up do not change their target.
LEMMA SettingStep ==
    ASSUME TypeOK, [Next]_vars, NEW w \in Worker, w \in Setting', ~Clears(w)
    PROVE  w \in Setting /\ req'[w].to = req[w].to
<1>1. CASE req'[w] = req[w]
    BY <1>1 DEF Setting, At, OwnRoom
<1>2. CASE TransferClear(w)
    <2>1. req'[w].by = req[w].by
        BY <1>2, GoneTo DEF TransferClear
    <2> QED
        BY <1>2, <2>1 DEF Setting, OwnRoom, Clears
<1> QED
    BY <1>1, <1>2, Arrivals DEF Setting, At, Ways

\* A transfer of a caller of another room writes no flag here.
LEMMA StrangersLightNothing ==
    ASSUME TypeOK, NEW w \in Worker, ~OwnRoom(w), TransferClear(w) \/ TransferSet(w)
    PROVE  row' = row
    BY DEF TransferClear, TransferSet, ClearOtherPrimaries, SetParticipantPrimary, TypeOK, StoreTypeOK

\* Nor does one that names somebody of another room set any.
LEMMA SetsNothing ==
    ASSUME TypeOK, NEW w \in Worker, TransferSet(w), w \notin Setting
    PROVE  row' = row
<1>1. CASE OwnRoom(w)
    <2>1. req[w].to \in Elsewhere
        BY <1>1, Bears DEF Setting, TransferSet, At, TypeOK, Anyone
    <2> QED
        BY <2>1, OfElsewhere DEF TransferSet, TypeOK, db
<1> QED
    BY <1>1, StrangersLightNothing

LEMMA LightsStep ==
    ASSUME TypeOK, [Next]_vars, ~\E w \in Worker : Clears(w)
    PROVE  Lights' \subseteq Lights
<1>1. ASSUME NEW w \in Setting' PROVE req'[w].to \in Lights
    <2>1. w \in Worker
        BY DEF Setting
    <2> QED
        BY <2>1, SettingStep DEF Lights
<1>2. ASSUME NEW p \in Primaries' PROVE p \in Lights
    <2>0. TypeOK' /\ p \in Participant
        BY NextTypes DEF Primaries
    <2>1. row'[p].primary = TRUE
        BY <2>0 DEF Primaries, TypeOK, StoreTypeOK
    <2>2. CASE row' = row
        BY <2>0, <2>1, <2>2, PrimaryFlag DEF Lights
    <2>3. ASSUME NEW w \in Worker, WritesRow(w), ~TransferSet(w) PROVE p \in Lights
        BY <2>0, <2>1, <2>3, FlagStep, PrimaryFlag DEF Lights
    <2>4. ASSUME NEW w \in Worker, TransferSet(w) PROVE p \in Lights
        <3>1. CASE w \in Setting /\ p = req[w].to
            BY <3>1 DEF Lights
        <3>2. CASE p # req[w].to
            <4>1. row'[p].primary = row[p].primary
                BY <2>0, <2>4, <3>2, RowWritten
            <4> QED
                BY <2>0, <2>1, <4>1, PrimaryFlag DEF Lights
        <3>3. CASE w \notin Setting
            BY <2>2, <2>4, <3>3, SetsNothing
        <3> QED
            BY <3>1, <3>2, <3>3
    <2> QED
        BY <2>2, <2>3, <2>4, RowSteps
<1> QED
    BY <1>1, <1>2 DEF Lights

LEMMA LightsClear ==
    ASSUME TypeOK, NEW w \in Worker, Clears(w)
    PROVE  Lights' = {req'[v].to : v \in Setting'}
<1>1. Goto(w, "xfer.set") /\ OwnRoom(w) /\ TransferClear(w)
    BY DEF Clears, TransferClear
<1>2. /\ req'[w].to = req[w].to
      /\ req[w].to \in Participant => w \in Setting'
    BY <1>1, GoneTo DEF Setting, At, OwnRoom
<1>3. ASSUME NEW p \in Primaries' PROVE p = req[w].to
    <2>1. p \in Participant
        BY DEF Primaries
    <2>2. CASE p # req[w].to
        <3>1. row'[p].primary = FALSE
            BY <1>1, <2>1, <2>2, RowWritten
        <3> QED
            BY <3>1 DEF Primaries
    <2> QED
        BY <2>2
<1>4. Primaries' \subseteq Participant
    BY DEF Primaries
<1> QED
    BY <1>2, <1>3, <1>4 DEF Lights

LEMMA LightsKept ==
    ASSUME TypeOK, LightsInv, [Next]_vars
    PROVE  LightsInv'
<1>1. CASE \E w \in Worker : Clears(w)
    <2>1. Lights' = {req'[v].to : v \in Setting'}
        BY <1>1, LightsClear
    <2>2. Setting' \subseteq Worker
        BY DEF Setting
    <2>3. /\ IsFiniteSet(Setting') /\ Cardinality(Setting') \in Nat
          /\ Cardinality(Setting') <= Cardinality(Worker)
        BY <2>2, FS_Subset, FS_CardinalityType
    <2> DEFINE f == [v \in Setting' |-> req'[v].to]
    <2>4. f \in [Setting' -> Lights'] /\ Lights' = {f[v] : v \in Setting'}
        BY <2>1
    <2>5. Cardinality(Lights') <= Cardinality(Setting') /\ Cardinality(Lights') \in Nat
        BY <2>3, <2>4, ImageBound
    <2> QED
        BY <2>3, <2>5, LightsFinite DEF LightsInv
<1>2. CASE ~\E w \in Worker : Clears(w)
    <2>1. Lights' \subseteq Lights
        BY <1>2, LightsStep
    <2>2. Cardinality(Lights') <= Cardinality(Lights) /\ Cardinality(Lights') \in Nat
        BY <2>1, LightsFinite, FS_Subset, FS_CardinalityType
    <2> QED
        BY <2>2, LightsFinite DEF LightsInv
<1> QED
    BY <1>1, <1>2

LEMMA InitLights == Init => LightsInv
<1> SUFFICES ASSUME Init PROVE LightsInv
    OBVIOUS
<1>1. Primaries = {}
    BY DEF Init, StoreInit, NewRow, Primaries
<1>2. Setting = {}
    BY DEF Init, Idle, Setting, At
<1>3. Lights = {}
    BY <1>1, <1>2 DEF Lights
<1> QED
    BY <1>3, FS_EmptySet, CapacitySizes DEF LightsInv

\* Concurrent transfers never leave more primaries than there were requests in
\* flight together.
THEOREM PrimariesAreBounded == Spec => []PrimariesBounded
<1>1. Init => LightsInv
    BY InitLights
<1>2. TypeOK /\ LightsInv /\ [Next]_vars => LightsInv'
    BY LightsKept
<1>3. TypeOK /\ LightsInv => PrimariesBounded
    <2> SUFFICES ASSUME TypeOK, LightsInv PROVE PrimariesBounded
        OBVIOUS
    <2>1. Primaries \subseteq Lights
        BY DEF Lights
    <2>2. Cardinality(Primaries) <= Cardinality(Lights) /\ Cardinality(Primaries) \in Nat
        BY <2>1, LightsFinite, FS_Subset, FS_CardinalityType
    <2> QED
        BY <2>2, LightsFinite DEF LightsInv, PrimariesBounded
<1> QED
    BY <1>1, <1>2, <1>3, TypeCorrect, PTL DEF Spec

\* A worker past the middleware is moved on by its next statement, unless that
\* fails or the process dies.
LEMMA OnlyServed ==
    ASSUME TypeOK, [Next]_vars, NEW w \in Worker, ~Fail(w), ~Restart,
           req[w].at \notin {"idle", "identify"}
    PROVE  req'[w] = req[w] \/ Serve(w)
<1>1. ASSUME NEW v \in Worker, v # w, req'[w] # req[w],
             \/ Serve(v) \/ Refuse(v) \/ Fail(v) \/ JoinCheck(v) \/ Begin(v)
             \/ \E p \in Anyone : Authenticate(v, p) \/ CloseSocket(v, p)
      PROVE  FALSE
    BY <1>1, ServeWays, BeginWays DEF Authenticate, CloseSocket, TypeOK, ReqOK
<1>2. ASSUME Refuse(w) \/ JoinCheck(w)
             \/ \E p \in Anyone : Authenticate(w, p) \/ CloseSocket(w, p)
      PROVE  FALSE
    BY <1>2 DEF Refuse, JoinCheck, Authenticate, CloseSocket, At
<1>3. ASSUME Begin(w)
      PROVE  FALSE
    BY <1>3 DEF Begin, Admit, BeginLeave, BeginEnd, BeginPause,
          BeginResume, BeginStart, BeginStop, BeginSocket, BeginKick, BeginTransfer, BeginRole,
          BeginRequest, BeginResolve, At
<1>4. CASE Tick \/ UNCHANGED vars
    BY <1>4 DEF Tick, vars
<1> QED
    BY <1>1, <1>2, <1>3, <1>4 DEF Next, Anyone

\* At each of these points one statement is next.
LEMMA ServedAt ==
    ASSUME NEW w \in Worker, Serve(w)
    PROVE  /\ At(w, "xfer.set") => TransferSet(w)
           /\ At(w, "resolve.read") => ResolveRead(w)
           /\ At(w, "xfer.target") => TransferTarget(w) \/ TransferNotFound(w)
           /\ At(w, "xfer.promote") => TransferPromote(w)
    BY DEF At, Serve, JoinCount, JoinInsert, JoinSession, JoinReply, LeaveRelease,
          LeaveStatus, EndStatus, EndRevoke,
          SetPaused, StartClaim, StartStatus, StopRelease, StopStatus, KickRelease, KickStatus,
          KickRevoke, RoleWrite, TransferTarget, TransferNotFound, TransferPromote, TransferFrom,
          TransferDemote, TransferClear, TransferSet, RequestAction, Accept, Decline, ResolveRead,
          OpenSocket, AbandonSocket

LEMMA SettingStays ==
    ASSUME TypeOK, [Next]_vars, ~CutShort, NEW w \in Setting
    PROVE  w \in Setting' \/ TransferSet(w)
<1>1. w \in Worker /\ req[w].at = "xfer.set" /\ ~Fail(w) /\ ~Restart
    BY DEF Setting, At, CutShort
<1> QED
    BY <1>1, OnlyServed, ServedAt DEF Setting, At, OwnRoom

LEMMA SpotlightStep ==
    ASSUME TypeOK, Unmarked, [Next]_vars, ~CutShort, ~HandedAway,
           Primaries # {} \/ Setting # {}
    PROVE  Primaries' # {} \/ Setting' # {}
<1>1. ASSUME NEW w \in Setting, TransferSet(w) PROVE Primaries' # {}
    <2>1. w \in Worker /\ req[w].to \in Participant /\ OwnRoom(w)
        BY DEF Setting
    <2>2. PICK p \in Participant : p = req[w].to
        BY <2>1
    <2>3. row'[p].primary = TRUE
        BY <1>1, <2>1, <2>2, RowWritten
    <2> QED
        BY <2>3 DEF Primaries
<1>2. ASSUME NEW w \in Worker, Clears(w) PROVE Setting' # {}
    <2>1. req[w].to \in Participant
        BY <1>2, Bears DEF Clears, HandedAway, TransferClear, At, TypeOK, Anyone
    <2> QED
        BY <1>2, <2>1, GoneTo DEF Clears, TransferClear, Setting, At, OwnRoom
<1>3. CASE Setting # {}
    BY <1>1, <1>3, SettingStays DEF Setting
<1>4. ASSUME NEW p \in Primaries, Setting = {}, ~\E w \in Worker : Clears(w)
      PROVE  p \in Primaries'
    <2>0. p \in Participant /\ row[p].primary = TRUE
        BY <1>4, PrimaryFlag DEF Primaries
    <2>1. CASE row' = row
        BY <2>0, <2>1 DEF Primaries
    <2>2. ASSUME NEW w \in Worker, NEW q \in Participant, JoinInsert(w, q)
          PROVE  p \in Primaries'
        <3>1. p # q
            BY <2>0, <2>2 DEF JoinInsert, Unmarked
        <3>2. row'[p] = row[p]
            BY <2>0, <2>2, <3>1, OthersStay
        <3> QED
            BY <2>0, <3>2 DEF Primaries
    <2>3. ASSUME NEW w \in Worker, LeaveStatus(w) \/ KickStatus(w) \/ RoleWrite(w)
                                   \/ TransferPromote(w) \/ TransferDemote(w)
          PROVE  p \in Primaries'
        <3>1. row'[p].primary \in {row[p].primary}
            BY <2>0, <2>3, FlagStays
        <3> QED
            BY <2>0, <3>1 DEF Primaries
    <2>4. ASSUME NEW w \in Worker, TransferClear(w) \/ TransferSet(w)
          PROVE  row' = row
        BY <1>4, <2>4, StrangersLightNothing, SetsNothing DEF Clears
    <2> QED
        BY <2>1, <2>2, <2>3, <2>4, RowSteps DEF WritesRow
<1> QED
    BY <1>2, <1>3, <1>4

\* The spotlight is never lost but by a transfer that fails, or a process that
\* dies, between its last two statements, and by a transfer that names somebody of
\* another room; no other transfer loses it, not one of another room's host either.
THEOREM SpotlightIsKept == Spec => SpotlightKept
<1>1. TypeOK /\ Unmarked /\ [Next]_vars =>
        [(Primaries # {} \/ Setting # {}) /\ ~CutShort /\ ~HandedAway
            => Primaries' # {} \/ Setting' # {}]_vars
    BY SpotlightStep
<1> QED
    BY <1>1, TypeCorrect, ReferencesHold, PTL DEF Spec, SpotlightKept

-----------------------------------------------------------------------------
(* Requests for the stage *)

Stagers == {"OWNER", "HOST", "PRESENTER"}

\* The role lists of the LiveKit token and of the permission matrix agree:
\* exactly the roles that may start presenting are given the right to publish.
THEOREM PublishersMayStart ==
    \A role \in Role : CanPublish(role) <=> Can(role, "START_PRESENT")
<1>1. \A role \in Role : CanPublish(role) <=> role \in Stagers
    BY DEF CanPublish, Stagers
<1>2. "START_PRESENT" \in Presenting /\ "START_PRESENT" \notin Everyone
    BY DEF Presenting, Everyone
<1>3. \A role \in Stagers : "START_PRESENT" \in matrix(role)
    BY <1>2 DEF Stagers, matrix, Hosting
<1>4. \A role \in Role \ Stagers : "START_PRESENT" \notin matrix(role)
    BY <1>2 DEF Stagers, matrix, Role
<1> QED
    BY <1>1, <1>3, <1>4 DEF Can

LEMMA StagersMayPresent ==
    ASSUME TypeOK, NEW p \in Participant
    PROVE  Can(row[p].role, "START_PRESENT") <=> row[p].role \in Stagers
<1>1. row[p].role \in Role
    BY DEF TypeOK, StoreTypeOK
<1> QED
    BY <1>1, PublishersMayStart DEF CanPublish, Stagers

\* Nobody who may present stops being able to, but by a role change or a transfer
\* that names it.
LEMMA StagersStay ==
    ASSUME TypeOK, [Next]_vars, NEW p \in Participant, Exists(p),
           row[p].role \in Stagers, row'[p].role \notin Stagers
    PROVE  \E w \in Worker : \/ At(w, "role.write") /\ req[w].to = p
                             \/ At(w, "xfer.demote") /\ req[w].from = p
<1>1. PICK w \in Worker : WritesRow(w)
    BY RowSteps
<1>2. ~\E q \in Participant : JoinInsert(w, q)
    <2> SUFFICES ASSUME NEW q \in Participant, JoinInsert(w, q) PROVE FALSE
        OBVIOUS
    <2>1. p # q
        BY DEF JoinInsert
    <2>2. row'[p] = row[p]
        BY <2>1, OthersStay
    <2> QED
        BY <2>2
<1>3. ~(LeaveStatus(w) \/ KickStatus(w) \/ TransferClear(w) \/ TransferSet(w))
    BY RoleStays
<1>4. ~TransferPromote(w)
    <2> SUFFICES ASSUME TransferPromote(w) PROVE FALSE
        OBVIOUS
    <2>1. row'[p].role = IF p = req[w].to THEN "PRESENTER" ELSE row[p].role
        BY RowWritten
    <2> QED
        BY <2>1 DEF Stagers
<1>5. CASE RoleWrite(w)
    <2>1. row'[p].role = IF p = req[w].to THEN req[w].arg ELSE row[p].role
        BY <1>5, RowWritten
    <2> QED
        BY <1>5, <2>1 DEF RoleWrite
<1>6. CASE TransferDemote(w)
    <2>1. row'[p].role = row[p].role \/ p = req[w].from
        BY <1>6, RowWritten
    <2> QED
        BY <1>6, <2>1 DEF TransferDemote
<1> QED
    BY <1>1, <1>2, <1>3, <1>4, <1>5, <1>6 DEF WritesRow

\* What cuts a promotion of p off or takes its result away.
Undoing(p) ==
    \/ Restart
    \/ \E w \in Worker :
          \/ Promotes(w, p) /\ Fail(w)
          \/ At(w, "role.write") /\ req[w].to = p
          \/ At(w, "xfer.demote") /\ req[w].from = p

\* A promotion goes on, or has found or made p a presenter.
LEMMA PromotionStep ==
    ASSUME TypeOK, [Next]_vars, NEW p \in Participant, ~Undoing(p), Granted(p),
           action'[p] = action[p], NEW w \in Worker, Promotes(w, p)
    PROVE  row'[p].role \in Stagers \/ Promotes(w, p)'
<1> USE DEF At
<1>0. req[w].to = p /\ req[w].at \in {"resolve.read", "xfer.target", "xfer.promote"}
    BY DEF Promotes
<1>1. CASE req'[w] = req[w]
    BY <1>0, <1>1 DEF Promotes
<1>2. CASE ResolveRead(w)
    <2>1. Goto(w, "xfer.target")
        BY <1>0, <1>2 DEF ResolveRead, Granted, TypesFound
    <2> QED
        BY <1>0, <2>1, GoneTo DEF Promotes
<1>3. CASE TransferTarget(w)
    <2>1. CASE row[p].role \in {"OWNER", "HOST"}
        BY <1>0, <1>3, <2>1 DEF TransferTarget, Stagers, db
    <2>2. CASE row[p].role \notin {"OWNER", "HOST"}
        <3>1. Goto(w, "xfer.promote")
            BY <1>0, <1>3, <2>2 DEF TransferTarget, RolesFound
        <3> QED
            BY <1>0, <3>1, GoneTo DEF Promotes
    <2> QED
        BY <2>1, <2>2
<1>4. CASE TransferPromote(w)
    <2>1. row'[p].role = "PRESENTER"
        BY <1>0, <1>4, RowWritten
    <2> QED
        BY <2>1 DEF Stagers
<1>5. ~Fail(w) /\ ~Restart
    BY DEF Undoing
<1>6. req'[w] = req[w] \/ Serve(w)
    BY <1>0, <1>5, OnlyServed
<1>7. ~TransferNotFound(w)
    BY <1>0 DEF TransferNotFound
<1> QED
    BY <1>0, <1>1, <1>2, <1>3, <1>4, <1>6, <1>7, ServedAt

LEMMA GrantedStep ==
    ASSUME TypeOK, TypeOK', Referenced, [Next]_vars, NEW p \in Participant, ~Undoing(p),
           ~Owed(p)
    PROVE  ~Owed(p)'
<1> SUFFICES ASSUME Granted(p)'
             PROVE  row'[p].role \in Stagers \/ \E w \in Worker : Promotes(w, p)'
    <2>1. row'[p].role \in Role
        BY DEF TypeOK, StoreTypeOK
    <2>2. Can(row'[p].role, "START_PRESENT") <=> row'[p].role \in Stagers
        BY <2>1, PublishersMayStart DEF CanPublish, Stagers
    <2> QED
        BY <2>2 DEF Owed
<1> USE DEF At, TypeOK
<1>1. CASE action'[p] # action[p]
    <2>1. PICK w \in Worker : \/ RequestAction(w) /\ req[w].by = p
                              \/ (Accept(w) \/ Decline(w)) /\ req[w].to = p
        BY <1>1, ActionSteps
    <2>2. ~RequestAction(w)
        <3> SUFFICES ASSUME RequestAction(w) PROVE FALSE
            OBVIOUS
        <3>1. req[w].by = p
            BY <2>1 DEF RequestAction, Accept, Decline
        <3>2. action'[p].status = "PENDING"
            BY <3>1 DEF RequestAction, CreateAction, StoreTypeOK
        <3> QED
            BY <3>2 DEF Granted
    <2>3. ~Decline(w)
        BY <2>1, <2>2 DEF Decline, ResolveAction, Granted, StoreTypeOK
    <2>4. Accept(w) /\ req[w].to = p
        BY <2>1, <2>2, <2>3
    <2> QED
        BY <2>4, GoneTo DEF Accept, Promotes
<1>2. CASE action'[p] = action[p]
    <2>1. Granted(p)
        BY <1>2 DEF Granted
    <2>2. CASE row[p].role \in Stagers
        BY <2>1, <2>2, StagersStay DEF Granted, Referenced, Undoing
    <2>3. CASE row[p].role \notin Stagers
        <3>1. PICK w \in Worker : Promotes(w, p)
            BY <2>1, <2>3, StagersMayPresent DEF Owed
        <3> QED
            BY <1>2, <2>1, <3>1, PromotionStep
    <2> QED
        BY <2>2, <2>3
<1> QED
    BY <1>1, <1>2

\* An accepted request is followed by the right to present, whatever interleaves
\* and fails, but for what GrantsKept names.
THEOREM GrantsAreKept == Spec => GrantsKept
<1>1. TypeOK /\ TypeOK' /\ Referenced /\ [Next]_vars =>
        [\A p \in Participant :
            Owed(p)' /\ ~Owed(p) =>
               \/ Restart
               \/ \E w \in Worker :
                     \/ Promotes(w, p) /\ Fail(w)
                     \/ At(w, "role.write") /\ req[w].to = p
                     \/ At(w, "xfer.demote") /\ req[w].from = p]_vars
    BY GrantedStep DEF Undoing
<1> QED
    BY <1>1, TypeCorrect, ReferencesHold, PTL DEF Spec, GrantsKept

-----------------------------------------------------------------------------
(* Instances where nothing fails and roles change by answers alone *)

AnswersOnly == Faults \cap {"failure", "restart"} = {} /\ Ops \cap {"role", "transfer"} = {}

NoDemotion ==
    \A w \in Worker :
       /\ req[w].at \notin {"role.write", "xfer.from", "xfer.demote"}
       /\ req[w].at \in NamedPoint => req[w].from = Null

NothingOwed == NoDemotion /\ \A p \in Participant : ~Owed(p)

\* When a request for the stage has been accepted, its maker may present as soon
\* as nothing is in flight.
AcceptedMayPresent ==
    Quiet => \A p \in Participant : Granted(p) => Can(row[p].role, "START_PRESENT")

LEMMA NoDemotionKept ==
    ASSUME TypeOK, AnswersOnly, NoDemotion, [Next]_vars
    PROVE  NoDemotion'
<1> SUFFICES ASSUME NEW w \in Worker
             PROVE  /\ req'[w].at \notin {"role.write", "xfer.from", "xfer.demote"}
                    /\ req'[w].at \in NamedPoint => req'[w].from = Null
    BY DEF NoDemotion
<1>1. CASE req'[w] = req[w]
    BY <1>1 DEF NoDemotion
<1>2. CASE Ways(w)
    <2>1. ~\E target \in Targets, role \in GrantRoles : BeginRole(w, target, role)
        BY DEF AnswersOnly, BeginRole, Admit
    <2>2. ~\E target \in Targets : BeginTransfer(w, target)
        BY DEF AnswersOnly, BeginTransfer, Admit
    <2>3. ~TransferFrom(w) /\ ~TransferDemote(w)
        BY DEF NoDemotion, TransferFrom, TransferDemote, At
    <2>4. TransferTarget(w) \/ TransferPromote(w) => req[w].from = Null /\ req'[w].at # "xfer.from"
        BY GoneTo DEF NoDemotion, TransferTarget, TransferPromote, AfterPromotion, At, NamedPoint,
                      TransferPoint
    <2>5. req'[w].at \notin {"role.write", "xfer.from", "xfer.demote"}
        BY <1>2, <2>1, <2>3, <2>4 DEF Ways
    <2>6. ASSUME req'[w].at \in NamedPoint
          PROVE  req'[w].from = Null
        <3>1. CASE \/ \E type \in Asks : BeginRequest(w, type)
                   \/ \E asker \in Anyone, point \in {"accept", "decline"} :
                         BeginResolve(w, asker, point)
            BY <3>1, Admitted DEF BeginRequest, BeginResolve
        <3>2. CASE ResolveRead(w) \/ TransferTarget(w) \/ TransferPromote(w) \/ TransferClear(w)
                   \/ Accept(w)
            <4>1. req[w].at \in NamedPoint
                BY <3>2 DEF ResolveRead, TransferTarget, TransferPromote, TransferClear, Accept, At,
                            NamedPoint, TransferPoint
            <4>2. (\E point : Goto(w, point)) \/ Finish(w)
                BY <3>2 DEF ResolveRead, TransferTarget, TransferPromote, TransferClear, Accept
            <4>3. ~Finish(w)
                BY <2>6, AfterFinish DEF NamedPoint, TransferPoint
            <4> QED
                BY <4>1, <4>2, <4>3, GoneTo DEF NoDemotion
        <3> QED
            BY <1>2, <2>1, <2>2, <2>3, <2>6, <3>1, <3>2 DEF Ways, NamedPoint, TransferPoint
    <2> QED
        BY <2>5, <2>6
<1> QED
    BY <1>1, <1>2, Arrivals

LEMMA NothingOwedKept ==
    ASSUME TypeOK, TypeOK', Referenced, AnswersOnly, NothingOwed, [Next]_vars
    PROVE  NothingOwed'
<1>1. NoDemotion'
    BY NoDemotionKept DEF NothingOwed
<1>2. ASSUME NEW p \in Participant
      PROVE  ~Undoing(p)
    BY DEF Undoing, AnswersOnly, Restart, Fail, NothingOwed, NoDemotion, At
<1> QED
    BY <1>1, <1>2, GrantedStep DEF NothingOwed

LEMMA InitOwed == Init => NothingOwed
    BY DEF Init, StoreInit, NothingOwed, NoDemotion, Owed, Granted, Idle, NamedPoint, TransferPoint

\* In an instance without faults where roles change by answers alone: once nothing
\* is in flight, whoever's request for the stage stands accepted may present,
\* however many hosts answered it at once and in whatever order.
THEOREM AcceptedPresent == AnswersOnly => (Spec => []AcceptedMayPresent)
<1> SUFFICES ASSUME AnswersOnly PROVE Spec => []AcceptedMayPresent
    OBVIOUS
<1>1. TypeOK /\ TypeOK' /\ Referenced /\ NothingOwed /\ [Next]_vars => NothingOwed'
    BY NothingOwedKept
<1>2. NothingOwed => AcceptedMayPresent
    BY DEF NothingOwed, Owed, AcceptedMayPresent, Quiet, At, Promotes
<1> QED
    BY <1>1, <1>2, InitOwed, TypeCorrect, ReferencesHold, PTL DEF Spec

=============================================================================
