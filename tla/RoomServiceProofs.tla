------------------------- MODULE RoomServiceProofs -------------------------
(***************************************************************************)
(* Theorems about RoomService, for every number of participants and        *)
(* workers and every choice of the other constants.                        *)
(***************************************************************************)
EXTENDS RoomService, TLAPS

-----------------------------------------------------------------------------
(* Types *)

USE StoreAssumption, RoomServiceAssumption

\* Every statement of the store keeps the type of the tables.
LEMMA RoomTypes ==
    ASSUME StoreTypeOK
    PROVE  /\ \A s \in {"WAITING", "PRESENTING", "PAUSED", "ENDED"} :
                 UpdateRoomStatus(s) => StoreTypeOK'
           /\ \A p \in Participant :
                 /\ ClaimPresenter(p) => StoreTypeOK'
                 /\ ReleasePresenter(p) => StoreTypeOK'
           /\ \A p \in Anyone : ReleasePresenterForParticipant(p) => StoreTypeOK'
    BY DEF StoreTypeOK, UpdateRoomStatus, ClaimPresenter, ReleasePresenter,
           ReleasePresenterForParticipant

Row == [status : {"ABSENT", "CONNECTED", "DISCONNECTED", "KICKED"},
        role : Role, primary : BOOLEAN]

LEMMA RowTypes ==
    ASSUME StoreTypeOK, NEW p \in Anyone, NEW here
    PROVE  /\ p \in Participant /\ CreateParticipant(p) => StoreTypeOK'
           /\ \A r \in Role : UpdateParticipantRole(p, r) => StoreTypeOK'
           /\ \A s \in {"DISCONNECTED", "KICKED"} :
                 UpdateParticipantStatus(p, s) => StoreTypeOK'
           /\ ClearOtherPrimaries(here, p) => StoreTypeOK'
           /\ SetParticipantPrimary(here, p) => StoreTypeOK'
<1>1. row \in [Participant -> Row]
    BY DEF StoreTypeOK, Row
<1>2. ASSUME UNCHANGED <<room, session, action>>, row' \in [Participant -> Row]
      PROVE  StoreTypeOK'
    BY <1>2 DEF StoreTypeOK, Row
<1>3. p \in Participant /\ CreateParticipant(p) => row' \in [Participant -> Row]
    BY <1>1 DEF CreateParticipant, NewRow, Row, DefaultRoleForNewParticipant, Role
<1>4. ASSUME NEW r \in Role, UpdateParticipantRole(p, r)
      PROVE  row' \in [Participant -> Row]
    BY <1>1, <1>4 DEF UpdateParticipantRole, Row
<1>5. ASSUME NEW s \in {"DISCONNECTED", "KICKED"}, UpdateParticipantStatus(p, s)
      PROVE  row' \in [Participant -> Row]
    BY <1>1, <1>5 DEF UpdateParticipantStatus, Row
<1>6. ASSUME ClearOtherPrimaries(here, p)
      PROVE  row' \in [Participant -> Row]
    <2>1. ASSUME NEW q \in Participant
          PROVE  [row[q] EXCEPT !.primary = FALSE] \in Row
        BY <1>1 DEF Row
    <2> QED
        BY <1>1, <1>6, <2>1 DEF ClearOtherPrimaries
<1>7. SetParticipantPrimary(here, p) => row' \in [Participant -> Row]
    <2>1. p \in Participant => [row[p] EXCEPT !.primary = TRUE] \in Row
        BY <1>1 DEF Row
    <2> QED
        BY <1>1, <2>1 DEF SetParticipantPrimary
<1> QED
    BY <1>2, <1>3, <1>4, <1>5, <1>6, <1>7
       DEF CreateParticipant, UpdateParticipantRole, UpdateParticipantStatus,
           ClearOtherPrimaries, SetParticipantPrimary

LEMMA SessionTypes ==
    ASSUME StoreTypeOK, NEW p \in Anyone
    PROVE  CreateSession(p) \/ RevokeSessionsForParticipant(p) \/ RevokeSessionsForRoom
              => StoreTypeOK'
    BY DEF StoreTypeOK, CreateSession, RevokeSessionsForParticipant,
           RevokeSessionsForRoom, Revoked

LEMMA ActionTypes ==
    ASSUME StoreTypeOK, NEW p \in Anyone
    PROVE  /\ \A t \in ActionType : CreateAction(p, t) => StoreTypeOK'
           /\ \A s \in {"ACCEPTED", "DECLINED"} : ResolveAction(p, s) => StoreTypeOK'
<1>1. ASSUME NEW t \in ActionType, CreateAction(p, t)
      PROVE  StoreTypeOK'
    BY <1>1 DEF StoreTypeOK, CreateAction
<1>2. ASSUME NEW s \in {"ACCEPTED", "DECLINED"}, ResolveAction(p, s)
      PROVE  StoreTypeOK'
    BY <1>2 DEF StoreTypeOK, ResolveAction
<1> QED
    BY <1>1, <1>2

\* A request moves on to a point it carries everything for.
LEMMA GotoTypes ==
    ASSUME ReqOK, NEW w \in Worker, NEW point \in Point,
           Carries(req[w], point), Goto(w, point)
    PROVE  ReqOK'
<1>1. req'[w] \in Request /\ Carries(req'[w], req'[w].at)
    BY DEF ReqOK, Goto, Request, Carries
<1>2. \A v \in Worker \ {w} : req'[v] = req[v]
    BY DEF Goto, ReqOK
<1> QED
    BY <1>1, <1>2 DEF Goto, ReqOK

\* A worker takes up a new request.
LEMMA NewRequestTypes ==
    ASSUME ReqOK, NEW w \in Worker, NEW r \in Request, Carries(r, r.at),
           req' = [req EXCEPT ![w] = r]
    PROVE  ReqOK'
    BY DEF ReqOK

LEMMA IdleTypes == Idle \in Request /\ Carries(Idle, "idle")
    BY DEF Idle, Request, Carries, NamingPoint, Anyone, Point, JoinPoint, EndPoint, LeavePoint, KickPoint,
           StagePoint, TransferPoint, AskPoint

LEMMA FinishTypes == ASSUME ReqOK, NEW w \in Worker, Finish(w) PROVE ReqOK'
    BY NewRequestTypes, IdleTypes DEF Finish, Idle

LEMMA InitTypes == Init => TypeOK
<1> SUFFICES ASSUME Init PROVE TypeOK
    OBVIOUS
<1>1. StoreTypeOK
    BY DEF Init, StoreInit, StoreTypeOK, NewRow, DefaultRoleForNewParticipant, Role, ActionType
<1>2. ReqOK
    BY IdleTypes DEF Init, ReqOK, Idle
<1>3. ClientsOK
    BY DEF Init, ClientsOK
<1> QED
    BY <1>1, <1>2, <1>3 DEF TypeOK

\* A step that leaves the database alone, or the clients' state and the history.
LEMMA Untouched ==
    /\ StoreTypeOK /\ UNCHANGED db => StoreTypeOK'
    /\ ClientsOK /\ OnlyDb => ClientsOK'
    BY DEF StoreTypeOK, ClientsOK, db, OnlyDb, history

\* Where a request stands, it carries what it needs there.
LEMMA Carried ==
    ASSUME ReqOK, NEW w \in Worker, NEW point, At(w, point)
    PROVE  Carries(req[w], point)
    BY DEF ReqOK, At

\* From where a request stands to where the code goes next.
LEMMA CarriesOn ==
    ASSUME NEW r \in Request
    PROVE  /\ Carries(r, "idle") => Carries(r, "join.count") /\ Carries(r, "join.insert")
           /\ Carries(r, "join.count") => Carries(r, "join.insert")
           /\ Carries(r, "join.session") => Carries(r, "join.reply")
           /\ Carries(r, "leave.release") => Carries(r, "leave.status")
           /\ Carries(r, "end.status") => Carries(r, "end.revoke")
           /\ Carries(r, "start.claim") => Carries(r, "start.status")
           /\ Carries(r, "stop.release") => Carries(r, "stop.status")
           /\ Carries(r, "kick.release") => Carries(r, "kick.status")
           /\ Carries(r, "kick.status") => Carries(r, "kick.revoke")
           /\ Carries(r, "xfer.target") => Carries(r, "xfer.promote") /\ Carries(r, "xfer.clear")
           /\ Carries(r, "xfer.target") /\ r.from # Null => Carries(r, "xfer.from")
           /\ Carries(r, "xfer.promote") => Carries(r, "xfer.clear")
           /\ Carries(r, "xfer.promote") /\ r.from # Null => Carries(r, "xfer.from")
           /\ Carries(r, "xfer.from") => Carries(r, "xfer.demote") /\ Carries(r, "xfer.clear")
           /\ Carries(r, "xfer.demote") => Carries(r, "xfer.clear")
           /\ Carries(r, "xfer.clear") => Carries(r, "xfer.set")
           /\ Carries(r, "accept") => Carries(r, "resolve.read")
           /\ Carries(r, "resolve.read") => Carries(r, "xfer.target")
    BY DEF Carries, NamingPoint, KickPoint, TransferPoint, Request, Anyone

\* Whom the statement a request is about to execute writes about.  Callers of
\* other rooms write about this one's participants only.
LEMMA Bears ==
    ASSUME ReqOK, NEW w \in Worker
    PROVE  /\ req[w] \in Request
           /\ req[w].by # Null => req[w].by \in Anyone
           /\ req[w].at \notin {"idle", "join.count", "join.insert"} => req[w].by \in Anyone
           /\ req[w].at \in {"join.session", "join.reply", "end.status", "end.revoke",
                            "leave.release", "leave.status", "pause", "resume", "start.claim",
                            "start.status", "stop.release", "stop.status", "request", "ws.open"}
                 => req[w].by \in Participant
           /\ req[w].at \in {"kick.release", "kick.status", "kick.revoke", "role.write",
                            "xfer.target", "xfer.promote", "xfer.from", "xfer.demote",
                            "xfer.clear", "xfer.set", "accept", "decline", "resolve.read"} =>
                 /\ req[w].to \in Anyone
                 /\ req[w].by \in Participant \/ req[w].to \in Participant
           /\ req[w].at \in {"xfer.from", "xfer.demote"} => req[w].from \in Anyone
           /\ req[w].at = "role.write" => req[w].arg \in Role
           /\ req[w].at = "request" => req[w].arg \in ActionType
    BY DEF ReqOK, Carries, Request, Anyone, NamingPoint, KickPoint, TransferPoint

LEMMA JoinTypes ==
    ASSUME TypeOK, NEW w \in Worker
    PROVE  /\ JoinCheck(w) \/ JoinCount(w) \/ JoinSession(w) \/ JoinReply(w) => TypeOK'
           /\ \A p \in Participant : JoinInsert(w, p) => TypeOK'
<1> USE GotoTypes, FinishTypes, Carried, CarriesOn, Bears, Untouched
        DEF TypeOK, JoinPoint, Point, Anyone, NamingPoint, KickPoint, TransferPoint
<1>1. ASSUME JoinCheck(w) PROVE TypeOK'
    <2>1. Goto(w, "join.count") \/ Goto(w, "join.insert")
        BY <1>1 DEF JoinCheck
    <2> QED
        BY <1>1, <2>1 DEF JoinCheck
<1>2. ASSUME JoinCount(w) PROVE TypeOK'
    BY <1>2 DEF JoinCount
<1>3. ASSUME NEW p \in Participant, JoinInsert(w, p) PROVE TypeOK'
    <2> DEFINE r == [req[w] EXCEPT !.at = "join.session", !.by = p]
    <2>1. r \in Request /\ r.at = "join.session" /\ r.by = p
        BY DEF Request
    <2>2. Carries(r, r.at)
        BY <2>1 DEF Carries
    <2> HIDE DEF r
    <2>3. ReqOK'
        BY <1>3, <2>1, <2>2, NewRequestTypes DEF JoinInsert, r
    <2> QED
        BY <1>3, <2>3, RowTypes DEF JoinInsert
<1>4. ASSUME JoinSession(w) PROVE TypeOK'
    BY <1>4, SessionTypes DEF JoinSession, At
<1>5. ASSUME JoinReply(w) PROVE TypeOK'
    <2>1. ClientsOK'
        BY <1>5 DEF JoinReply, ClientsOK, history, At
    <2> QED
        BY <1>5, <2>1 DEF JoinReply, db, StoreTypeOK
<1> QED
    BY <1>1, <1>2, <1>3, <1>4, <1>5

LEMMA AdmitTypes ==
    ASSUME TypeOK, NEW w \in Worker, NEW op, NEW point \in Point,
           NEW from \in Anyone \cup {Null}, NEW to \in Anyone \cup {Null},
           NEW arg \in Role \cup ActionType \cup {Null},
           Admit(w, op, point, from, to, arg),
           Carries([req[w] EXCEPT !.at = point, !.from = from, !.to = to, !.arg = arg], point)
    PROVE  TypeOK'
<1>1. [req[w] EXCEPT !.at = point, !.from = from, !.to = to, !.arg = arg] \in Request
    BY DEF TypeOK, ReqOK, Request
<1>2. ReqOK'
    BY <1>1, NewRequestTypes DEF Admit, TypeOK, ReqOK, Request
<1> QED
    BY <1>2, Untouched DEF Admit, TypeOK

LEMMA BeginTypes ==
    ASSUME TypeOK, NEW w \in Worker, Begin(w)
    PROVE  TypeOK'
<1> USE DEF TypeOK, At, May, Carries, EndPoint, LeavePoint, KickPoint, StagePoint,
            TransferPoint, AskPoint, Point, NamingPoint, Anyone
<1> DEFINE New(point, from, to, arg) ==
              [req[w] EXCEPT !.at = point, !.from = from, !.to = to, !.arg = arg]
<1>1. req[w] \in Request
    BY Bears
<1>2. ASSUME At(w, "identify")
      PROVE  /\ req[w].by \in Anyone
             /\ req[w].by \in Participant =>
                   /\ \A point \in {"leave.release", "end.status", "pause", "resume", "start.claim",
                                    "stop.release", "ws.open"} :
                         Carries(New(point, Null, Null, Null), point)
                   /\ \A type \in ActionType :
                         Carries(New("request", Null, Null, type), "request")
             /\ \A target \in Anyone : req[w].by \in Participant \/ target \in Participant =>
                   /\ Carries(New("kick.release", Null, target, Null), "kick.release")
                   /\ Carries(New("xfer.target", req[w].by, target, Null), "xfer.target")
                   /\ \A role \in Role : Carries(New("role.write", Null, target, role), "role.write")
                   /\ \A point \in {"accept", "decline"} :
                         Carries(New(point, Null, target, Null), point)
    BY <1>1, <1>2, Bears DEF Request
<1>0. \A op, point, from, to, arg :
         Admit(w, op, point, from, to, arg) =>
            At(w, "identify") /\ (req[w].by \in Participant \/ to \in Participant)
    BY DEF Admit, OwnRoom
<1>3. CASE BeginLeave(w)
    BY <1>2, <1>3, <1>0, AdmitTypes DEF BeginLeave
<1>4. CASE BeginEnd(w)
    BY <1>2, <1>4, <1>0, AdmitTypes DEF BeginEnd
<1>5. CASE BeginPause(w) \/ BeginResume(w)
    BY <1>2, <1>5, <1>0, AdmitTypes DEF BeginPause, BeginResume
<1>6. CASE BeginStart(w)
    BY <1>2, <1>6, <1>0, AdmitTypes DEF BeginStart
<1>7. CASE BeginStop(w)
    BY <1>2, <1>7, <1>0, AdmitTypes DEF BeginStop
<1>8. CASE BeginSocket(w)
    BY <1>2, <1>8, <1>0, AdmitTypes DEF BeginSocket
<1>9. ASSUME NEW target \in Anyone, BeginKick(w, target) PROVE TypeOK'
    BY <1>2, <1>9, <1>0, AdmitTypes DEF BeginKick
<1>10. ASSUME NEW target \in Anyone, BeginTransfer(w, target) PROVE TypeOK'
    BY <1>2, <1>10, <1>0, AdmitTypes DEF BeginTransfer
<1>11. ASSUME NEW target \in Anyone, NEW role \in Role, BeginRole(w, target, role)
       PROVE  TypeOK'
    BY <1>2, <1>11, <1>0, AdmitTypes DEF BeginRole
<1>12. ASSUME NEW type \in ActionType, BeginRequest(w, type) PROVE TypeOK'
    BY <1>2, <1>12, <1>0, AdmitTypes DEF BeginRequest
<1>13. ASSUME NEW asker \in Anyone, NEW point \in {"accept", "decline"},
              BeginResolve(w, asker, point)
       PROVE  TypeOK'
    BY <1>2, <1>13, <1>0, AdmitTypes DEF BeginResolve
<1> QED
    BY <1>3, <1>4, <1>5, <1>6, <1>7, <1>8, <1>9, <1>10, <1>11, <1>12, <1>13 DEF Begin

\* The points of a request, one by one.
LEMMA Points ==
    {"idle", "identify", "pause", "resume", "role.write", "ws.open", "join.count", "join.insert",
     "join.session", "join.reply", "end.status", "end.revoke", "leave.release", "leave.status",
     "kick.release", "kick.status", "kick.revoke", "start.claim", "start.status",
     "stop.release", "stop.status", "xfer.target", "xfer.promote", "xfer.from", "xfer.demote",
     "xfer.clear", "xfer.set", "request", "accept", "decline", "resolve.read"} \subseteq Point
    BY DEF Point, JoinPoint, EndPoint, LeavePoint, KickPoint, StagePoint, TransferPoint, AskPoint

LEMMA LeaveEndKickTypes ==
    ASSUME TypeOK, NEW w \in Worker,
           \/ LeaveRelease(w) \/ LeaveStatus(w) \/ EndStatus(w) \/ EndRevoke(w)
           \/ KickRelease(w) \/ KickStatus(w) \/ KickRevoke(w)
    PROVE  TypeOK'
<1> USE GotoTypes, FinishTypes, Carried, CarriesOn, Bears, Untouched, Points,
        RoomTypes, RowTypes, SessionTypes DEF TypeOK, At, KickPoint, NamingPoint, TransferPoint,
        Anyone
<1>1. CASE LeaveRelease(w)
    BY <1>1 DEF LeaveRelease
<1>2. CASE LeaveStatus(w)
    BY <1>2 DEF LeaveStatus
<1>3. CASE EndStatus(w)
    BY <1>3 DEF EndStatus
<1>4. CASE EndRevoke(w)
    <2>1. ClientsOK'
        BY <1>4 DEF EndRevoke, ClientsOK
    <2>2. req[w].by \in Participant
        BY <1>4 DEF EndRevoke
    <2> QED
        BY <1>4, <2>1, <2>2 DEF EndRevoke
<1>5. CASE KickRelease(w)
    BY <1>5 DEF KickRelease
<1>6. CASE KickStatus(w)
    BY <1>6 DEF KickStatus
<1>7. CASE KickRevoke(w)
    <2>1. req[w].to \in Anyone
        BY <1>7 DEF KickRevoke
    <2>2. ClientsOK'
        BY <1>7, <2>1 DEF KickRevoke, ClientsOK
    <2> QED
        BY <1>7, <2>1, <2>2 DEF KickRevoke
<1> QED
    BY <1>1, <1>2, <1>3, <1>4, <1>5, <1>6, <1>7

LEMMA StageTypes ==
    ASSUME TypeOK, NEW w \in Worker,
           \/ SetPaused(w) \/ StartClaim(w) \/ StartStatus(w) \/ StopRelease(w) \/ StopStatus(w)
    PROVE  TypeOK'
<1> USE GotoTypes, FinishTypes, Carried, CarriesOn, Bears, Untouched, Points, RoomTypes
        DEF TypeOK, At, NamingPoint, KickPoint, TransferPoint, Anyone
<1>1. CASE SetPaused(w)
    BY <1>1 DEF SetPaused
<1>2. CASE StartClaim(w)
    BY <1>2 DEF StartClaim
<1>3. CASE StartStatus(w)
    BY <1>3 DEF StartStatus
<1>4. CASE StopRelease(w)
    BY <1>4 DEF StopRelease
<1>5. CASE StopStatus(w)
    BY <1>5 DEF StopStatus
<1> QED
    BY <1>1, <1>2, <1>3, <1>4, <1>5

LEMMA TransferTypes ==
    ASSUME TypeOK, NEW w \in Worker,
           \/ RoleWrite(w) \/ TransferTarget(w) \/ TransferNotFound(w) \/ TransferPromote(w)
           \/ TransferFrom(w) \/ TransferDemote(w) \/ TransferClear(w) \/ TransferSet(w)
    PROVE  TypeOK'
<1> USE GotoTypes, FinishTypes, Carried, CarriesOn, Bears, Untouched, Points, RowTypes
        DEF TypeOK, At, NamingPoint, TransferPoint, Role
<1>1. CASE RoleWrite(w)
    BY <1>1 DEF RoleWrite
<1>2. CASE TransferTarget(w)
    <2>1. \/ Goto(w, "xfer.promote") \/ Goto(w, "xfer.clear")
          \/ req[w].from # Null /\ Goto(w, "xfer.from")
        BY <1>2 DEF TransferTarget, AfterPromotion
    <2> QED
        BY <1>2, <2>1 DEF TransferTarget
<1>8. CASE TransferNotFound(w)
    BY <1>8 DEF TransferNotFound
<1>3. CASE TransferPromote(w)
    <2>1. \/ Goto(w, "xfer.clear")
          \/ req[w].from # Null /\ Goto(w, "xfer.from")
        BY <1>3 DEF TransferPromote, AfterPromotion
    <2> QED
        BY <1>3, <2>1 DEF TransferPromote
<1>4. CASE TransferFrom(w)
    <2>1. Goto(w, "xfer.demote") \/ Goto(w, "xfer.clear")
        BY <1>4 DEF TransferFrom
    <2> QED
        BY <1>4, <2>1 DEF TransferFrom
<1>5. CASE TransferDemote(w)
    BY <1>5 DEF TransferDemote
<1>6. CASE TransferClear(w)
    BY <1>6 DEF TransferClear
<1>7. CASE TransferSet(w)
    BY <1>7 DEF TransferSet
<1> QED
    BY <1>1, <1>2, <1>3, <1>4, <1>5, <1>6, <1>7, <1>8

LEMMA AskTypes ==
    ASSUME TypeOK, NEW w \in Worker,
           RequestAction(w) \/ Accept(w) \/ Decline(w) \/ ResolveRead(w)
    PROVE  TypeOK'
<1> USE GotoTypes, FinishTypes, Carried, CarriesOn, Bears, Untouched, Points, ActionTypes
        DEF TypeOK, At, NamingPoint, KickPoint, TransferPoint, Anyone
<1>1. CASE RequestAction(w)
    BY <1>1 DEF RequestAction
<1>2. CASE Accept(w)
    BY <1>2 DEF Accept
<1>3. CASE Decline(w)
    BY <1>3 DEF Decline
<1>4. CASE ResolveRead(w)
    BY <1>4 DEF ResolveRead
<1> QED
    BY <1>1, <1>2, <1>3, <1>4

LEMMA SocketTypes ==
    ASSUME TypeOK, NEW w \in Worker
    PROVE  /\ OpenSocket(w) \/ AbandonSocket(w) => TypeOK'
           /\ \A p \in Participant : CloseSocket(w, p) => TypeOK'
           /\ \A p \in Anyone : Authenticate(w, p) => TypeOK'
<1> USE FinishTypes, Bears, Untouched, Points
        DEF TypeOK, At, Anyone, NamingPoint, KickPoint, TransferPoint
<1>1. ASSUME OpenSocket(w) PROVE TypeOK'
    <2>1. ClientsOK'
        BY <1>1 DEF OpenSocket, ClientsOK
    <2> QED
        BY <1>1, <2>1 DEF OpenSocket, db, StoreTypeOK
<1>2. ASSUME AbandonSocket(w) PROVE TypeOK'
    BY <1>2 DEF AbandonSocket
<1>3. ASSUME NEW p \in Anyone,
             (p \in Participant /\ CloseSocket(w, p)) \/ Authenticate(w, p)
      PROVE  TypeOK'
    <2>1. ASSUME NEW point \in {"identify", "leave.release"},
                 point = "identify" \/ p \in Participant
          PROVE  LET r == [Idle EXCEPT !.at = point, !.by = p]
                 IN  r \in Request /\ Carries(r, r.at)
        BY <2>1 DEF Idle, Request, Carries
    <2>2. ReqOK'
        BY <1>3, <2>1, NewRequestTypes DEF CloseSocket, Authenticate
    <2>3. ClientsOK'
        BY <1>3 DEF CloseSocket, Authenticate, OnlyDb, ClientsOK, history
    <2> QED
        BY <1>3, <2>2, <2>3 DEF CloseSocket, Authenticate, db, StoreTypeOK
<1> QED
    BY <1>1, <1>2, <1>3

LEMMA NextTypes ==
    ASSUME TypeOK, [Next]_vars
    PROVE  TypeOK'
<1>1. ASSUME NEW w \in Worker, Serve(w)
      PROVE  TypeOK'
    BY <1>1, JoinTypes, LeaveEndKickTypes, StageTypes, TransferTypes, AskTypes, SocketTypes
       DEF Serve
<1>2. ASSUME NEW w \in Worker, Refuse(w) \/ Fail(w)
      PROVE  TypeOK'
    BY <1>2, FinishTypes, Untouched DEF Refuse, Fail, TypeOK
<1>3. CASE Tick
    BY <1>3 DEF Tick, TypeOK, StoreTypeOK, ReqOK, ClientsOK, db, history
<1>4. CASE Restart
    <2>1. ReqOK'
        BY <1>4, IdleTypes DEF Restart, ReqOK, Idle
    <2>2. ClientsOK'
        BY <1>4 DEF Restart, ClientsOK, TypeOK, history
    <2> QED
        BY <1>4, <2>1, <2>2 DEF Restart, TypeOK, StoreTypeOK, db
<1>5. CASE UNCHANGED vars
    BY <1>5 DEF vars, db, history, TypeOK, StoreTypeOK, ReqOK, ClientsOK
<1> QED
    BY <1>1, <1>2, <1>3, <1>4, <1>5, JoinTypes, BeginTypes, SocketTypes DEF Next

\* The tables satisfy the schema, and every request in flight carries what its
\* next statement needs, in every reachable state.
THEOREM TypeCorrect == Spec => []TypeOK
<1>1. Init => TypeOK
    BY InitTypes
<1>2. TypeOK /\ [Next]_vars => TypeOK'
    BY NextTypes
<1> QED
    BY <1>1, <1>2, PTL DEF Spec

-----------------------------------------------------------------------------
(* Who has been put out stays out.                                         *)
(*                                                                         *)
(* ExpelledStayOut is not inductive: a kick can complete before the join   *)
(* of its target has minted the session, so what is revoked may come to    *)
(* life later, and what keeps the target out is then the KICKED status     *)
(* alone, which its own leave or close would overwrite.  The argument is   *)
(* that such a target has never had a session, hence no socket and no      *)
(* request past the middleware, and will get none.                         *)

Shut(p) == session[p] = "REVOKED" \/ (row[p].status = "KICKED" /\ Outside(p))

\* Without a session there is no token, no socket and no request but the join.
SessionFirst ==
    \A p \in Participant : session[p] = "NONE" =>
       /\ p \notin token /\ sockets[p] = 0
       /\ \A w \in Worker : req[w].by = p => At(w, "join.session")

RowFirst ==
    \A p \in Participant : ~Exists(p) =>
       session[p] = "NONE" /\ \A w \in Worker : req[w].by # p

OneJoinEach ==
    \A w \in Worker : At(w, "join.session") =>
       /\ session[req[w].by] = "NONE"
       /\ \A v \in Worker \ {w} : req[v].by # req[w].by

KickInProgress ==
    \A w \in Worker :
       /\ req[w].at \in KickPoint => Nameable(req[w].to)
       /\ At(w, "kick.revoke") /\ req[w].to \in Participant =>
             /\ row[req[w].to].status \in {"KICKED", "DISCONNECTED"}
             /\ session[req[w].to] = "NONE" => row[req[w].to].status = "KICKED"

ExpelledInv ==
    /\ SessionFirst /\ RowFirst /\ OneJoinEach /\ KickInProgress
    /\ \A p \in expelled : Shut(p)
    /\ \A p \in kicked : row[p].status \in {"KICKED", "DISCONNECTED"}

\* A request that moves on, or finishes, while nobody's standing changes.
LEMMA MovePreserves ==
    ASSUME TypeOK, ExpelledInv, NEW w \in Worker, NEW r \in Request,
           req' = [req EXCEPT ![w] = r],
           UNCHANGED <<session, token, sockets, kicked, expelled>>,
           \A p \in Participant : row'[p].status = row[p].status,
           r.by \in {Null, req[w].by},
           r.at # "join.session", r.at = "kick.revoke" => r.to \notin Participant,
           r.by \in Participant =>
              /\ ~At(w, "join.session")
              /\ req[w].at \in {"identify", "join.reply"} => row[r.by].status # "KICKED",
           r.at \in KickPoint => Nameable(r.to)
    PROVE  ExpelledInv'
<1> USE DEF TypeOK, ExpelledInv, At, Exists, Nameable
<1>1. req \in [Worker -> Request] /\ req'[w] = r /\ \A v \in Worker \ {w} : req'[v] = req[v]
    BY DEF ReqOK
<1>2. \A v \in Worker : req'[v].by = Null \/ req'[v].by = req[v].by
    BY <1>1
<1>3. SessionFirst'
    BY <1>1 DEF SessionFirst
<1>4. RowFirst'
    BY <1>1 DEF RowFirst
<1>5. OneJoinEach'
    <2>1. \A v \in Worker : At(v, "join.session") => req[v].by \in Participant
        BY Bears DEF NamingPoint, KickPoint, TransferPoint
    <2> QED
        BY <1>1, <2>1 DEF OneJoinEach, SessionFirst
<1>6. KickInProgress'
    BY <1>1 DEF KickInProgress, KickPoint
<1>7. \A p \in expelled' : Shut(p)'
    BY <1>1 DEF Shut, Outside, ClientsOK
<1>8. \A p \in kicked' : row'[p].status \in {"KICKED", "DISCONNECTED"}
    BY DEF ClientsOK
<1> QED
    BY <1>3, <1>4, <1>5, <1>6, <1>7, <1>8

SameStanding ==
    /\ UNCHANGED <<session, token, sockets, kicked, expelled>>
    /\ \A p \in Participant : row'[p].status = row[p].status

LEMMA GotoPreserves ==
    ASSUME TypeOK, ExpelledInv, NEW w \in Worker, NEW point \in Point, Goto(w, point),
           SameStanding,
           req[w].at \notin {"identify", "join.session", "join.reply"},
           point \notin {"join.session", "kick.revoke"},
           point \in KickPoint => req[w].at \in KickPoint
    PROVE  ExpelledInv'
<1> DEFINE r == [req[w] EXCEPT !.at = point]
<1>1. r \in Request /\ r.at = point /\ r.by = req[w].by /\ r.to = req[w].to
    BY DEF TypeOK, ReqOK, Request
<1>2. req' = [req EXCEPT ![w] = r]
    BY DEF Goto
<1>3. r.at \in KickPoint => Nameable(r.to)
    BY <1>1 DEF ExpelledInv, KickInProgress
<1> QED
    BY <1>1, <1>2, <1>3, MovePreserves DEF SameStanding, At

LEMMA FinishPreserves ==
    ASSUME TypeOK, ExpelledInv, NEW w \in Worker, Finish(w), SameStanding
    PROVE  ExpelledInv'
<1>1. Idle.by = Null /\ Idle.at = "idle" /\ "idle" \notin KickPoint
    BY DEF Idle, KickPoint
<1> QED
    BY <1>1, IdleTypes, MovePreserves DEF Finish, SameStanding

\* The statements that write no session and no participant's status.
LEMMA NoStanding ==
    ASSUME StoreTypeOK, NEW here
    PROVE  LET Same == session' = session /\ \A q \in Participant : row'[q].status = row[q].status
           IN  /\ UNCHANGED db => Same
               /\ \A s : UpdateRoomStatus(s) => Same
               /\ \A p \in Anyone :
                     /\ ClaimPresenter(p) => Same
                     /\ ReleasePresenter(p) => Same
                     /\ ReleasePresenterForParticipant(p) => Same
                     /\ \A r \in Role : UpdateParticipantRole(p, r) => Same
                     /\ ClearOtherPrimaries(here, p) => Same
                     /\ SetParticipantPrimary(here, p) => Same
                     /\ \A t : CreateAction(p, t) => Same
                     /\ \A s : ResolveAction(p, s) => Same
<1> DEFINE Same == session' = session /\ \A q \in Participant : row'[q].status = row[q].status
<1>0. ASSUME UNCHANGED <<row, session>> PROVE Same
    BY <1>0
<1>1. ASSUME NEW p \in Anyone, NEW r \in Role, UpdateParticipantRole(p, r) PROVE Same
    BY <1>1 DEF StoreTypeOK, UpdateParticipantRole
<1>2. ASSUME NEW p \in Anyone, ClearOtherPrimaries(here, p) PROVE Same
    BY <1>2 DEF StoreTypeOK, ClearOtherPrimaries
<1>3. ASSUME NEW p \in Anyone, SetParticipantPrimary(here, p) PROVE Same
    BY <1>3 DEF StoreTypeOK, SetParticipantPrimary
<1> HIDE DEF Same
<1>4. /\ UNCHANGED db => Same
      /\ \A s : UpdateRoomStatus(s) => Same
      /\ \A p \in Anyone :
            /\ ClaimPresenter(p) => Same
            /\ ReleasePresenter(p) => Same
            /\ ReleasePresenterForParticipant(p) => Same
            /\ \A t : CreateAction(p, t) => Same
            /\ \A s : ResolveAction(p, s) => Same
    BY <1>0 DEF db, UpdateRoomStatus, ClaimPresenter, ReleasePresenter,
                ReleasePresenterForParticipant, CreateAction, ResolveAction
<1> QED
    BY <1>1, <1>2, <1>3, <1>4 DEF Same

\* An UPDATE by an id that has no row here changes nothing here.
LEMMA OfElsewhere ==
    ASSUME StoreTypeOK, NEW p \in Elsewhere
    PROVE  /\ ReleasePresenterForParticipant(p) => UNCHANGED db
           /\ \A s : UpdateParticipantStatus(p, s) => UNCHANGED db
           /\ RevokeSessionsForParticipant(p) => UNCHANGED db
           /\ \A r : UpdateParticipantRole(p, r) => UNCHANGED db
           /\ \A here : SetParticipantPrimary(here, p) => UNCHANGED db
           /\ \A s : ResolveAction(p, s) => UNCHANGED db
<1>1. p \notin Participant /\ room.presenter # p
    BY DEF StoreTypeOK
<1> QED
    BY <1>1 DEF StoreTypeOK, db, ReleasePresenterForParticipant, UpdateParticipantStatus,
                RevokeSessionsForParticipant, UpdateParticipantRole, SetParticipantPrimary,
                ResolveAction

LEMMA OnlyDbStanding ==
    OnlyDb => UNCHANGED <<token, sockets, kicked, expelled>>
    BY DEF OnlyDb, history

\* The steps that change nobody's standing and that finish or move on.
Plain(w) ==
    \/ JoinCheck(w) \/ JoinCount(w) \/ LeaveRelease(w) \/ EndStatus(w) \/ SetPaused(w)
    \/ StartClaim(w) \/ StartStatus(w) \/ StopRelease(w) \/ StopStatus(w) \/ KickRelease(w)
    \/ RoleWrite(w) \/ TransferTarget(w) \/ TransferNotFound(w) \/ TransferPromote(w)
    \/ TransferFrom(w) \/ TransferDemote(w) \/ TransferClear(w) \/ TransferSet(w)
    \/ RequestAction(w) \/ Accept(w) \/ Decline(w) \/ ResolveRead(w) \/ AbandonSocket(w)
    \/ Refuse(w) \/ Fail(w)

LEMMA PlainStanding ==
    ASSUME TypeOK, NEW w \in Worker, Plain(w)
    PROVE  SameStanding
<1> USE NoStanding, OnlyDbStanding, Bears
        DEF TypeOK, SameStanding, At, Anyone, NamingPoint, KickPoint, TransferPoint
<1>1. CASE JoinCheck(w) \/ JoinCount(w) \/ ResolveRead(w) \/ AbandonSocket(w) \/ Refuse(w) \/ Fail(w)
    BY <1>1 DEF JoinCheck, JoinCount, ResolveRead, AbandonSocket, Refuse, Fail
<1>2. CASE LeaveRelease(w) \/ KickRelease(w)
    BY <1>2 DEF LeaveRelease, KickRelease
<1>3. CASE EndStatus(w) \/ SetPaused(w)
    BY <1>3 DEF EndStatus, SetPaused
<1>4. CASE StartClaim(w) \/ StartStatus(w)
    BY <1>4 DEF StartClaim, StartStatus
<1>5. CASE StopRelease(w) \/ StopStatus(w)
    BY <1>5 DEF StopRelease, StopStatus
<1>6. CASE RoleWrite(w)
    BY <1>6 DEF RoleWrite
<1>7. CASE TransferTarget(w) \/ TransferNotFound(w) \/ TransferFrom(w)
    BY <1>7 DEF TransferTarget, TransferNotFound, TransferFrom
<1>8. CASE TransferPromote(w) \/ TransferDemote(w)
    BY <1>8 DEF TransferPromote, TransferDemote, Role
<1>9. CASE TransferClear(w) \/ TransferSet(w)
    BY <1>9 DEF TransferClear, TransferSet
<1>10. CASE RequestAction(w) \/ Accept(w) \/ Decline(w)
    BY <1>10 DEF RequestAction, Accept, Decline
<1> QED
    BY <1>1, <1>2, <1>3, <1>4, <1>5, <1>6, <1>7, <1>8, <1>9, <1>10 DEF Plain

\* Where such a step leads.
LEMMA PlainMoves ==
    ASSUME NEW w \in Worker, Plain(w)
    PROVE  \/ Finish(w)
           \/ /\ req[w].at \notin {"identify", "join.session", "join.reply"}
              /\ \E point \in Point :
                    /\ Goto(w, point)
                    /\ point \notin {"join.session", "kick.revoke"}
                    /\ point \in KickPoint => req[w].at \in KickPoint
<1> USE Points DEF At, KickPoint
<1>1. CASE JoinCheck(w) \/ JoinCount(w)
    <2>1. Finish(w) \/ Goto(w, "join.count") \/ Goto(w, "join.insert")
        BY <1>1 DEF JoinCheck, JoinCount
    <2> QED
        BY <1>1, <2>1 DEF JoinCheck, JoinCount
<1>2. CASE LeaveRelease(w) \/ EndStatus(w) \/ KickRelease(w)
    BY <1>2 DEF LeaveRelease, EndStatus, KickRelease
<1>3. CASE \/ SetPaused(w) \/ StartStatus(w) \/ StopStatus(w) \/ RoleWrite(w) \/ TransferSet(w)
           \/ TransferNotFound(w) \/ RequestAction(w) \/ Decline(w) \/ AbandonSocket(w)
           \/ Refuse(w) \/ Fail(w)
    BY <1>3 DEF SetPaused, StartStatus, StopStatus, RoleWrite, TransferSet, TransferNotFound,
                RequestAction, Decline, AbandonSocket, Refuse, Fail
<1>4. CASE StartClaim(w) \/ StopRelease(w)
    BY <1>4 DEF StartClaim, StopRelease
<1>5. CASE TransferTarget(w) \/ TransferPromote(w) \/ TransferFrom(w)
    <2>1. \/ Goto(w, "xfer.promote") \/ Goto(w, "xfer.from")
          \/ Goto(w, "xfer.demote") \/ Goto(w, "xfer.clear")
        BY <1>5 DEF TransferTarget, TransferPromote, TransferFrom, AfterPromotion
    <2> QED
        BY <1>5, <2>1 DEF TransferTarget, TransferPromote, TransferFrom
<1>6. CASE TransferDemote(w) \/ TransferClear(w)
    BY <1>6 DEF TransferDemote, TransferClear
<1>7. CASE Accept(w) \/ ResolveRead(w)
    BY <1>7 DEF Accept, ResolveRead
<1> QED
    BY <1>1, <1>2, <1>3, <1>4, <1>5, <1>6, <1>7 DEF Plain

LEMMA PlainPreserves ==
    ASSUME TypeOK, ExpelledInv, NEW w \in Worker, Plain(w)
    PROVE  ExpelledInv'
    BY PlainStanding, PlainMoves, GotoPreserves, FinishPreserves

LEMMA AdmitPreserves ==
    ASSUME TypeOK, ExpelledInv, NEW w \in Worker, NEW op, NEW point \in Point,
           NEW from \in Anyone \cup {Null}, NEW to \in Anyone \cup {Null},
           NEW arg \in Role \cup ActionType \cup {Null},
           Admit(w, op, point, from, to, arg),
           point \notin {"join.session", "kick.revoke"},
           point \in KickPoint => Nameable(to)
    PROVE  ExpelledInv'
<1> DEFINE r == [req[w] EXCEPT !.at = point, !.from = from, !.to = to, !.arg = arg]
<1>1. r \in Request /\ r.at = point /\ r.by = req[w].by /\ r.to = to
    BY DEF TypeOK, ReqOK, Request
<1>2. req' = [req EXCEPT ![w] = r] /\ SameStanding
    BY OnlyDbStanding, NoStanding DEF Admit, SameStanding, TypeOK
<1>3. At(w, "identify") /\ (req[w].by \in Participant => row[req[w].by].status # "KICKED")
    BY DEF Admit, NotKicked
<1> HIDE DEF r
<1> QED
    BY <1>1, <1>2, <1>3, MovePreserves DEF SameStanding, At

LEMMA BeginPreserves ==
    ASSUME TypeOK, ExpelledInv, NEW w \in Worker, Begin(w)
    PROVE  ExpelledInv'
<1> USE AdmitPreserves, Points DEF KickPoint
<1>1. CASE \/ BeginLeave(w) \/ BeginEnd(w) \/ BeginPause(w) \/ BeginResume(w)
           \/ BeginStart(w) \/ BeginStop(w) \/ BeginSocket(w)
    BY <1>1 DEF BeginLeave, BeginEnd, BeginPause, BeginResume, BeginStart, BeginStop, BeginSocket
<1>2. ASSUME NEW target \in Anyone, BeginKick(w, target) PROVE ExpelledInv'
    BY <1>2 DEF BeginKick
<1>3. ASSUME NEW target \in Anyone, BeginTransfer(w, target) PROVE ExpelledInv'
    BY <1>3, Bears DEF BeginTransfer, May, At, TypeOK
<1>4. ASSUME NEW target \in Anyone, NEW role \in Role, BeginRole(w, target, role)
      PROVE  ExpelledInv'
    BY <1>4 DEF BeginRole
<1>5. ASSUME NEW type \in ActionType, BeginRequest(w, type) PROVE ExpelledInv'
    BY <1>5 DEF BeginRequest
<1>6. ASSUME NEW asker \in Anyone, NEW point \in {"accept", "decline"},
             BeginResolve(w, asker, point)
      PROVE  ExpelledInv'
    BY <1>6 DEF BeginResolve
<1> QED
    BY <1>1, <1>2, <1>3, <1>4, <1>5, <1>6 DEF Begin, Anyone

LEMMA AuthenticatePreserves ==
    ASSUME TypeOK, ExpelledInv, NEW w \in Worker, NEW p \in Anyone, Authenticate(w, p)
    PROVE  ExpelledInv'
<1> USE DEF TypeOK, ReqOK, ExpelledInv, Exists, Nameable
<1>1. /\ req'[w].at = "identify" /\ req'[w].by = p
      /\ \A v \in Worker \ {w} : req'[v] = req[v]
    BY DEF Authenticate, Idle
<1>2. /\ UNCHANGED <<session, row, token, sockets, kicked, expelled>>
      /\ p \in Participant => session[p] = "VALID"
    BY OnlyDbStanding DEF Authenticate, db
<1>3. SessionFirst'
    BY <1>1, <1>2 DEF SessionFirst, At
<1>4. RowFirst'
    BY <1>1, <1>2 DEF RowFirst
<1>5. OneJoinEach'
    BY <1>1, <1>2, Bears DEF OneJoinEach, At
<1>6. KickInProgress'
    BY <1>1, <1>2 DEF KickInProgress, At, KickPoint
<1>7. \A q \in expelled' : Shut(q)'
    BY <1>1, <1>2 DEF Shut, Outside, ClientsOK
<1> QED
    BY <1>2, <1>3, <1>4, <1>5, <1>6, <1>7

LEMMA JoinInsertPreserves ==
    ASSUME TypeOK, ExpelledInv, NEW w \in Worker, NEW p \in Participant, JoinInsert(w, p)
    PROVE  ExpelledInv'
<1> USE DEF TypeOK, ReqOK, ExpelledInv, Exists, Nameable
<1>1. /\ req'[w].at = "join.session" /\ req'[w].by = p
      /\ \A v \in Worker \ {w} : req'[v] = req[v]
    BY DEF JoinInsert, Request
<1>2. UNCHANGED <<session, token, sockets, kicked, expelled>> /\ ~Exists(p)
    BY OnlyDbStanding DEF JoinInsert, CreateParticipant
<1>3. row'[p].status = "CONNECTED" /\ \A q \in Participant \ {p} : row'[q] = row[q]
    BY DEF JoinInsert, CreateParticipant, NewRow, StoreTypeOK
<1>4. session[p] = "NONE" /\ p \notin token /\ sockets[p] = 0 /\ \A v \in Worker : req[v].by # p
    BY <1>2 DEF SessionFirst, RowFirst
<1>5. p \notin expelled /\ p \notin kicked
    BY <1>2, <1>4 DEF Shut, ClientsOK
<1>6. SessionFirst'
    BY <1>1, <1>2, <1>4 DEF SessionFirst, At
<1>7. RowFirst'
    BY <1>1, <1>2, <1>3 DEF RowFirst
<1>8. OneJoinEach'
    BY <1>1, <1>2, <1>4 DEF OneJoinEach, At
<1>9. KickInProgress'
    BY <1>1, <1>2, <1>3, Bears DEF KickInProgress, At, KickPoint
<1>10. \A q \in expelled' : Shut(q)'
    BY <1>1, <1>2, <1>3, <1>5 DEF Shut, Outside, ClientsOK
<1>11. \A q \in kicked' : row'[q].status \in {"KICKED", "DISCONNECTED"}
    BY <1>2, <1>3, <1>5 DEF ClientsOK
<1> QED
    BY <1>6, <1>7, <1>8, <1>9, <1>10, <1>11

LEMMA JoinSessionPreserves ==
    ASSUME TypeOK, ExpelledInv, NEW w \in Worker, JoinSession(w)
    PROVE  ExpelledInv'
<1> USE DEF TypeOK, ReqOK, ExpelledInv, Exists, Nameable
<1> DEFINE p == req[w].by
<1>0. p \in Participant
    BY Bears DEF JoinSession, At
<1>1. /\ req'[w].at = "join.reply" /\ req'[w].by = p
      /\ \A v \in Worker \ {w} : req'[v] = req[v]
    BY DEF JoinSession, Goto, Request
<1>2. /\ UNCHANGED <<row, token, sockets, kicked, expelled>>
      /\ session'[p] = "VALID" /\ \A q \in Participant \ {p} : session'[q] = session[q]
    BY <1>0, OnlyDbStanding DEF JoinSession, CreateSession, StoreTypeOK
<1>3. session[p] = "NONE" /\ Exists(p) /\ p \notin token /\ sockets[p] = 0
    BY <1>0 DEF JoinSession, OneJoinEach, SessionFirst, RowFirst
<1>4. \A v \in Worker \ {w} : req[v].by # p
    BY DEF JoinSession, OneJoinEach
<1>5. SessionFirst'
    BY <1>1, <1>2 DEF SessionFirst, At
<1>6. RowFirst'
    BY <1>1, <1>2, <1>3 DEF RowFirst
<1>7. OneJoinEach'
    BY <1>1, <1>2, <1>4, Bears DEF OneJoinEach, At
<1>8. KickInProgress'
    BY <1>1, <1>2, Bears DEF KickInProgress, At, KickPoint
<1>9. \A q \in expelled' : Shut(q)'
    BY <1>0, <1>1, <1>2, <1>3 DEF Shut, Outside, ClientsOK
<1> QED
    BY <1>2, <1>5, <1>6, <1>7, <1>8, <1>9

\* The requests after a worker finishes, and after it moves on.
LEMMA AfterFinish ==
    ASSUME TypeOK, NEW w \in Worker, Finish(w)
    PROVE  /\ req'[w].by = Null /\ req'[w].at = "idle"
           /\ \A v \in Worker \ {w} : req'[v] = req[v]
    BY DEF Finish, Idle, TypeOK, ReqOK

LEMMA AfterGoto ==
    ASSUME TypeOK, NEW w \in Worker, NEW point, Goto(w, point)
    PROVE  /\ req'[w].at = point /\ req'[w].by = req[w].by /\ req'[w].to = req[w].to
           /\ \A v \in Worker \ {w} : req'[v] = req[v]
    BY DEF Goto, Request, TypeOK, ReqOK

LEMMA JoinReplyPreserves ==
    ASSUME TypeOK, ExpelledInv, NEW w \in Worker, JoinReply(w)
    PROVE  ExpelledInv'
<1> USE DEF TypeOK, ExpelledInv, Exists, Nameable
<1>1. /\ req'[w].by = Null /\ req'[w].at = "idle"
      /\ \A v \in Worker \ {w} : req'[v] = req[v]
    BY AfterFinish DEF JoinReply
<1>2. /\ UNCHANGED <<row, session, sockets, kicked, expelled>>
      /\ token' = token \cup {req[w].by}
    BY DEF JoinReply, db, history
<1>3. req[w].by \in Participant /\ session[req[w].by] # "NONE"
    BY Bears DEF JoinReply, SessionFirst, At
<1>4. SessionFirst'
    BY <1>1, <1>2, <1>3 DEF SessionFirst, At
<1>5. RowFirst'
    BY <1>1, <1>2 DEF RowFirst
<1>6. OneJoinEach'
    BY <1>1, <1>2, Bears DEF OneJoinEach, At
<1>7. KickInProgress'
    BY <1>1, <1>2 DEF KickInProgress, At, KickPoint
<1>8. \A q \in expelled' : Shut(q)'
    BY <1>1, <1>2 DEF Shut, Outside, ClientsOK
<1> QED
    BY <1>2, <1>4, <1>5, <1>6, <1>7, <1>8

\* Somebody who leaves has, or had, a session: what keeps an expelled one out
\* is its revocation.
LEMMA LeaveStatusPreserves ==
    ASSUME TypeOK, ExpelledInv, NEW w \in Worker, LeaveStatus(w)
    PROVE  ExpelledInv'
<1> USE DEF TypeOK, ExpelledInv, Exists, Nameable
<1> DEFINE p == req[w].by
<1>1. /\ req'[w].by = Null /\ req'[w].at = "idle"
      /\ \A v \in Worker \ {w} : req'[v] = req[v]
    BY AfterFinish DEF LeaveStatus
<1>2. p \in Participant /\ req[w].at = "leave.status"
    BY Bears DEF LeaveStatus, At
<1>3. /\ UNCHANGED <<session, token, sockets, kicked, expelled>>
      /\ row'[p].status = "DISCONNECTED" /\ \A q \in Participant \ {p} : row'[q] = row[q]
    BY <1>2, OnlyDbStanding DEF LeaveStatus, UpdateParticipantStatus, StoreTypeOK
<1>4. session[p] # "NONE" /\ (p \in expelled => session[p] = "REVOKED")
    BY <1>2 DEF SessionFirst, Shut, Outside, At
<1>5. SessionFirst'
    BY <1>1, <1>3 DEF SessionFirst, At
<1>6. RowFirst'
    BY <1>1, <1>2, <1>3 DEF RowFirst
<1>7. OneJoinEach'
    BY <1>1, <1>3, Bears DEF OneJoinEach, At
<1>8. KickInProgress'
    BY <1>1, <1>2, <1>3, <1>4, Bears DEF KickInProgress, At, KickPoint
<1>9. \A q \in expelled' : Shut(q)'
    BY <1>1, <1>2, <1>3, <1>4 DEF Shut, Outside, ClientsOK
<1>10. \A q \in kicked' : row'[q].status \in {"KICKED", "DISCONNECTED"}
    BY <1>2, <1>3 DEF ClientsOK
<1> QED
    BY <1>5, <1>6, <1>7, <1>8, <1>9, <1>10

LEMMA EndRevokePreserves ==
    ASSUME TypeOK, ExpelledInv, NEW w \in Worker, EndRevoke(w)
    PROVE  ExpelledInv'
<1> USE DEF TypeOK, ExpelledInv, Exists, Nameable
<1>1. /\ req'[w].by = Null /\ req'[w].at = "idle"
      /\ \A v \in Worker \ {w} : req'[v] = req[v]
    BY AfterFinish DEF EndRevoke
<1>2. /\ UNCHANGED <<row, token, sockets, kicked>> /\ expelled' = expelled \cup token
      /\ \A q \in Participant : session'[q] = Revoked(session[q])
    BY DEF EndRevoke, RevokeSessionsForRoom
<1>3. SessionFirst'
    BY <1>1, <1>2 DEF SessionFirst, At, Revoked
<1>4. RowFirst'
    BY <1>1, <1>2 DEF RowFirst, Revoked
<1>5. OneJoinEach'
    BY <1>1, <1>2, Bears DEF OneJoinEach, At, Revoked
<1>6. KickInProgress'
    BY <1>1, <1>2, Bears DEF KickInProgress, At, KickPoint, Revoked
<1>7. \A q \in token : session'[q] = "REVOKED"
    BY <1>2 DEF SessionFirst, ClientsOK, StoreTypeOK, Revoked
<1>8. \A q \in expelled' : Shut(q)'
    BY <1>1, <1>2, <1>7 DEF Shut, Outside, ClientsOK, Revoked
<1> QED
    BY <1>2, <1>3, <1>4, <1>5, <1>6, <1>8

LEMMA KickStatusPreserves ==
    ASSUME TypeOK, ExpelledInv, NEW w \in Worker, KickStatus(w), req[w].to \in Participant
    PROVE  ExpelledInv'
<1> USE DEF TypeOK, ExpelledInv, Exists, Nameable
<1> DEFINE p == req[w].to
<1>1. /\ req'[w].at = "kick.revoke" /\ req'[w].by = req[w].by /\ req'[w].to = p
      /\ \A v \in Worker \ {w} : req'[v] = req[v]
    BY AfterGoto DEF KickStatus
<1>2. p \in Participant /\ req[w].at = "kick.status" /\ Exists(p)
    BY DEF KickStatus, At, KickInProgress, KickPoint
<1>3. /\ UNCHANGED <<session, token, sockets, kicked, expelled>>
      /\ row'[p].status = "KICKED" /\ \A q \in Participant \ {p} : row'[q] = row[q]
    BY <1>2, OnlyDbStanding DEF KickStatus, UpdateParticipantStatus, StoreTypeOK
<1>4. SessionFirst'
    BY <1>1, <1>2, <1>3 DEF SessionFirst, At
<1>5. RowFirst'
    BY <1>1, <1>2, <1>3 DEF RowFirst
<1>6. OneJoinEach'
    BY <1>1, <1>2, <1>3, Bears DEF OneJoinEach, At
<1>7. KickInProgress'
    BY <1>1, <1>2, <1>3, Bears DEF KickInProgress, At, KickPoint
<1>8. \A q \in expelled' : Shut(q)'
    BY <1>1, <1>2, <1>3 DEF Shut, Outside, ClientsOK
<1>9. \A q \in kicked' : row'[q].status \in {"KICKED", "DISCONNECTED"}
    BY <1>2, <1>3 DEF ClientsOK
<1> QED
    BY <1>4, <1>5, <1>6, <1>7, <1>8, <1>9

\* The target has a session and it is revoked, or it has none and is KICKED.
LEMMA KickRevokePreserves ==
    ASSUME TypeOK, ExpelledInv, NEW w \in Worker, KickRevoke(w), req[w].to \in Participant
    PROVE  ExpelledInv'
<1> USE DEF TypeOK, ExpelledInv, Exists, Nameable
<1>0. PICK p \in Participant : p = req[w].to
    OBVIOUS
<1>1. /\ req'[w].by = Null /\ req'[w].at = "idle"
      /\ \A v \in Worker \ {w} : req'[v] = req[v]
    BY AfterFinish DEF KickRevoke
<1>2. p = req[w].to /\ req[w].at = "kick.revoke"
    BY <1>0 DEF KickRevoke, At
<1>3. /\ UNCHANGED <<row, token, sockets>>
      /\ kicked' = kicked \cup {p} /\ expelled' = expelled \cup {p}
      /\ session'[p] = Revoked(session[p]) /\ \A q \in Participant \ {p} : session'[q] = session[q]
    BY <1>2 DEF KickRevoke, RevokeSessionsForParticipant, StoreTypeOK
<1>4. /\ row[p].status \in {"KICKED", "DISCONNECTED"}
      /\ session[p] = "NONE" => row[p].status = "KICKED" /\ Outside(p)
    BY <1>2 DEF KickInProgress, SessionFirst, Outside, At
<1>5. SessionFirst'
    BY <1>1, <1>2, <1>3 DEF SessionFirst, At, Revoked
<1>6. RowFirst'
    BY <1>1, <1>2, <1>3 DEF RowFirst, Revoked
<1>7. OneJoinEach'
    BY <1>1, <1>2, <1>3, Bears DEF OneJoinEach, At, Revoked
<1>8. KickInProgress'
    BY <1>1, <1>2, <1>3, Bears DEF KickInProgress, At, KickPoint, Revoked
<1>9. \A q \in expelled' : Shut(q)'
    <2>1. ASSUME NEW q \in expelled, q # p PROVE Shut(q)'
        BY <1>1, <1>2, <1>3, <2>1 DEF Shut, Outside, ClientsOK
    <2>2. CASE session[p] = "NONE"
        <3>1. Outside(p)'
            BY <1>1, <1>2, <1>3, <1>4, <2>2 DEF Outside
        <3> QED
            BY <1>2, <1>3, <1>4, <2>1, <2>2, <3>1 DEF Shut
    <2>3. CASE session[p] # "NONE"
        <3>1. session'[p] = "REVOKED"
            BY <1>2, <1>3, <2>3 DEF Revoked, StoreTypeOK
        <3> QED
            BY <1>2, <1>3, <2>1, <3>1 DEF Shut
    <2> QED
        BY <2>2, <2>3
<1>10. \A q \in kicked' : row'[q].status \in {"KICKED", "DISCONNECTED"}
    BY <1>2, <1>3, <1>4 DEF ClientsOK
<1> QED
    BY <1>5, <1>6, <1>7, <1>8, <1>9, <1>10

\* A kick of somebody of another room.
LEMMA KickElsewherePreserves ==
    ASSUME TypeOK, ExpelledInv, NEW w \in Worker, KickStatus(w) \/ KickRevoke(w),
           req[w].to \notin Participant
    PROVE  ExpelledInv'
<1>1. req[w].to \in Elsewhere
    BY Bears DEF KickStatus, KickRevoke, At, TypeOK, Anyone
<1>2. SameStanding
    <2>1. UNCHANGED db
        BY <1>1, OfElsewhere DEF KickStatus, KickRevoke, TypeOK
    <2>2. UNCHANGED <<token, sockets, kicked, expelled>>
        BY OnlyDbStanding DEF KickStatus, KickRevoke
    <2> QED
        BY <2>1, <2>2 DEF SameStanding, db
<1>3. CASE KickRevoke(w)
    BY <1>2, <1>3, FinishPreserves DEF KickRevoke
<1>4. CASE KickStatus(w)
    <2> DEFINE r == [req[w] EXCEPT !.at = "kick.revoke"]
    <2>1. r \in Request /\ r.at = "kick.revoke" /\ r.by = req[w].by /\ r.to = req[w].to
        BY Points DEF TypeOK, ReqOK, Request
    <2>2. req' = [req EXCEPT ![w] = r] /\ req[w].at = "kick.status"
        BY <1>4 DEF KickStatus, Goto, At
    <2> HIDE DEF r
    <2> QED
        BY <1>1, <1>2, <2>1, <2>2, MovePreserves DEF SameStanding, Nameable, At
<1> QED
    BY <1>3, <1>4

LEMMA OpenSocketPreserves ==
    ASSUME TypeOK, ExpelledInv, NEW w \in Worker, OpenSocket(w)
    PROVE  ExpelledInv'
<1> USE DEF TypeOK, ExpelledInv, Exists, Nameable
<1>0. PICK p \in Participant : p = req[w].by
    BY Bears DEF OpenSocket, At
<1>1. /\ req'[w].by = Null /\ req'[w].at = "idle"
      /\ \A v \in Worker \ {w} : req'[v] = req[v]
    BY AfterFinish DEF OpenSocket
<1>2. /\ UNCHANGED <<row, session, token, kicked, expelled>>
      /\ \A q \in Participant \ {p} : sockets'[q] = sockets[q]
    BY <1>0 DEF OpenSocket, ClientsOK, db
<1>3. session[p] # "NONE" /\ (p \in expelled => session[p] = "REVOKED")
    BY <1>0 DEF OpenSocket, SessionFirst, Shut, Outside, At
<1>4. SessionFirst'
    BY <1>1, <1>2, <1>3 DEF SessionFirst, At
<1>5. RowFirst'
    BY <1>1, <1>2 DEF RowFirst
<1>6. OneJoinEach'
    BY <1>1, <1>2, Bears DEF OneJoinEach, At
<1>7. KickInProgress'
    BY <1>1, <1>2 DEF KickInProgress, At, KickPoint
<1>8. \A q \in expelled' : Shut(q)'
    BY <1>1, <1>2, <1>3 DEF Shut, Outside, ClientsOK
<1> QED
    BY <1>2, <1>4, <1>5, <1>6, <1>7, <1>8

\* Whoever has a socket to close has a session.
LEMMA CloseSocketPreserves ==
    ASSUME TypeOK, ExpelledInv, NEW w \in Worker, NEW p \in Participant, CloseSocket(w, p)
    PROVE  ExpelledInv'
<1> USE DEF TypeOK, ExpelledInv, Exists, Nameable
<1>1. /\ req'[w].at = "leave.release" /\ req'[w].by = p
      /\ \A v \in Worker \ {w} : req'[v] = req[v]
    BY DEF CloseSocket, Idle, ReqOK
<1>2. /\ UNCHANGED <<row, session, token, kicked, expelled>>
      /\ \A q \in Participant \ {p} : sockets'[q] = sockets[q]
    BY DEF CloseSocket, ClientsOK, db, history
<1>3. session[p] # "NONE" /\ (p \in expelled => session[p] = "REVOKED")
    BY DEF CloseSocket, SessionFirst, Shut, Outside, ClientsOK
<1>4. SessionFirst'
    BY <1>1, <1>2, <1>3 DEF SessionFirst, At
<1>5. RowFirst'
    BY <1>1, <1>2, <1>3 DEF RowFirst
<1>6. OneJoinEach'
    BY <1>1, <1>2, <1>3 DEF OneJoinEach, At
<1>7. KickInProgress'
    BY <1>1, <1>2 DEF KickInProgress, At, KickPoint
<1>8. \A q \in expelled' : Shut(q)'
    BY <1>1, <1>2, <1>3 DEF Shut, Outside, ClientsOK
<1> QED
    BY <1>2, <1>4, <1>5, <1>6, <1>7, <1>8

LEMMA RestartPreserves ==
    ASSUME TypeOK, ExpelledInv, Restart
    PROVE  ExpelledInv'
<1> USE DEF TypeOK, ExpelledInv, Exists, Nameable
<1>1. /\ \A v \in Worker : req'[v].by = Null /\ req'[v].at = "idle"
      /\ \A q \in Participant : sockets'[q] = 0
      /\ UNCHANGED <<row, session, token, kicked, expelled>>
    BY DEF Restart, Idle, db, history
<1>2. SessionFirst' /\ RowFirst'
    BY <1>1 DEF SessionFirst, RowFirst
<1>3. OneJoinEach' /\ KickInProgress'
    BY <1>1 DEF OneJoinEach, KickInProgress, At, KickPoint
<1>4. \A q \in expelled' : Shut(q)'
    BY <1>1 DEF Shut, Outside, ClientsOK
<1> QED
    BY <1>1, <1>2, <1>3, <1>4

\* Steps that leave the requests and everybody's standing alone.
LEMMA SamePreserves ==
    ASSUME ExpelledInv, UNCHANGED <<req, row, session, token, sockets, kicked, expelled>>
    PROVE  ExpelledInv'
    BY DEF ExpelledInv, SessionFirst, RowFirst, OneJoinEach, KickInProgress, Shut, Outside,
           Exists, Nameable, At

LEMMA InitExpelled ==
    ASSUME Init
    PROVE  ExpelledInv
<1>1. /\ \A w \in Worker : req[w].by = Null /\ req[w].at = "idle"
      /\ expelled = {} /\ kicked = {} /\ token = {Owner}
    BY DEF Init, Idle
<1>2. /\ \A p \in Participant : sockets[p] = 0
      /\ \A p \in Participant : session[p] = "NONE" => p # Owner
      /\ \A p \in Participant : ~Exists(p) => p # Owner
      /\ \A p \in Participant \ {Owner} : session[p] = "NONE"
    BY DEF Init, StoreInit, Exists, NewRow
<1>3. SessionFirst /\ RowFirst
    BY <1>1, <1>2 DEF SessionFirst, RowFirst
<1>4. OneJoinEach /\ KickInProgress
    BY <1>1 DEF OneJoinEach, KickInProgress, At, KickPoint
<1> QED
    BY <1>1, <1>3, <1>4 DEF ExpelledInv

LEMMA NextPreserves ==
    ASSUME TypeOK, ExpelledInv, [Next]_vars
    PROVE  ExpelledInv'
<1>1. ASSUME NEW w \in Worker, Plain(w) PROVE ExpelledInv'
    BY <1>1, PlainPreserves
<1>2. ASSUME NEW w \in Worker, Begin(w) PROVE ExpelledInv'
    BY <1>2, BeginPreserves
<1>3. ASSUME NEW w \in Worker,
             \/ \E p \in Anyone : Authenticate(w, p)
             \/ \E p \in Participant : CloseSocket(w, p) \/ JoinInsert(w, p)
      PROVE  ExpelledInv'
    BY <1>3, AuthenticatePreserves, CloseSocketPreserves, JoinInsertPreserves
<1>4. ASSUME NEW w \in Worker, JoinSession(w) \/ JoinReply(w) \/ LeaveStatus(w) \/ EndRevoke(w)
      PROVE  ExpelledInv'
    BY <1>4, JoinSessionPreserves, JoinReplyPreserves, LeaveStatusPreserves, EndRevokePreserves
<1>5. ASSUME NEW w \in Worker, KickStatus(w) \/ KickRevoke(w) \/ OpenSocket(w)
      PROVE  ExpelledInv'
    BY <1>5, KickStatusPreserves, KickRevokePreserves, KickElsewherePreserves, OpenSocketPreserves
<1>6. ASSUME NEW w \in Worker, Serve(w) PROVE ExpelledInv'
    BY <1>1, <1>3, <1>4, <1>5, <1>6 DEF Serve, Plain
<1>7. CASE Tick \/ Restart
    BY <1>7, RestartPreserves, SamePreserves DEF Tick, db, history
<1>8. CASE UNCHANGED vars
    BY <1>8, SamePreserves DEF vars, db, history
<1>9. ASSUME NEW w \in Worker, JoinCheck(w) \/ Refuse(w) \/ Fail(w) PROVE ExpelledInv'
    BY <1>1, <1>9 DEF Plain
<1> QED
    BY <1>2, <1>3, <1>6, <1>7, <1>8, <1>9 DEF Next

\* ExpelledInv, which every action preserves, holds throughout: whoever was
\* expelled has no valid session, or is KICKED with no socket and at most the
\* reply to the join in flight.  The two theorems below are read off it.
THEOREM ExpelledInvariant == Spec => []ExpelledInv
<1>1. Init => ExpelledInv
    BY InitExpelled
<1>2. TypeOK /\ ExpelledInv /\ [Next]_vars => ExpelledInv'
    BY NextPreserves
<1> QED
    BY <1>1, <1>2, TypeCorrect, PTL DEF Spec

\* However requests interleave, fail or are cut short by a restart, and however
\* many there are: who was kicked, or held a token when the room was ended, is
\* never let through RequireRoomAuth again.
THEOREM Expelled == Spec => []ExpelledStayOut
<1>1. TypeOK /\ ExpelledInv => ExpelledStayOut
    BY DEF TypeOK, ClientsOK, ExpelledInv, Shut, ExpelledStayOut, CanAuthenticate, NotKicked
<1> QED
    BY <1>1, ExpelledInvariant, TypeCorrect, PTL

\* ... and the target of a completed kick is never listed as CONNECTED again.
THEOREM Unlisted == Spec => []KickedAreUnlisted
<1>1. TypeOK /\ ExpelledInv => KickedAreUnlisted
    BY DEF TypeOK, ClientsOK, ExpelledInv, KickedAreUnlisted, Connected
<1> QED
    BY <1>1, ExpelledInvariant, TypeCorrect, PTL

=============================================================================
