-------------------------- MODULE MembershipProofs --------------------------
(***************************************************************************)
(* RoomService implements Membership: under the mapping of RoomService's   *)
(* Member, every statement of every request is one step of the abstract    *)
(* room, or nothing to it.                                                 *)
(***************************************************************************)
EXTENDS PresenceProofs

USE StoreAssumption, RoomServiceAssumption

Joined == {p \in Participant : Exists(p)}
RoleOf == [p \in Participant |-> row[p].role]
Inside == {p \in Participant : IsInside(p)}

-----------------------------------------------------------------------------
(* Who gets in, and how *)

\* How a worker comes to serve somebody.
LEMMA ByStep ==
    ASSUME TypeOK, [Next]_vars, NEW w \in Worker
    PROVE  \/ req'[w] = req[w] \/ req'[w].by = Null
           \/ req'[w].by = req[w].by /\ (Begin(w) \/ Serve(w) \/ JoinCheck(w))
           \/ \E p \in Anyone :
                 req'[w].by = p /\ (JoinInsert(w, p) \/ Authenticate(w, p) \/ CloseSocket(w, p))
<1> DEFINE Goal == \/ req'[w] = req[w] \/ req'[w].by = Null
                   \/ req'[w].by = req[w].by /\ (Begin(w) \/ Serve(w) \/ JoinCheck(w))
                   \/ \E p \in Anyone :
                         /\ req'[w].by = p
                         /\ JoinInsert(w, p) \/ Authenticate(w, p) \/ CloseSocket(w, p)
<1>1. ASSUME NEW v \in Worker, Begin(v) PROVE Goal
    <2>1. req'[v].by = req[v].by
        BY <1>1, Admitted DEF Begin, BeginLeave, BeginEnd, BeginPause, BeginResume, BeginStart,
              BeginStop, BeginSocket, BeginKick, BeginTransfer, BeginRole, BeginRequest, BeginResolve
    <2> QED
        BY <1>1, <2>1, BeginWays
<1>2. ASSUME NEW v \in Worker, NEW p \in Anyone, Authenticate(v, p) \/ CloseSocket(v, p)
      PROVE  Goal
    <2>1. req'[v].by = p /\ \A u \in Worker \ {v} : req'[u] = req[u]
        BY <1>2 DEF Authenticate, CloseSocket, Idle, TypeOK, ReqOK
    <2> QED
        BY <1>2, <2>1
<1>3. ASSUME NEW v \in Worker, Refuse(v) \/ Fail(v) \/ JoinCheck(v) PROVE Goal
    <2>1. \A u \in Worker \ {v} : req'[u] = req[u]
        BY <1>3, ServeWays
    <2>2. CASE Finish(v)
        BY <2>1, <2>2, AfterFinish
    <2>3. CASE JoinCheck(v)
        <3>1. Goto(v, "join.count") \/ Goto(v, "join.insert")
            BY <2>3 DEF JoinCheck
        <3>2. req'[v].by = req[v].by
            BY <3>1, GoneTo
        <3> QED
            BY <2>1, <2>3, <3>2
    <2> QED
        BY <1>3, <2>2, <2>3 DEF Refuse, Fail
<1>4. ASSUME NEW v \in Worker, Serve(v) PROVE Goal
    <2>1. \A u \in Worker \ {v} : req'[u] = req[u]
        BY <1>4, ServeWays
    <2>2. ASSUME NEW p \in Participant, JoinInsert(v, p) PROVE req'[v].by = p
        BY <2>2 DEF JoinInsert, TypeOK, ReqOK, Request
    <2>3. CASE ~\E p \in Participant : JoinInsert(v, p)
        <3>1. Finish(v) \/ \E point : Goto(v, point)
            BY <1>4, <2>3 DEF Serve, JoinCount, JoinSession, JoinReply, LeaveRelease,
                  LeaveStatus, EndStatus, EndRevoke, SetPaused, StartClaim, StartStatus,
                  StopRelease, StopStatus, KickRelease, KickStatus, KickRevoke, RoleWrite,
                  TransferTarget, TransferNotFound, TransferPromote, TransferFrom, TransferDemote,
                  TransferClear, TransferSet, RequestAction, Accept, Decline, ResolveRead,
                  OpenSocket, AbandonSocket
        <3>2. CASE Finish(v)
            BY <2>1, <3>2, AfterFinish
        <3>3. ASSUME NEW point, Goto(v, point) PROVE Goal
            <4>1. req'[v].by = req[v].by
                BY <3>3, GoneTo
            <4> QED
                BY <1>4, <2>1, <4>1
        <3> QED
            BY <3>1, <3>2, <3>3
    <2> QED
        BY <1>4, <2>1, <2>2, <2>3 DEF Anyone
<1>5. CASE Restart
    BY <1>5 DEF Restart, Idle
<1>6. CASE Tick \/ UNCHANGED vars
    BY <1>6 DEF Tick, vars
<1> QED
    BY <1>1, <1>2, <1>3, <1>4, <1>5, <1>6 DEF Next, Anyone

\* Whoever has KICKED in its row keeps it, but for a leave of its own.
LEMMA StaysKicked ==
    ASSUME TypeOK, [Next]_vars, NEW p \in Participant, Outside(p), ~NotKicked(p)
    PROVE  ~NotKicked(p)'
<1> USE DEF NotKicked
<1>1. ASSUME NEW w \in Worker, WritesRow(w) PROVE row'[p].status = "KICKED"
    <2>1. ASSUME NEW q \in Participant, JoinInsert(w, q) PROVE row'[p].status = "KICKED"
        <3>1. p # q
            BY <2>1 DEF JoinInsert, Exists
        <3>2. row'[p] = row[p]
            BY <2>1, <3>1, OthersStay
        <3> QED
            BY <3>2
    <2>2. CASE LeaveStatus(w)
        <3>1. req[w].by # p
            BY <2>2 DEF LeaveStatus, At, Outside
        <3> QED
            BY <2>2, <3>1 DEF LeaveStatus, UpdateParticipantStatus, TypeOK, StoreTypeOK
    <2>3. CASE KickStatus(w)
        BY <2>3 DEF KickStatus, UpdateParticipantStatus, TypeOK, StoreTypeOK
    <2>4. CASE RoleWrite(w) \/ TransferPromote(w) \/ TransferDemote(w)
        <3>1. row'[p].status = row[p].status
            BY <2>4, RowWritten
        <3> QED
            BY <3>1
    <2>5. CASE TransferClear(w) \/ TransferSet(w)
        <3>1. row'[p].status = row[p].status
            BY <2>5, RowWritten
        <3> QED
            BY <3>1
    <2> QED
        BY <1>1, <2>1, <2>2, <2>3, <2>4, <2>5 DEF WritesRow
<1> QED
    BY <1>1, RowSteps

\* Who has no socket and no request past the middleware gets one of its own only
\* by a request that the middleware lets through.
LEMMA StaysOutside ==
    ASSUME TypeOK, [Next]_vars, NEW p \in Participant, ~IsInside(p)
    PROVE  Outside(p)'
<1>1. Outside(p)
    BY DEF IsInside
<1>2. sockets'[p] = 0
    <2>1. ASSUME NEW w \in Worker, OpenSocket(w) PROVE sockets'[p] = 0
        BY <1>1, <2>1 DEF OpenSocket, Outside, At, TypeOK, ClientsOK
    <2>2. ASSUME NEW w \in Worker, NEW q \in Participant, CloseSocket(w, q)
          PROVE  sockets'[p] = 0
        BY <1>1, <2>2 DEF CloseSocket, Outside, TypeOK, ClientsOK
    <2>3. CASE Restart
        BY <2>3 DEF Restart
    <2>4. CASE sockets' = sockets
        BY <1>1, <2>4 DEF Outside
    <2> QED
        BY <2>1, <2>2, <2>3, <2>4, SocketSteps
<1>3. ASSUME NEW w \in Worker, req'[w].by = p
      PROVE  req'[w].at \in {"identify", "join.session", "join.reply"}
    <2>1. CASE req'[w] = req[w]
        BY <1>1, <1>3, <2>1 DEF Outside
    <2>2. ASSUME req[w].by = p, Begin(w) PROVE FALSE
        <3>1. At(w, "identify") /\ NotKicked(p)
            BY <2>2 DEF Begin, Admit, BeginLeave, BeginEnd, BeginPause, BeginResume, BeginStart,
                  BeginStop, BeginSocket, BeginKick, BeginTransfer, BeginRole, BeginRequest,
                  BeginResolve
        <3> QED
            BY <2>2, <3>1 DEF IsInside
    <2>3. ASSUME req[w].by = p, JoinCheck(w) PROVE FALSE
        BY <1>1, <2>3 DEF JoinCheck, At, Outside
    <2>4. ASSUME req[w].by = p, Serve(w)
          PROVE  req'[w].at \in {"identify", "join.session", "join.reply"}
        <3>1. req[w].at \in {"identify", "join.session", "join.reply"}
            BY <1>1, <2>4 DEF Outside
        <3>2. JoinSession(w) \/ JoinReply(w)
            BY <2>4, <3>1 DEF At, Serve, JoinCount, JoinInsert, LeaveRelease,
                  LeaveStatus, EndStatus, EndRevoke, SetPaused, StartClaim, StartStatus,
                  StopRelease, StopStatus, KickRelease, KickStatus, KickRevoke, RoleWrite,
                  TransferTarget, TransferNotFound, TransferPromote, TransferFrom, TransferDemote,
                  TransferClear, TransferSet, RequestAction, Accept, Decline, ResolveRead,
                  OpenSocket, AbandonSocket
        <3>3. ~JoinReply(w)
            BY <1>3, AfterFinish DEF JoinReply
        <3> QED
            BY <3>2, <3>3, GoneTo DEF JoinSession
    <2>5. CASE JoinInsert(w, p) \/ Authenticate(w, p)
        <3>1. JoinInsert(w, p) => req'[w].at = "join.session"
            BY DEF JoinInsert, TypeOK, ReqOK, Request
        <3>2. Authenticate(w, p) => req'[w].at = "identify"
            BY DEF Authenticate, Idle, TypeOK, ReqOK
        <3> QED
            BY <2>5, <3>1, <3>2
    <2>6. ~CloseSocket(w, p)
        BY <1>1 DEF Outside, CloseSocket, TypeOK, ClientsOK
    <2> QED
        BY <1>3, <2>1, <2>2, <2>3, <2>4, <2>5, <2>6, ByStep
<1> QED
    BY <1>2, <1>3 DEF Outside

LEMMA EntersBy ==
    ASSUME TypeOK, ExpelledInv, [Next]_vars, NEW p \in Participant, ~IsInside(p), IsInside(p)'
    PROVE  \E w \in Worker : Authenticate(w, p) /\ p \notin expelled
<1>1. Outside(p) /\ Outside(p)'
    BY StaysOutside DEF IsInside
<1>2. NotKicked(p)' /\ \E w \in Worker : At(w, "identify")' /\ req'[w].by = p
    BY <1>1 DEF IsInside, At
<1>3. NotKicked(p)
    BY <1>1, <1>2, StaysKicked
<1>4. PICK w \in Worker : req'[w].at = "identify" /\ req'[w].by = p
    BY <1>2 DEF At
<1>5. req'[w] # req[w]
    BY <1>3, <1>4 DEF IsInside, At
<1>6. ~(req[w].by = p /\ (Begin(w) \/ Serve(w) \/ JoinCheck(w)))
    <2>1. CASE Begin(w)
        BY <1>1, <1>4, <2>1, Admitted DEF Begin, BeginLeave, BeginEnd, BeginPause, BeginResume,
              BeginStart, BeginStop, BeginSocket, BeginKick, BeginTransfer, BeginRole, BeginRequest,
              BeginResolve
    <2>2. CASE JoinCheck(w)
        BY <1>1, <2>2 DEF JoinCheck, At, Outside
    <2>3. ASSUME req[w].by = p, Serve(w) PROVE FALSE
        <3>1. req[w].at \in {"identify", "join.session", "join.reply"}
            BY <1>1, <2>3 DEF Outside
        <3>2. JoinSession(w) \/ JoinReply(w)
            BY <2>3, <3>1 DEF At, Serve, JoinCount, JoinInsert, LeaveRelease,
                  LeaveStatus, EndStatus, EndRevoke, SetPaused, StartClaim, StartStatus,
                  StopRelease, StopStatus, KickRelease, KickStatus, KickRevoke, RoleWrite,
                  TransferTarget, TransferNotFound, TransferPromote, TransferFrom, TransferDemote,
                  TransferClear, TransferSet, RequestAction, Accept, Decline, ResolveRead,
                  OpenSocket, AbandonSocket
        <3> QED
            BY <1>4, <3>2, AfterFinish, GoneTo DEF JoinSession, JoinReply
    <2> QED
        BY <2>1, <2>2, <2>3
<1>7. ~JoinInsert(w, p) /\ ~CloseSocket(w, p)
    <2>1. ~CloseSocket(w, p)
        BY <1>1 DEF Outside, CloseSocket, TypeOK, ClientsOK
    <2>2. JoinInsert(w, p) => req'[w].at = "join.session"
        BY DEF JoinInsert, TypeOK, ReqOK, Request
    <2> QED
        BY <1>4, <2>1, <2>2
<1>8. Authenticate(w, p)
    BY <1>4, <1>5, <1>6, <1>7, ByStep
<1>9. CanAuthenticate(p)
    BY <1>3, <1>8 DEF Authenticate, CanAuthenticate
<1> QED
    BY <1>8, <1>9 DEF ExpelledInv, Shut, CanAuthenticate, NotKicked

LEMMA EntersAlone ==
    ASSUME TypeOK, NEW v \in Worker, NEW w \in Worker, NEW p \in Participant,
           NEW q \in Participant, Authenticate(v, p), Authenticate(w, q)
    PROVE  p = q
<1>1. req'[w].at = "identify" /\ req'[w].by = q
    BY DEF Authenticate, Idle, TypeOK, ReqOK
<1>2. v = w
    BY <1>1 DEF Authenticate, At, TypeOK, ReqOK
<1>3. req'[v].by = p
    BY DEF Authenticate, Idle, TypeOK, ReqOK
<1> QED
    BY <1>1, <1>2, <1>3

\* Whomever of this room's a request executes a statement of an operation for is
\* being served.
LEMMA Acting ==
    ASSUME NEW w \in Worker, req[w].by \in Participant,
           req[w].at \notin JoinPoint \cup {"idle", "identify"}
    PROVE  req[w].by \in Inside
    BY DEF Inside, IsInside, Outside, JoinPoint

-----------------------------------------------------------------------------
(* Steps of the abstract room *)

LEMMA SameRows ==
    /\ UNCHANGED row => UNCHANGED <<Joined, Connected, RoleOf>>
    BY DEF Joined, Exists, Connected, RoleOf

\* The steps that hand out a token or put somebody out.
LEMMA TokenSteps ==
    ASSUME [Next]_vars, ~UNCHANGED <<token, expelled>>
    PROVE  \E w \in Worker : JoinReply(w) \/ EndRevoke(w) \/ KickRevoke(w)
<1> USE DEF OnlyDb, history
<1>1. ASSUME NEW w \in Worker, JoinCheck(w) \/ Begin(w) \/ Refuse(w) \/ Fail(w)
      PROVE  FALSE
    BY <1>1, BeginWritesNothing DEF JoinCheck, Refuse, Fail
<1>2. ASSUME NEW w \in Worker, NEW p \in Anyone,
             Authenticate(w, p) \/ JoinInsert(w, p) \/ CloseSocket(w, p)
      PROVE  FALSE
    BY <1>2 DEF Authenticate, JoinInsert, CloseSocket
<1>3. CASE Tick \/ Restart \/ UNCHANGED vars
    BY <1>3 DEF Tick, Restart, vars
<1>4. ASSUME NEW w \in Worker, Serve(w)
      PROVE  JoinReply(w) \/ EndRevoke(w) \/ KickRevoke(w)
    BY <1>2, <1>4 DEF Serve, JoinCount, JoinSession, LeaveRelease, LeaveStatus, EndStatus,
          SetPaused, StartClaim, StartStatus, StopRelease, StopStatus, KickRelease, KickStatus,
          RoleWrite, TransferTarget, TransferNotFound, TransferPromote, TransferFrom, TransferDemote,
          TransferClear, TransferSet, RequestAction, Accept, Decline, ResolveRead, OpenSocket,
          AbandonSocket, Anyone
<1> QED
    BY <1>1, <1>2, <1>3, <1>4 DEF Next, Anyone

LEMMA OthersGoStep ==
    ASSUME TypeOK, ExpelledInv, [Next]_vars,
           ~\E w \in Worker, p \in Participant : Authenticate(w, p)
    PROVE  Inside' \subseteq Inside
    BY EntersBy DEF Inside

\* A statement that writes a row writes nothing else of the room.
LEMMA OnlyRows ==
    ASSUME TypeOK, NEW w \in Worker, WritesRow(w)
    PROVE  UNCHANGED <<room, token, expelled>>
<1> USE DEF OnlyDb, history
<1>1. ASSUME NEW p \in Participant, JoinInsert(w, p) PROVE UNCHANGED <<room, token, expelled>>
    BY <1>1 DEF JoinInsert, CreateParticipant
<1>2. CASE LeaveStatus(w) \/ KickStatus(w)
    BY <1>2 DEF LeaveStatus, KickStatus, UpdateParticipantStatus
<1>3. CASE RoleWrite(w) \/ TransferPromote(w) \/ TransferDemote(w)
    BY <1>3 DEF RoleWrite, TransferPromote, TransferDemote, UpdateParticipantRole, db
<1>4. CASE TransferClear(w) \/ TransferSet(w)
    BY <1>4 DEF TransferClear, TransferSet, ClearOtherPrimaries, SetParticipantPrimary
<1> QED
    BY <1>1, <1>2, <1>3, <1>4 DEF WritesRow

LEMMA JoinStep ==
    ASSUME TypeOK, NEW w \in Worker, NEW p \in Participant, JoinInsert(w, p),
           Inside' \subseteq Inside
    PROVE  Member!Join(p)
<1>1. UNCHANGED <<room, token, expelled>>
    BY OnlyRows DEF WritesRow
<1>2. p \notin Joined /\ Joined' = Joined \cup {p} /\ Connected' = Connected \cup {p}
    BY DEF JoinInsert, CreateParticipant, NewRow, Exists, Joined, Connected, TypeOK, StoreTypeOK
<1>3. RoleOf' = [RoleOf EXCEPT ![p] = DefaultRoleForNewParticipant]
    BY DEF JoinInsert, CreateParticipant, NewRow, RoleOf, TypeOK, StoreTypeOK
<1>4. Member!Rows!Join(p)
    BY <1>2, <1>3 DEF Member!Rows!Join, Joined, RoleOf
<1>5. Member!OthersGo
    BY DEF Member!OthersGo, Inside
<1> QED
    BY <1>1, <1>4, <1>5 DEF Member!Join

\* A participant's row is marked; that is a departure if it was listed.  A kick of
\* somebody of another room marks none here.
LEMMA MarkStep ==
    ASSUME TypeOK, NEW w \in Worker, LeaveStatus(w) \/ KickStatus(w),
           Inside' \subseteq Inside, ExpelledInv
    PROVE  Member!Exit \/ \E p \in Participant : Member!Leave(p)
<1>0. UNCHANGED <<room, token, expelled>> /\ Member!OthersGo
    BY OnlyRows DEF WritesRow, Member!OthersGo, Inside
<1>1. CASE row' = row
    BY <1>0, <1>1, SameRows DEF Member!Exit, Joined, RoleOf
<1>2. ASSUME row' # row
      PROVE  \E p \in Participant, s \in {"DISCONNECTED", "KICKED"} :
                Exists(p) /\ row' = [row EXCEPT ![p].status = s]
    <2>1. CASE LeaveStatus(w)
        <3>1. req[w].by \in Participant
            BY <2>1, Bears DEF LeaveStatus, At, TypeOK
        <3> QED
            BY <2>1, <3>1 DEF LeaveStatus, UpdateParticipantStatus, ExpelledInv, RowFirst
    <2>2. CASE KickStatus(w)
        <3>1. req[w].to \in Participant
            BY <1>2, <2>2, Bears, OfElsewhere DEF KickStatus, At, TypeOK, Anyone, db
        <3>2. Exists(req[w].to)
            BY <2>2, <3>1 DEF KickStatus, At, ExpelledInv, KickInProgress, Nameable, KickPoint
        <3> QED
            BY <2>2, <3>1, <3>2 DEF KickStatus, UpdateParticipantStatus
    <2> QED
        BY <2>1, <2>2
<1>3. ASSUME NEW p \in Participant, NEW s \in {"DISCONNECTED", "KICKED"}, Exists(p),
             row' = [row EXCEPT ![p].status = s]
      PROVE  Member!Exit \/ Member!Leave(p)
    <2>1. \A q \in Participant : row'[q].role = row[q].role
        BY <1>3 DEF TypeOK, StoreTypeOK
    <2>2. \A q \in Participant \ {p} : row'[q].status = row[q].status
        BY <1>3 DEF TypeOK, StoreTypeOK
    <2>3. row'[p].status = s
        BY <1>3 DEF TypeOK, StoreTypeOK
    <2>4. UNCHANGED RoleOf
        BY <2>1 DEF RoleOf
    <2>5. UNCHANGED Joined /\ Connected' = Connected \ {p}
        BY <1>3, <2>2, <2>3 DEF Joined, Exists, Connected
    <2>6. CASE p \in Connected
        <3>1. Member!Rows!Leave(p)
            BY <2>4, <2>5, <2>6 DEF Member!Rows!Leave, Joined, RoleOf
        <3> QED
            BY <1>0, <3>1 DEF Member!Leave
    <2>7. CASE p \notin Connected
        BY <1>0, <2>4, <2>5, <2>7 DEF Member!Exit, Joined, RoleOf
    <2> QED
        BY <2>6, <2>7
<1> QED
    BY <1>1, <1>2, <1>3

LEMMA RoleStep ==
    ASSUME TypeOK, NEW w \in Worker, RoleWrite(w) \/ TransferPromote(w) \/ TransferDemote(w),
           Referenced, Inside' \subseteq Inside
    PROVE  Member!Exit \/ \E p \in Participant, r \in Role : Member!SetRole(p, r)
<1>1. \/ row' = row
      \/ \E p \in Participant, r \in Role : Exists(p) /\ row' = [row EXCEPT ![p].role = r]
    <2> USE DEF At, TypeOK, Referenced, Names, TransferPoint
    <2>0. ASSUME NEW p \in Anyone, NEW r \in Role, UpdateParticipantRole(p, r),
                 p \in Participant => Exists(p)
          PROVE  \/ row' = row
                 \/ Exists(p) /\ p \in Participant /\ row' = [row EXCEPT ![p].role = r]
        BY <2>0, OfElsewhere DEF Anyone, UpdateParticipantRole, db
    <2>1. CASE RoleWrite(w)
        <3>1. req[w].to \in Anyone /\ req[w].arg \in Role
            BY <2>1, Bears DEF RoleWrite
        <3>2. req[w].to \in Participant => Exists(req[w].to)
            BY <2>1 DEF RoleWrite
        <3>3. UpdateParticipantRole(req[w].to, req[w].arg)
            BY <2>1 DEF RoleWrite
        <3> QED
            BY <2>0, <3>1, <3>2, <3>3
    <2>2. CASE TransferPromote(w)
        <3>1. req[w].to \in Anyone /\ "PRESENTER" \in Role
            BY <2>2, Bears DEF TransferPromote, Role
        <3>2. req[w].to \in Participant => Exists(req[w].to)
            BY <2>2 DEF TransferPromote
        <3>3. UpdateParticipantRole(req[w].to, "PRESENTER")
            BY <2>2 DEF TransferPromote
        <3> QED
            BY <2>0, <3>1, <3>2, <3>3
    <2>3. CASE TransferDemote(w)
        <3>1. req[w].from \in Anyone /\ "PARTICIPANT" \in Role
            BY <2>3, Bears DEF TransferDemote, Role
        <3>2. req[w].from \in Participant => Exists(req[w].from)
            BY <2>3 DEF TransferDemote
        <3>3. row' = row \/ UpdateParticipantRole(req[w].from, "PARTICIPANT")
            BY <2>3 DEF TransferDemote, db
        <3> QED
            BY <2>0, <3>1, <3>2, <3>3
    <2> QED
        BY <2>1, <2>2, <2>3
<1>2. UNCHANGED <<room, token, expelled>>
    BY OnlyRows DEF WritesRow
<1>3. Member!OthersGo
    BY DEF Member!OthersGo, Inside
<1>4. CASE row' = row
    BY <1>2, <1>3, <1>4, SameRows DEF Member!Exit, Joined, RoleOf
<1>5. ASSUME NEW p \in Participant, NEW r \in Role, Exists(p), row' = [row EXCEPT ![p].role = r]
      PROVE  Member!SetRole(p, r)
    <2>1. UNCHANGED <<Joined, Connected>> /\ p \in Joined
        <3>1. \A q \in Participant : row'[q].status = row[q].status
            BY <1>5 DEF TypeOK, StoreTypeOK
        <3> QED
            BY <1>5, <3>1 DEF Joined, Exists, Connected
    <2>2. RoleOf' = [RoleOf EXCEPT ![p] = r]
        <3>1. \A q \in Participant : row'[q].role = IF q = p THEN r ELSE row[q].role
            BY <1>5 DEF TypeOK, StoreTypeOK
        <3> HIDE <1>5
        <3> QED
            BY <3>1 DEF RoleOf
    <2>3. Member!Rows!SetRole(p, r)
        BY <2>1, <2>2 DEF Member!Rows!SetRole, Joined, RoleOf
    <2> QED
        BY <1>2, <1>3, <2>3 DEF Member!SetRole
<1> QED
    BY <1>1, <1>4, <1>5

LEMMA FlagsStep ==
    ASSUME TypeOK, NEW w \in Worker, TransferClear(w) \/ TransferSet(w),
           Inside' \subseteq Inside
    PROVE  Member!Exit
<1>1. \A q \in Participant : row'[q].status = row[q].status /\ row'[q].role = row[q].role
    <2>1. CASE TransferClear(w)
        BY <2>1, RowWritten
    <2>2. CASE TransferSet(w)
        BY <2>2, RowWritten
    <2> QED
        BY <2>1, <2>2
<1>2. UNCHANGED <<Joined, Connected, RoleOf>>
    BY <1>1 DEF Joined, Exists, Connected, RoleOf
<1>3. UNCHANGED <<room, token, expelled>>
    BY OnlyRows DEF WritesRow
<1> QED
    BY <1>2, <1>3 DEF Member!Exit, Member!OthersGo, Inside, Joined, RoleOf

\* The end of a join, of a kick and of the room.
LEMMA TokenStep ==
    ASSUME TypeOK, ExpelledInv, NEW w \in Worker, JoinReply(w) \/ EndRevoke(w) \/ KickRevoke(w),
           Inside' \subseteq Inside
    PROVE  Member!Exit \/ Member!Close \/ \E p \in Participant : Member!Answer(p) \/ Member!Expel(p)
<1>1. UNCHANGED <<Joined, Connected, RoleOf>> /\ UNCHANGED room
    BY SameRows DEF JoinReply, EndRevoke, KickRevoke, RevokeSessionsForRoom,
       RevokeSessionsForParticipant, db
<1>2. Member!OthersGo
    BY DEF Member!OthersGo, Inside
<1>3. EndRevoke(w) => Inside # {}
    BY Acting, Bears DEF EndRevoke, At, JoinPoint, TypeOK
<1>4. CASE JoinReply(w)
    <2>1. PICK p \in Participant : p = req[w].by
        BY <1>4, Bears DEF JoinReply, At, TypeOK
    <2>2. p \in Joined
        BY <2>1 DEF ExpelledInv, RowFirst, Joined
    <2>3. token' = token \cup {p} /\ expelled' = expelled
        BY <1>4, <2>1 DEF JoinReply, history
    <2> QED
        BY <1>1, <1>2, <2>2, <2>3 DEF Member!Answer, Joined, RoleOf
<1>5. CASE EndRevoke(w)
    <2>1. expelled' = expelled \cup token /\ token' = token
        BY <1>5 DEF EndRevoke
    <2> QED
        BY <1>1, <1>2, <1>3, <1>5, <2>1 DEF Member!Close, Joined, RoleOf, Inside
<1>6. CASE KickRevoke(w) /\ req[w].to \in Participant
    <2>1. PICK p \in Participant : p = req[w].to
        BY <1>6
    <2>2. row[p].status \in {"KICKED", "DISCONNECTED"}
        BY <1>6, <2>1 DEF KickRevoke, ExpelledInv, KickInProgress
    <2>3. p \in Joined \ Connected
        BY <2>2 DEF Joined, Exists, Connected
    <2>4. expelled' = expelled \cup {p} /\ token' = token
        BY <1>6, <2>1 DEF KickRevoke
    <2> QED
        BY <1>1, <1>2, <1>6, <2>3, <2>4 DEF Member!Expel, Joined, RoleOf
<1>7. CASE KickRevoke(w) /\ req[w].to \notin Participant
    <2>1. expelled' = expelled /\ token' = token
        BY <1>7 DEF KickRevoke
    <2> QED
        BY <1>1, <1>2, <2>1 DEF Member!Exit, Joined, RoleOf
<1> QED
    BY <1>4, <1>5, <1>6, <1>7

\* The stage is claimed or released.
LEMMA SlotStep ==
    ASSUME TypeOK, NEW w \in Worker, TouchesSlot(w), Inside' \subseteq Inside,
           room'.presenter # room.presenter
    PROVE  Member!Release \/ \E p \in Participant : Member!Claim(p)
<1> USE DEF TypeOK, StoreTypeOK, At
<1>1. UNCHANGED <<row, token, expelled>>
    BY StatementsKeepRows DEF TouchesSlot, LeaveRelease, StopRelease, KickRelease, StartClaim,
       OnlyDb, history
<1>2. UNCHANGED <<Joined, Connected, RoleOf>>
    BY <1>1, SameRows
<1>3. Member!OthersGo
    BY DEF Member!OthersGo, Inside
<1>5. CASE LeaveRelease(w) \/ StopRelease(w) \/ KickRelease(w)
    <2>1. room'.presenter = Null
        BY <1>5 DEF LeaveRelease, StopRelease, KickRelease, ReleasePresenter,
           ReleasePresenterForParticipant
    <2> QED
        BY <1>1, <1>2, <1>3, <2>1 DEF Member!Release, Joined, RoleOf
<1>6. CASE StartClaim(w)
    <2>1. PICK p \in Inside : p = req[w].by
        BY <1>6, Acting, Bears DEF StartClaim, JoinPoint
    <2>2. ClaimPresenter(p)
        BY <1>6, <2>1 DEF StartClaim, db
    <2>3. room.presenter \in {Null, p} /\ room'.presenter = p
        BY <2>2 DEF ClaimPresenter, PresenterFreeFor
    <2>4. p \in Participant
        BY DEF Inside
    <2> QED
        BY <1>1, <1>2, <1>3, <2>3, <2>4 DEF Member!Claim, Joined, RoleOf, Inside
<1> QED
    BY <1>5, <1>6 DEF TouchesSlot

\* The middleware has found the session valid.
LEMMA EnterStep ==
    ASSUME TypeOK, ExpelledInv, [Next]_vars,
           NEW w \in Worker, NEW p \in Participant, Authenticate(w, p)
    PROVE  Member!Exit \/ Member!Enter(p)
<1>1. UNCHANGED <<room, row, token, expelled>>
    BY DEF Authenticate, db, OnlyDb, history
<1>2. UNCHANGED <<Joined, Connected, RoleOf>>
    BY <1>1, SameRows
<1>3. ASSUME NEW q \in Inside' \ Inside PROVE q = p /\ p \notin expelled
    <2>1. q \in Participant /\ ~IsInside(q) /\ IsInside(q)'
        BY <1>3 DEF Inside
    <2>2. PICK v \in Worker : Authenticate(v, q) /\ q \notin expelled
        BY <2>1, EntersBy
    <2> QED
        BY <2>1, <2>2, EntersAlone
<1>4. CASE Inside' \subseteq Inside
    BY <1>1, <1>2, <1>4 DEF Member!Exit, Member!OthersGo, Inside, Joined, RoleOf
<1>5. CASE ~(Inside' \subseteq Inside)
    <2>1. p \in Inside' /\ p \notin expelled
        BY <1>3, <1>5
    <2>2. Inside' = Inside \cup {p}
        <3>1. ASSUME NEW q \in Inside PROVE q \in Inside'
            <4>1. q \in Participant /\ IsInside(q)
                BY <3>1 DEF Inside
            <4>2. sockets' = sockets /\ row' = row
                BY <1>1 DEF Authenticate, OnlyDb
            <4>3. ASSUME NEW v \in Worker, req[v].by = q PROVE req'[v] = req[v]
                BY <4>1, <4>3 DEF Authenticate, At, TypeOK, ReqOK, Carries
            <4>4. ~Outside(q) => ~Outside(q)'
                BY <4>2, <4>3 DEF Outside
            <4>5. IsInside(q)'
                BY <4>1, <4>2, <4>3, <4>4 DEF IsInside, NotKicked, At
            <4> QED
                BY <4>1, <4>5 DEF Inside
        <3> QED
            BY <1>3, <2>1, <3>1
    <2>3. p \in token /\ p \in Joined
        BY DEF Authenticate, ExpelledInv, RowFirst, Joined
    <2> QED
        BY <1>1, <1>2, <2>1, <2>2, <2>3 DEF Member!Enter, Inside, Joined, RoleOf
<1> QED
    BY <1>4, <1>5

-----------------------------------------------------------------------------
(* The refinement *)

\* A step that changes neither the rows, the tokens, the list of the expelled nor
\* the stage can only let somebody go.
LEMMA ExitStep ==
    ASSUME UNCHANGED <<row, token, expelled>>, room'.presenter = room.presenter,
           Inside' \subseteq Inside
    PROVE  Member!Exit
    BY SameRows DEF Member!Exit, Member!OthersGo, Inside, Joined, RoleOf

LEMMA MembershipStep ==
    ASSUME TypeOK, ExpelledInv, Referenced, [Next]_vars
    PROVE  Member!Next
<1>1. ASSUME NEW w \in Worker, NEW p \in Participant, Authenticate(w, p)
      PROVE  Member!Next
    BY <1>1, EnterStep DEF Member!Next
<1>2. CASE ~\E w \in Worker, p \in Participant : Authenticate(w, p)
    <2>1. Inside' \subseteq Inside
        BY <1>2, OthersGoStep
    <2>2. ASSUME NEW w \in Worker, WritesRow(w) PROVE Member!Next
        <3>1. ASSUME NEW p \in Participant, JoinInsert(w, p) PROVE Member!Next
            BY <2>1, <3>1, JoinStep DEF Member!Next
        <3>2. CASE LeaveStatus(w) \/ KickStatus(w)
            BY <2>1, <3>2, MarkStep DEF Member!Next
        <3>3. CASE RoleWrite(w) \/ TransferPromote(w) \/ TransferDemote(w)
            BY <2>1, <3>3, RoleStep DEF Member!Next
        <3>4. CASE TransferClear(w) \/ TransferSet(w)
            BY <2>1, <3>4, FlagsStep DEF Member!Next
        <3> QED
            BY <2>2, <3>1, <3>2, <3>3, <3>4 DEF WritesRow
    <2>3. ASSUME NEW w \in Worker, JoinReply(w) \/ EndRevoke(w) \/ KickRevoke(w)
          PROVE  Member!Next
        BY <2>1, <2>3, TokenStep DEF Member!Next
    <2>4. ASSUME NEW w \in Worker, TouchesSlot(w), room'.presenter # room.presenter
          PROVE  Member!Next
        BY <2>1, <2>4, SlotStep DEF Member!Next
    <2>5. CASE UNCHANGED <<row, token, expelled>> /\ room'.presenter = room.presenter
        BY <2>1, <2>5, ExitStep DEF Member!Next
    <2> QED
        BY <2>2, <2>3, <2>4, <2>5, RowSteps, TokenSteps, SlotSteps
<1> QED
    BY <1>1, <1>2

LEMMA MembershipInit == Init => Member!Init
<1> SUFFICES ASSUME Init PROVE Member!Init
    OBVIOUS
<1> USE DEF Init, StoreInit
<1>1. Joined = {Owner} /\ Connected = {Owner}
    BY DEF Joined, Exists, Connected, NewRow
<1>2. \A p \in Participant :
         row[p].role = IF p = Owner THEN "OWNER" ELSE DefaultRoleForNewParticipant
    BY DEF NewRow
<1>3. RoleOf = [p \in Participant |->
                  IF p = Owner THEN "OWNER" ELSE DefaultRoleForNewParticipant]
    BY <1>2 DEF RoleOf
<1>4. Inside = {}
    BY DEF Inside, IsInside, Outside, At, Idle
<1>5. token = {Owner} /\ expelled = {} /\ room.presenter = Null
    OBVIOUS
<1> QED
    BY <1>1, <1>3, <1>4, <1>5 DEF Member!Init, Joined, RoleOf, Inside

\* Whatever the statements of concurrent requests do, lose or leave half done,
\* RoomService makes the promises of module Membership: the rows, the tokens, the
\* sockets and the stage of one room change only as its actions allow.
THEOREM ServiceImplementsMembership == Spec => ImplementsMembership
<1>1. Init => Member!Init
    BY MembershipInit
<1>2. TypeOK /\ ExpelledInv /\ Referenced /\ [Next]_vars => [Member!Next]_(Member!vars)
    BY MembershipStep
<1>3. Spec => []Referenced
    BY ReferencesHold, PTL
<1> QED
    BY <1>1, <1>2, <1>3, TypeCorrect, ExpelledInvariant, PTL DEF Spec, ImplementsMembership, Member!Spec

\* Who has been put out, by a kick or with the room, and has no socket and no
\* request under way, is never served again and never gets the stage.
THEOREM OutIsForGood == Spec => OutForGood
<1>1. ASSUME TypeOK, Member!Next, NEW p \in expelled \ Inside
      PROVE  Member!StaysOut(p)
    <2> USE DEF Inside, Member!StaysOut, Member!OthersGo
    <2>1. p \in Participant /\ p # Null
        BY <1>1, StoreAssumption DEF TypeOK, ClientsOK
    <2>2. CASE Member!OthersGo /\ room'.presenter \in {room.presenter, Null}
        BY <1>1, <2>1, <2>2
    <2>3. CASE Member!Exit \/ Member!Close \/ Member!Release
        BY <2>2, <2>3 DEF Member!Exit, Member!Close, Member!Release
    <2>4. ASSUME NEW q \in Participant, Member!Enter(q)
          PROVE  Member!StaysOut(p)
        BY <1>1, <2>4 DEF Member!Enter
    <2>5. ASSUME NEW q \in Participant, Member!Claim(q)
          PROVE  Member!StaysOut(p)
        BY <1>1, <2>5 DEF Member!Claim
    <2>6. ASSUME NEW q \in Participant,
                 \/ Member!Join(q) \/ Member!Answer(q) \/ Member!Leave(q) \/ Member!Expel(q)
                 \/ \E r \in Role : Member!SetRole(q, r)
          PROVE  Member!StaysOut(p)
        BY <2>2, <2>6
           DEF Member!Join, Member!Answer, Member!Leave, Member!Expel, Member!SetRole
    <2> QED
        BY <1>1, <2>3, <2>4, <2>5, <2>6 DEF Member!Next
<1>2. TypeOK /\ ExpelledInv /\ Referenced /\ [Next]_vars
         => \A p \in expelled \ Inside : Member!StaysOut(p)
    BY <1>1, MembershipStep
<1>3. TypeOK /\ ExpelledInv /\ Referenced /\ [Next]_vars
         => [\A p \in expelled \ {p \in Participant : IsInside(p)} : Member!StaysOut(p)]_(Member!vars)
    BY <1>2 DEF Inside
<1>4. Spec => []Referenced
    BY ReferencesHold, PTL
<1> QED
    BY <1>3, <1>4, TypeCorrect, ExpelledInvariant, PTL DEF Spec, OutForGood, Member!OutForGood

=============================================================================
