---------------------------- MODULE StageProofs ----------------------------
(***************************************************************************)
(* Theorems about the room's own row in RoomService: who holds the         *)
(* presenter slot and when the room is over, and about its capacity.       *)
(***************************************************************************)
EXTENDS RoomServiceProofs, FiniteSetTheorems

USE StoreAssumption, RoomServiceAssumption

-----------------------------------------------------------------------------
(* The presenter slot *)

\* The statements that neither claim nor release it.
LEMMA StatementsKeepHolder ==
    ASSUME StoreTypeOK
    PROVE  LET Same == room'.presenter = room.presenter
           IN  /\ UNCHANGED db => Same
               /\ \A s : UpdateRoomStatus(s) => Same
               /\ \A p :
                     /\ CreateParticipant(p) => Same
                     /\ \A r : UpdateParticipantRole(p, r) => Same
                     /\ \A s : UpdateParticipantStatus(p, s) => Same
                     /\ \A here : ClearOtherPrimaries(here, p) => Same
                     /\ \A here : SetParticipantPrimary(here, p) => Same
                     /\ CreateSession(p) => Same
                     /\ RevokeSessionsForParticipant(p) => Same
                     /\ \A t : CreateAction(p, t) => Same
                     /\ \A s : ResolveAction(p, s) => Same
               /\ RevokeSessionsForRoom => Same
    BY DEF StoreTypeOK, db, UpdateRoomStatus, CreateParticipant, UpdateParticipantRole,
           UpdateParticipantStatus, ClearOtherPrimaries, SetParticipantPrimary, CreateSession,
           RevokeSessionsForParticipant, CreateAction, ResolveAction, RevokeSessionsForRoom

\* The three steps that release and the one that claims.
TouchesSlot(w) == LeaveRelease(w) \/ StopRelease(w) \/ KickRelease(w) \/ StartClaim(w)

LEMMA OthersKeepHolder ==
    ASSUME TypeOK, NEW w \in Worker, Serve(w), ~TouchesSlot(w)
    PROVE  room'.presenter = room.presenter
<1> USE StatementsKeepHolder DEF TypeOK
<1>1. CASE \/ JoinCount(w) \/ (\E p \in Participant : JoinInsert(w, p))
           \/ JoinSession(w) \/ JoinReply(w)
    BY <1>1 DEF JoinCount, JoinInsert, JoinSession, JoinReply
<1>2. CASE \/ LeaveStatus(w) \/ EndStatus(w) \/ EndRevoke(w) \/ SetPaused(w)
           \/ StartStatus(w) \/ StopStatus(w) \/ KickStatus(w) \/ KickRevoke(w)
    BY <1>2 DEF LeaveStatus, EndStatus, EndRevoke, SetPaused, StartStatus, StopStatus,
                KickStatus, KickRevoke
<1>3. CASE \/ RoleWrite(w) \/ TransferTarget(w) \/ TransferNotFound(w) \/ TransferPromote(w)
           \/ TransferFrom(w) \/ TransferDemote(w) \/ TransferClear(w) \/ TransferSet(w)
    BY <1>3 DEF RoleWrite, TransferTarget, TransferNotFound, TransferPromote, TransferFrom, TransferDemote,
                TransferClear, TransferSet
<1>4. CASE \/ RequestAction(w) \/ Accept(w) \/ Decline(w) \/ ResolveRead(w)
           \/ OpenSocket(w) \/ AbandonSocket(w)
    BY <1>4 DEF RequestAction, Accept, Decline, ResolveRead, OpenSocket, AbandonSocket
<1> QED
    BY <1>1, <1>2, <1>3, <1>4 DEF Serve, TouchesSlot

\* Before a request reaches its first statement it has written nothing.
LEMMA BeginWritesNothing ==
    ASSUME NEW w \in Worker, Begin(w)
    PROVE  UNCHANGED db /\ OnlyDb
    BY DEF Begin, Admit, BeginLeave, BeginEnd, BeginPause, BeginResume, BeginStart, BeginStop,
           BeginSocket, BeginKick, BeginTransfer, BeginRole, BeginRequest, BeginResolve

\* Of all steps of the system, those alone.
LEMMA SlotSteps ==
    ASSUME TypeOK, [Next]_vars, room'.presenter # room.presenter
    PROVE  \E w \in Worker : TouchesSlot(w)
<1> USE StatementsKeepHolder DEF TypeOK
<1>1. ASSUME NEW w \in Worker, JoinCheck(w) \/ Begin(w) \/ Refuse(w) \/ Fail(w)
      PROVE  FALSE
    BY <1>1, BeginWritesNothing DEF JoinCheck, Refuse, Fail
<1>2. ASSUME NEW w \in Worker, NEW p \in Anyone, Authenticate(w, p) \/ CloseSocket(w, p)
      PROVE  FALSE
    BY <1>2 DEF Authenticate, CloseSocket
<1>3. CASE Tick \/ Restart \/ UNCHANGED vars
    BY <1>3 DEF Tick, Restart, vars
<1>4. ASSUME NEW w \in Worker, Serve(w)
      PROVE  TouchesSlot(w)
    BY <1>4, OthersKeepHolder
<1>5. CASE Next
    BY <1>1, <1>2, <1>3, <1>4, <1>5 DEF Next, Anyone
<1> QED
    BY <1>3, <1>5

LEMMA SlotLost ==
    ASSUME TypeOK, NEW w \in Worker, TouchesSlot(w),
           NEW p \in Participant, room.presenter = p, room'.presenter # p
    PROVE  /\ room'.presenter = Null
           /\ \/ req[w].at \in {"stop.release", "leave.release"} /\ req[w].by = p
              \/ req[w].at = "kick.release" /\ req[w].to = p
<1> USE DEF TypeOK, StoreTypeOK, At
<1>1. CASE LeaveRelease(w)
    BY <1>1 DEF LeaveRelease, ReleasePresenterForParticipant
<1>2. CASE StopRelease(w)
    BY <1>2 DEF StopRelease, ReleasePresenter
<1>3. CASE KickRelease(w)
    BY <1>3 DEF KickRelease, ReleasePresenterForParticipant
<1>4. CASE StartClaim(w)
    BY <1>4 DEF StartClaim, ClaimPresenter, PresenterFreeFor, db
<1> QED
    BY <1>1, <1>2, <1>3, <1>4 DEF TouchesSlot

\* Whatever the requests in flight, only its holder's own stop, departure or
\* close, or a kick of its holder, takes the presenter slot away from it, and
\* then the slot is free: two people never present in turn without a release.
THEOREM StageIsKept == Spec => StageKept
<1> DEFINE Kept(p) ==
      room.presenter = p /\ room'.presenter # p =>
         /\ room'.presenter = Null
         /\ \E w \in Worker :
               \/ req[w].at \in {"stop.release", "leave.release"} /\ req[w].by = p
               \/ req[w].at = "kick.release" /\ req[w].to = p
<1>1. TypeOK /\ [Next]_vars => [\A p \in Participant : Kept(p)]_vars
    BY SlotSteps, SlotLost
<1> QED
    BY <1>1, TypeCorrect, PTL DEF Spec, StageKept

-----------------------------------------------------------------------------
(* The end of the room *)

\* What the request of a caller of another room may do here.
LEMMA StrangersKeepOver ==
    ASSUME TypeOK, NEW w \in Worker, req[w].by \in Elsewhere,
           Serve(w) \/ Begin(w) \/ Refuse(w) \/ Fail(w)
    PROVE  /\ room'.status = room.status /\ token' = token
           /\ \A p \in Participant : session'[p] \in {session[p], "REVOKED"}
           /\ req'[w].by \in Elsewhere \/ req'[w].at = "idle"
           /\ \A v \in Worker \ {w} : req'[v] = req[v]
<1> USE DEF TypeOK, At
<1>0. /\ req[w].by \notin Participant /\ req[w].by # Null
      /\ req[w].at \in NamingPoint \cup {"identify"}
    BY DEF ReqOK, Carries
<1>1. CASE Refuse(w) \/ Fail(w) \/ TransferNotFound(w)
    BY <1>1, AfterFinish DEF Refuse, Fail, TransferNotFound, OnlyDb, db
<1>2. CASE Begin(w)
    <2>1. UNCHANGED <<db, token>>
        BY <1>2, BeginWritesNothing DEF OnlyDb
    <2>2. ASSUME NEW op, NEW point, NEW from, NEW to, NEW arg, Admit(w, op, point, from, to, arg)
          PROVE  req'[w].by = req[w].by /\ \A v \in Worker \ {w} : req'[v] = req[v]
        BY <2>2 DEF Admit, ReqOK, Request
    <2>3. req'[w].by = req[w].by /\ \A v \in Worker \ {w} : req'[v] = req[v]
        BY <1>2, <2>2 DEF Begin, BeginLeave, BeginEnd, BeginPause, BeginResume, BeginStart,
              BeginStop, BeginSocket, BeginKick, BeginTransfer, BeginRole, BeginRequest, BeginResolve
    <2> QED
        BY <2>1, <2>3 DEF db
<1>3. CASE KickRelease(w) \/ KickStatus(w) \/ KickRevoke(w)
    <2>1. /\ \A v \in Worker \ {w} : req'[v] = req[v]
          /\ req'[w].by = req[w].by \/ req'[w].at = "idle"
        BY <1>3, AfterGoto, AfterFinish DEF KickRelease, KickStatus, KickRevoke
    <2>2. /\ room'.status = room.status /\ token' = token
          /\ \A p \in Participant : session'[p] \in {session[p], "REVOKED"}
        BY <1>3 DEF KickRelease, KickStatus, KickRevoke, ReleasePresenterForParticipant,
              UpdateParticipantStatus, RevokeSessionsForParticipant, Revoked, StoreTypeOK, OnlyDb
    <2> QED
        BY <2>1, <2>2
<1>4. CASE \/ RoleWrite(w) \/ TransferTarget(w) \/ TransferPromote(w) \/ TransferFrom(w)
           \/ TransferDemote(w) \/ TransferClear(w) \/ TransferSet(w)
    <2>1. Finish(w) \/ \E point : Goto(w, point)
        BY <1>4 DEF RoleWrite, TransferTarget, TransferPromote, TransferFrom, TransferDemote,
              TransferClear, TransferSet
    <2>2. UNCHANGED <<room, session, token>>
        BY <1>4 DEF RoleWrite, TransferTarget, TransferPromote, TransferFrom, TransferDemote,
              TransferClear, TransferSet, UpdateParticipantRole, ClearOtherPrimaries,
              SetParticipantPrimary, OnlyDb, db
    <2> QED
        BY <2>1, <2>2, AfterGoto, AfterFinish
<1>5. CASE Accept(w) \/ Decline(w) \/ ResolveRead(w)
    <2>1. Finish(w) \/ \E point : Goto(w, point)
        BY <1>5 DEF Accept, Decline, ResolveRead
    <2>2. UNCHANGED <<room, session, token>>
        BY <1>5 DEF Accept, Decline, ResolveRead, ResolveAction, OnlyDb, db
    <2> QED
        BY <2>1, <2>2, AfterGoto, AfterFinish
<1>6. CASE Serve(w)
    <2>1. req[w].at \notin {"join.count", "join.insert", "join.session", "join.reply",
                           "leave.release", "leave.status", "end.status", "end.revoke", "pause",
                           "resume", "start.claim", "start.status", "stop.release", "stop.status",
                           "request", "ws.open"}
        BY <1>0 DEF NamingPoint, KickPoint, TransferPoint
    <2> QED
        BY <1>1, <1>3, <1>4, <1>5, <1>6, <2>1 DEF Serve, JoinCount, JoinInsert, JoinSession,
              JoinReply, LeaveRelease, LeaveStatus, EndStatus, EndRevoke, SetPaused, StartClaim,
              StartStatus, StopRelease, StopStatus, RequestAction, OpenSocket, AbandonSocket
<1> QED
    BY <1>1, <1>2, <1>6

\* With nothing in flight but departures and requests of other rooms, no step writes
\* the room's status, mints a session or hands out a token, and none brings another
\* kind of request.
LEMMA OverKept ==
    ASSUME TypeOK, Over, [Next]_vars
    PROVE  Over'
<1> USE DEF TypeOK, At
<1>1. \A w \in Worker :
         req[w].at \in {"idle", "leave.release", "leave.status"} \/ req[w].by \in Elsewhere
    BY DEF Over, LeavePoint
<1>2. ASSUME NEW w \in Worker, LeaveRelease(w) \/ LeaveStatus(w)
      PROVE  Over'
    <2>1. /\ room'.status = room.status /\ UNCHANGED <<session, token>>
          /\ \/ Goto(w, "leave.status") \/ Finish(w)
        BY <1>2, OnlyDbStanding DEF LeaveRelease, LeaveStatus, ReleasePresenterForParticipant,
              UpdateParticipantStatus, StoreTypeOK
    <2> QED
        BY <1>1, <2>1, AfterGoto, AfterFinish DEF Over, LeavePoint
<1>3. ASSUME NEW w \in Worker, NEW p \in Participant, CloseSocket(w, p)
      PROVE  Over'
    <2>1. /\ req'[w].at = "leave.release" /\ \A v \in Worker \ {w} : req'[v] = req[v]
        BY <1>3 DEF CloseSocket, Idle, ReqOK
    <2> QED
        BY <1>1, <1>3, <2>1 DEF CloseSocket, Over, LeavePoint, db
<1>4. ASSUME NEW w \in Worker, Fail(w)
      PROVE  Over'
    BY <1>1, <1>4, AfterFinish DEF Fail, Over, db, OnlyDb
<1>5. ASSUME NEW w \in Worker, NEW p \in Anyone, Authenticate(w, p)
      PROVE  Over'
    <2>1. p \in Elsewhere
        BY <1>5 DEF Authenticate, Over, Anyone
    <2>2. req'[w].by = p /\ \A v \in Worker \ {w} : req'[v] = req[v]
        BY <1>5 DEF Authenticate, Idle, ReqOK
    <2> QED
        BY <1>1, <1>5, <2>1, <2>2 DEF Authenticate, Over, LeavePoint, OnlyDb, db
<1>6. ASSUME NEW w \in Worker, req[w].by \notin Elsewhere, JoinCheck(w) \/ Begin(w) \/ Refuse(w)
      PROVE  FALSE
    BY <1>1, <1>6 DEF JoinCheck, Over, Refuse, Begin, Admit, BeginLeave, BeginEnd, BeginPause,
          BeginResume, BeginStart, BeginStop, BeginSocket, BeginKick, BeginTransfer, BeginRole,
          BeginRequest, BeginResolve
<1>7. ASSUME NEW w \in Worker, req[w].by \notin Elsewhere, Serve(w)
      PROVE  LeaveRelease(w) \/ LeaveStatus(w)
    BY <1>1, <1>7 DEF Serve, JoinCount, JoinInsert, JoinSession, JoinReply, EndStatus, EndRevoke,
          SetPaused, StartClaim, StartStatus, StopRelease, StopStatus, KickRelease, KickStatus,
          KickRevoke, RoleWrite, TransferTarget, TransferNotFound, TransferPromote, TransferFrom,
          TransferDemote, TransferClear, TransferSet, RequestAction, Accept, Decline, ResolveRead,
          OpenSocket, AbandonSocket
<1>8. CASE Tick \/ Restart \/ UNCHANGED vars
    BY <1>1, <1>8 DEF Tick, Restart, vars, db, Over, Idle
<1>9. ASSUME NEW w \in Worker, req[w].by \in Elsewhere, Serve(w) \/ Begin(w) \/ Refuse(w)
      PROVE  Over'
    BY <1>1, <1>9, StrangersKeepOver DEF Over, LeavePoint, ClientsOK
<1>10. ASSUME NEW w \in Worker, JoinCheck(w)
       PROVE  FALSE
    BY <1>10 DEF JoinCheck, Over
<1> QED
    BY <1>2, <1>3, <1>4, <1>5, <1>6, <1>7, <1>8, <1>9, <1>10 DEF Next

\* Once a room is marked ENDED with no live token and nothing of it in flight but
\* departures, no call, join, fault or restart ever reopens it, and no request of
\* another room, which may be in flight all along.
THEOREM OverIsForGood == Spec => OverForGood
<1>1. TypeOK /\ [Next]_vars => [Over => Over']_vars
    BY OverKept
<1> QED
    BY <1>1, TypeCorrect, PTL DEF Spec, OverForGood

-----------------------------------------------------------------------------
(* Capacity.  What is inductive counts the joins past their check as if they *)
(* had been inserted.                                                        *)

Inserting == {w \in Worker : At(w, "join.insert")}

CapacityInv ==
    Local => Cardinality(Connected) + Cardinality(Inserting) <= MaxLocal + Cardinality(Worker) - 1

LEMMA CapacitySizes ==
    /\ IsFiniteSet(Connected) /\ Cardinality(Connected) \in Nat
    /\ IsFiniteSet(Inserting) /\ Cardinality(Inserting) \in Nat
    /\ Cardinality(Worker) \in Nat /\ Cardinality(Inserting) <= Cardinality(Worker)
    /\ Cardinality(Worker) >= 1
<1>1. Connected \subseteq Participant /\ Inserting \subseteq Worker
    BY DEF Connected, Inserting
<1>2. Cardinality(Worker) # 0
    BY FS_EmptySet
<1> QED
    BY <1>1, <1>2, FS_Subset, FS_CardinalityType

\* A step that connects nobody and lets no join past the check keeps the bound.
LEMMA NoMoreKeepsCapacity ==
    ASSUME CapacityInv, Connected' \subseteq Connected, Inserting' \subseteq Inserting
    PROVE  CapacityInv'
<1>1. Cardinality(Connected') <= Cardinality(Connected) /\ Cardinality(Connected') \in Nat
    BY CapacitySizes, FS_Subset, FS_CardinalityType
<1>2. Cardinality(Inserting') <= Cardinality(Inserting) /\ Cardinality(Inserting') \in Nat
    BY CapacitySizes, FS_Subset, FS_CardinalityType
<1> QED
    BY <1>1, <1>2, CapacitySizes DEF CapacityInv

LEMMA JoinCountCapacity ==
    ASSUME TypeOK, CapacityInv, NEW w \in Worker, JoinCount(w)
    PROVE  CapacityInv'
<1> USE DEF TypeOK
<1>1. Connected' = Connected
    BY DEF JoinCount, db, Connected
<1>2. CASE Cardinality(Connected) < MaxLocal
    <2>1. Inserting' \subseteq Worker
        BY DEF Inserting
    <2>2. Cardinality(Inserting') \in Nat /\ Cardinality(Inserting') <= Cardinality(Worker)
        BY <2>1, FS_Subset, FS_CardinalityType
    <2> QED
        BY <1>1, <1>2, <2>2, CapacitySizes DEF CapacityInv
<1>3. CASE ~(Cardinality(Connected) < MaxLocal)
    BY <1>1, <1>3, AfterFinish, NoMoreKeepsCapacity DEF JoinCount, Inserting, At
<1> QED
    BY <1>2, <1>3

LEMMA JoinInsertCapacity ==
    ASSUME TypeOK, CapacityInv, NEW w \in Worker, NEW p \in Participant, JoinInsert(w, p)
    PROVE  CapacityInv'
<1> USE DEF TypeOK, ReqOK, StoreTypeOK
<1>1. Connected' = Connected \cup {p} /\ p \notin Connected
    BY DEF JoinInsert, CreateParticipant, NewRow, Connected, Exists
<1>2. Inserting' = Inserting \ {w} /\ w \in Inserting
    BY DEF JoinInsert, Inserting, At, Request
<1>3. Cardinality(Connected') = Cardinality(Connected) + 1
    BY <1>1, CapacitySizes, FS_AddElement
<1>4. Cardinality(Inserting') = Cardinality(Inserting) - 1
    BY <1>2, CapacitySizes, FS_RemoveElement
<1> QED
    BY <1>3, <1>4, CapacitySizes DEF CapacityInv

\* Where every other step of a request leaves it.
LEMMA OthersInsertNothing ==
    ASSUME TypeOK, NEW w \in Worker, Serve(w) \/ Refuse(w) \/ Fail(w), ~JoinCount(w)
    PROVE  Inserting' \subseteq Inserting
<1> USE DEF TypeOK
<1>1. CASE Finish(w)
    BY <1>1, AfterFinish DEF Inserting, At
<1>2. ASSUME NEW point, Goto(w, point), point # "join.insert"
      PROVE  Inserting' \subseteq Inserting
    BY <1>2, AfterGoto DEF Inserting, At
<1>3. CASE (\E p \in Participant : JoinInsert(w, p)) \/ JoinSession(w) \/ JoinReply(w)
    <2>1. ASSUME NEW p \in Participant, JoinInsert(w, p)
          PROVE  Inserting' \subseteq Inserting
        BY <2>1 DEF JoinInsert, Inserting, At, ReqOK, Request
    <2> QED
        BY <1>1, <1>2, <1>3, <2>1 DEF JoinSession, JoinReply
<1>4. CASE \/ LeaveRelease(w) \/ LeaveStatus(w) \/ EndStatus(w) \/ EndRevoke(w) \/ SetPaused(w)
           \/ KickRelease(w) \/ KickStatus(w) \/ KickRevoke(w)
    BY <1>1, <1>2, <1>4 DEF LeaveRelease, LeaveStatus, EndStatus, EndRevoke, SetPaused,
                            KickRelease, KickStatus, KickRevoke
<1>5. CASE StartClaim(w) \/ StartStatus(w) \/ StopRelease(w) \/ StopStatus(w) \/ RoleWrite(w)
    BY <1>1, <1>2, <1>5 DEF StartClaim, StartStatus, StopRelease, StopStatus, RoleWrite
<1>9. CASE TransferNotFound(w)
    BY <1>1, <1>9 DEF TransferNotFound
<1>6. CASE TransferTarget(w) \/ TransferPromote(w) \/ TransferFrom(w)
    <2>1. \/ Goto(w, "xfer.promote") \/ Goto(w, "xfer.from")
          \/ Goto(w, "xfer.demote") \/ Goto(w, "xfer.clear")
        BY <1>6 DEF TransferTarget, TransferPromote, TransferFrom, AfterPromotion
    <2> QED
        BY <1>2, <2>1
<1>7. CASE TransferDemote(w) \/ TransferClear(w) \/ TransferSet(w)
    BY <1>1, <1>2, <1>7 DEF TransferDemote, TransferClear, TransferSet
<1>8. CASE \/ RequestAction(w) \/ Accept(w) \/ Decline(w) \/ ResolveRead(w)
           \/ OpenSocket(w) \/ AbandonSocket(w) \/ Refuse(w) \/ Fail(w)
    BY <1>1, <1>2, <1>8 DEF RequestAction, Accept, Decline, ResolveRead, OpenSocket, AbandonSocket,
                            Refuse, Fail
<1> QED
    BY <1>3, <1>4, <1>5, <1>6, <1>7, <1>8, <1>9 DEF Serve

LEMMA OthersConnectNobody ==
    ASSUME TypeOK, NEW w \in Worker, Serve(w) \/ Refuse(w) \/ Fail(w),
           ~\E p \in Participant : JoinInsert(w, p)
    PROVE  Connected' \subseteq Connected
<1> USE DEF TypeOK
<1>1. CASE Plain(w)
    BY <1>1, PlainStanding DEF SameStanding, Connected
<1>2. CASE JoinSession(w) \/ JoinReply(w) \/ EndRevoke(w) \/ KickRevoke(w) \/ OpenSocket(w)
    BY <1>2 DEF JoinSession, JoinReply, EndRevoke, KickRevoke, OpenSocket, CreateSession,
                RevokeSessionsForRoom, RevokeSessionsForParticipant, Connected, db
<1>3. CASE LeaveStatus(w)
    BY <1>3, Bears DEF LeaveStatus, UpdateParticipantStatus, Connected, StoreTypeOK, At
<1>4. CASE KickStatus(w)
    BY <1>4, Bears DEF KickStatus, UpdateParticipantStatus, Connected, StoreTypeOK, At, KickPoint
<1> QED
    BY <1>1, <1>2, <1>3, <1>4 DEF Serve, Plain

LEMMA BeginsCapacity ==
    ASSUME TypeOK, CapacityInv, NEW w \in Worker, NEW p \in Anyone,
           JoinCheck(w) \/ Begin(w) \/ Authenticate(w, p) \/ CloseSocket(w, p)
    PROVE  CapacityInv'
<1> USE DEF TypeOK
<1>1. Connected' = Connected
    BY BeginWritesNothing DEF JoinCheck, Authenticate, CloseSocket, Connected, db
<1>2. CASE JoinCheck(w) /\ Local
    <2>1. Goto(w, "join.count")
        BY <1>2 DEF JoinCheck
    <2> QED
        BY <1>1, <2>1, AfterGoto, NoMoreKeepsCapacity DEF Inserting, At
<1>3. CASE ~Local
    BY <1>3 DEF CapacityInv
<1>4. CASE Begin(w)
    <2>1. ASSUME NEW op, NEW point, NEW from, NEW to, NEW arg,
                 Admit(w, op, point, from, to, arg), point # "join.insert"
          PROVE  Inserting' \subseteq Inserting
        <3>1. req'[w].at = point /\ \A v \in Worker \ {w} : req'[v] = req[v]
            BY <2>1 DEF Admit, ReqOK, Request
        <3> QED
            BY <2>1, <3>1 DEF Inserting, At
    <2>2. Inserting' \subseteq Inserting
        BY <1>4, <2>1 DEF Begin, BeginLeave, BeginEnd, BeginPause, BeginResume, BeginStart,
              BeginStop, BeginSocket, BeginKick, BeginTransfer, BeginRole, BeginRequest, BeginResolve
    <2> QED
        BY <1>1, <2>2, NoMoreKeepsCapacity
<1>5. CASE Authenticate(w, p) \/ CloseSocket(w, p)
    <2>1. Inserting' \subseteq Inserting
        BY <1>5 DEF Authenticate, CloseSocket, Idle, Inserting, At, ReqOK
    <2> QED
        BY <1>1, <2>1, NoMoreKeepsCapacity
<1> QED
    BY <1>2, <1>3, <1>4, <1>5

LEMMA CapacityKept ==
    ASSUME TypeOK, CapacityInv, [Next]_vars
    PROVE  CapacityInv'
<1>1. ASSUME NEW w \in Worker, Serve(w) \/ Refuse(w) \/ Fail(w)
      PROVE  CapacityInv'
    BY <1>1, JoinCountCapacity, JoinInsertCapacity, OthersInsertNothing, OthersConnectNobody,
       NoMoreKeepsCapacity
<1>2. ASSUME NEW w \in Worker, NEW p \in Anyone,
             JoinCheck(w) \/ Begin(w) \/ Authenticate(w, p) \/ CloseSocket(w, p)
      PROVE  CapacityInv'
    BY <1>2, BeginsCapacity
<1>3. CASE Tick \/ Restart \/ UNCHANGED vars
    <2>1. Connected' = Connected /\ Inserting' \subseteq Inserting
        BY <1>3 DEF Tick, Restart, vars, db, Connected, Inserting, At, Idle
    <2> QED
        BY <2>1, NoMoreKeepsCapacity
<1>4. Owner \in Anyone /\ Participant \subseteq Anyone
    BY DEF Anyone
<1> QED
    BY <1>1, <1>2, <1>3, <1>4 DEF Next

LEMMA InitCapacity == Init => CapacityInv
<1> SUFFICES ASSUME Init PROVE CapacityInv
    OBVIOUS
<1>1. Connected = {Owner}
    BY DEF Init, StoreInit, NewRow, Connected
<1>2. Inserting = {}
    BY DEF Init, Idle, Inserting, At
<1>3. Cardinality(Connected) = 1 /\ Cardinality(Inserting) = 0
    BY <1>1, <1>2, FS_Singleton, FS_EmptySet
<1> QED
    BY <1>3, CapacitySizes DEF CapacityInv

\* A local room lists at most as many people beyond its limit as joins can be
\* in flight together, less one.
THEOREM CapacityIsBounded == Spec => []CapacityOvershoot
<1>1. Init => CapacityInv
    BY InitCapacity
<1>2. TypeOK /\ CapacityInv /\ [Next]_vars => CapacityInv'
    BY CapacityKept
<1>3. CapacityInv => CapacityOvershoot
    BY CapacitySizes DEF CapacityInv, CapacityOvershoot
<1> QED
    BY <1>1, <1>2, <1>3, TypeCorrect, PTL DEF Spec

=============================================================================
