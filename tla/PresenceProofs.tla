--------------------------- MODULE PresenceProofs ---------------------------
(***************************************************************************)
(* A theorem about presence in RoomService: whoever is listed, and ever    *)
(* had a socket, still has one or is on the way out.                       *)
(***************************************************************************)
EXTENDS RolesProofs

USE StoreAssumption, RoomServiceAssumption

AttendedExist == \A p \in attended : Exists(p)

\* The steps that change who has, or ever had, a socket.
LEMMA SocketSteps ==
    ASSUME ~Restart, [Next]_vars, ~UNCHANGED <<sockets, attended>>
    PROVE  \E w \in Worker : OpenSocket(w) \/ \E p \in Participant : CloseSocket(w, p)
<1> USE DEF OnlyDb, history
<1>1. ASSUME NEW w \in Worker, JoinCheck(w) \/ Begin(w) \/ Refuse(w) \/ Fail(w)
      PROVE  FALSE
    BY <1>1, BeginWritesNothing DEF JoinCheck, Refuse, Fail
<1>2. ASSUME NEW w \in Worker, NEW p \in Anyone, Authenticate(w, p) \/ JoinInsert(w, p)
      PROVE  FALSE
    BY <1>2 DEF Authenticate, JoinInsert
<1>3. CASE Tick \/ UNCHANGED vars
    BY <1>3 DEF Tick, vars
<1>4. ASSUME NEW w \in Worker, Serve(w)
      PROVE  OpenSocket(w)
    BY <1>2, <1>4 DEF Serve, JoinCount, JoinSession, JoinReply, LeaveRelease,
          LeaveStatus, EndStatus, EndRevoke,
          SetPaused, StartClaim, StartStatus, StopRelease, StopStatus, KickRelease, KickStatus,
          KickRevoke, RoleWrite, TransferTarget, TransferNotFound, TransferPromote, TransferFrom,
          TransferDemote, TransferClear, TransferSet, RequestAction, Accept, Decline, ResolveRead,
          AbandonSocket, Anyone
<1> QED
    BY <1>1, <1>2, <1>3, <1>4 DEF Next, Anyone

LEMMA AttendedStep ==
    ASSUME TypeOK, ExpelledInv, AttendedExist, [Next]_vars
    PROVE  AttendedExist'
<1>1. ASSUME NEW p \in attended' PROVE Exists(p)
    <2>1. CASE attended' = attended
        BY <1>1, <2>1 DEF AttendedExist
    <2>2. ASSUME NEW w \in Worker, OpenSocket(w)
          PROVE  Exists(p)
        <3>1. attended' = attended \cup {req[w].by} /\ req[w].by \in Participant
            BY <2>2, Bears DEF OpenSocket, At, TypeOK
        <3>2. Exists(req[w].by)
            BY <3>1 DEF ExpelledInv, RowFirst
        <3> QED
            BY <1>1, <3>1, <3>2 DEF AttendedExist
    <2>3. ASSUME NEW w \in Worker, NEW q \in Participant, CloseSocket(w, q)
          PROVE  attended' = attended
        BY <2>3 DEF CloseSocket, history
    <2>4. CASE Restart
        BY <2>1, <2>4 DEF Restart, history
    <2> QED
        BY <2>1, <2>2, <2>3, <2>4, SocketSteps
<1>2. attended' \subseteq Participant
    BY NextTypes DEF TypeOK, ClientsOK
<1> QED
    BY <1>1, <1>2, ExistsStays DEF AttendedExist

\* What keeps a leave of p from being written.
CutLeave(p) == Restart \/ \E w \in Worker : Leaves(w, p) /\ Fail(w)

\* Who is leaving goes on to leave, or has been marked DISCONNECTED.
LEMMA LeavingStep ==
    ASSUME TypeOK, [Next]_vars, NEW p \in Participant, ~CutLeave(p),
           NEW w \in Worker, Leaves(w, p)
    PROVE  Leaves(w, p)' \/ row'[p].status = "DISCONNECTED"
<1>1. req[w].at \in LeavePoint /\ req[w].by = p
    BY DEF Leaves
<1>2. CASE req'[w] = req[w]
    BY <1>1, <1>2 DEF Leaves
<1>3. CASE LeaveRelease(w)
    BY <1>1, <1>3, GoneTo DEF LeaveRelease, Leaves, LeavePoint
<1>4. CASE LeaveStatus(w)
    BY <1>1, <1>4 DEF LeaveStatus, UpdateParticipantStatus, TypeOK, StoreTypeOK
<1>5. ASSUME Serve(w)
      PROVE  LeaveRelease(w) \/ LeaveStatus(w)
    BY <1>1, <1>5 DEF LeavePoint, At, Serve, JoinCount, JoinInsert, JoinSession, JoinReply, EndStatus,
          EndRevoke, SetPaused, StartClaim, StartStatus, StopRelease, StopStatus, KickRelease,
          KickStatus, KickRevoke, RoleWrite, TransferTarget, TransferNotFound, TransferPromote,
          TransferFrom, TransferDemote, TransferClear, TransferSet, RequestAction, Accept, Decline,
          ResolveRead, OpenSocket, AbandonSocket
<1>6. req'[w] = req[w] \/ Serve(w)
    <2>1. ~Fail(w) /\ ~Restart
        BY DEF CutLeave
    <2> QED
        BY <1>1, <2>1, OnlyServed DEF LeavePoint
<1> QED
    BY <1>2, <1>3, <1>4, <1>5, <1>6

\* Nobody who has a row becomes CONNECTED again.
LEMMA NotReconnected ==
    ASSUME TypeOK, [Next]_vars, NEW p \in Participant, Exists(p), row'[p].status = "CONNECTED"
    PROVE  row[p].status = "CONNECTED"
<1>1. ASSUME NEW w \in Worker, WritesRow(w) PROVE row[p].status = "CONNECTED"
    <2>1. ASSUME NEW q \in Participant, JoinInsert(w, q) PROVE row[p].status = "CONNECTED"
        <3>1. p # q
            BY <2>1 DEF JoinInsert
        <3>2. row'[p] = row[p]
            BY <2>1, <3>1, RowWritten
        <3> QED
            BY <3>2
    <2>2. CASE \/ LeaveStatus(w) \/ KickStatus(w) \/ RoleWrite(w) \/ TransferPromote(w)
               \/ TransferDemote(w) \/ TransferClear(w) \/ TransferSet(w)
        <3>1. row'[p].status \in {row[p].status, "DISCONNECTED", "KICKED"}
            BY <2>2, RowWritten
        <3> QED
            BY <3>1
    <2> QED
        BY <1>1, <2>1, <2>2 DEF WritesRow
<1> QED
    BY <1>1, RowSteps

LEMMA PhantomStep ==
    ASSUME TypeOK, ExpelledInv, AttendedExist, [Next]_vars, NEW p \in Participant,
           ~CutLeave(p), ~Phantom(p)
    PROVE  ~Phantom(p)'
<1> SUFFICES ASSUME p \in attended', sockets'[p] = 0, row'[p].status = "CONNECTED"
             PROVE  \E w \in Worker : Leaves(w, p)'
    BY DEF Phantom, Connected
<1>0. ~Restart
    BY DEF CutLeave
<1>1. CASE p \in attended /\ sockets[p] = 0
    <2>1. row[p].status = "CONNECTED"
        BY <1>1, NotReconnected DEF AttendedExist
    <2>2. PICK w \in Worker : Leaves(w, p)
        BY <1>1, <2>1 DEF Phantom, Connected
    <2> QED
        BY <2>2, LeavingStep
<1>2. ASSUME NEW w \in Worker, NEW q \in Participant, CloseSocket(w, q), sockets[p] # 0
      PROVE  \E v \in Worker : Leaves(v, p)'
    <2>1. p = q
        BY <1>2 DEF CloseSocket, TypeOK, ClientsOK
    <2>2. req'[w].at = "leave.release" /\ req'[w].by = p
        BY <1>2, <2>1 DEF CloseSocket, Idle, TypeOK, ReqOK
    <2> QED
        BY <2>2 DEF Leaves, LeavePoint
<1>3. ASSUME NEW w \in Worker, OpenSocket(w), ~(p \in attended /\ sockets[p] = 0)
      PROVE  FALSE
    <2>1. req[w].by \in Participant
        BY <1>3, Bears DEF OpenSocket, At, TypeOK
    <2>2. p # req[w].by
        BY <1>3, <2>1 DEF OpenSocket, TypeOK, ClientsOK
    <2> QED
        BY <1>3, <2>1, <2>2 DEF OpenSocket, TypeOK, ClientsOK
<1>4. ASSUME NEW w \in Worker, NEW q \in Participant, CloseSocket(w, q)
      PROVE  attended' = attended
    BY <1>4 DEF CloseSocket, history
<1> QED
    BY <1>0, <1>1, <1>2, <1>3, <1>4, SocketSteps

\* Whoever has had a socket has a row.
LEMMA AttendedInvariant == Spec => []AttendedExist
<1>1. Init => AttendedExist
    BY DEF Init, AttendedExist
<1> QED
    BY <1>1, AttendedStep, TypeCorrect, ExpelledInvariant, PTL DEF Spec

\* Whatever interleaves and fails, nobody is left on the list without a socket but
\* by a killed process or a leave of its own that is cut short.
THEOREM PhantomsComeFromCuts == Spec => PhantomsAreCutLeaves
<1>1. TypeOK /\ ExpelledInv /\ AttendedExist /\ [Next]_vars =>
        [\A p \in Participant :
            Phantom(p)' /\ ~Phantom(p) =>
               Restart \/ \E w \in Worker : Leaves(w, p) /\ Fail(w)]_vars
    BY PhantomStep DEF CutLeave
<1> QED
    BY <1>1, TypeCorrect, ExpelledInvariant, AttendedInvariant, PTL DEF Spec, PhantomsAreCutLeaves

FaultFree == Faults \cap {"failure", "restart"} = {}

NoPhantoms == \A p \in Participant : ~Phantom(p)

\* While no statement fails and the process is not killed, whoever's last socket
\* has closed is off the list as soon as nothing is in flight.
THEOREM NobodyIsAPhantom == FaultFree /\ Spec => []NoPhantom
<1> SUFFICES ASSUME FaultFree PROVE Spec => []NoPhantom
    OBVIOUS
<1>1. Init => NoPhantoms
    BY DEF Init, NoPhantoms, Phantom
<1>2. TypeOK /\ ExpelledInv /\ AttendedExist /\ NoPhantoms /\ [Next]_vars => NoPhantoms'
    <2> SUFFICES ASSUME TypeOK, ExpelledInv, AttendedExist, NoPhantoms, [Next]_vars,
                        NEW p \in Participant
                 PROVE  ~Phantom(p)'
        BY DEF NoPhantoms
    <2>1. ~CutLeave(p)
        BY DEF CutLeave, FaultFree, Restart, Fail
    <2> QED
        BY <2>1, PhantomStep DEF NoPhantoms
<1>3. TypeOK /\ NoPhantoms => NoPhantom
    BY DEF NoPhantoms, NoPhantom, Phantom, Quiet, Leaves, LeavePoint, At, TypeOK, ClientsOK
<1> QED
    BY <1>1, <1>2, <1>3, TypeCorrect, ExpelledInvariant, AttendedInvariant, PTL DEF Spec

=============================================================================
