------------------------------- MODULE Store -------------------------------
(***************************************************************************)
(* The database as the room service sees it: one room, the participants'   *)
(* rows, their sessions and their requests.  Each operator is one SQL      *)
(* statement, which the database executes atomically and commits at once:  *)
(* no operation of the service opens a transaction around two of them.     *)
(*                                                                         *)
(* A participant id is a fresh UUID and mintSession runs once for each, so *)
(* sessions are indexed by participant.  BOUND: a participant makes at     *)
(* most one request for the stage, so actions are indexed by participant   *)
(* too.  "ABSENT" and "NONE" stand for a row not yet inserted.             *)
(*                                                                         *)
(* The rows of other rooms are not kept.  Most statements find a row by    *)
(* its id alone, whatever its room, so an id may be one of Elsewhere: an   *)
(* UPDATE of it changes nothing here, and a SELECT finds what it finds.    *)
(***************************************************************************)
EXTENDS Permissions, FiniteSets

CONSTANTS
    Participant,  \* the participant ids that may ever be issued in the room
    Owner,        \* the one CreateRoom issues to the room's creator
    Elsewhere,    \* ids that have no row here: of other rooms, or of nobody
    Null          \* SQL's NULL, and an unused field of a request

ASSUME StoreAssumption ==
    /\ IsFiniteSet(Participant)
    /\ Owner \in Participant /\ Elsewhere \cap Participant = {}
    /\ Null \notin Participant \cup Elsewhere \cup Role

VARIABLES
    room,     \* the rooms row: status and primary_presenter_id
    row,      \* room_participants
    session,  \* room_sessions
    action    \* room_actions

db == <<room, row, session, action>>

ActionType == {"RAISE_HAND", "REQUEST_STAGE", "REQUEST_PRESENTER"}

\* Type of the tables: the CHECK constraints of the schema, and ids that exist.
StoreTypeOK ==
    /\ room \in [status : {"WAITING", "PRESENTING", "PAUSED", "ENDED"},
                 presenter : Participant \cup {Null}]
    /\ row \in [Participant ->
                  [status : {"ABSENT", "CONNECTED", "DISCONNECTED", "KICKED"},
                   role : Role, primary : BOOLEAN]]
    /\ session \in [Participant -> {"NONE", "VALID", "REVOKED"}]
    /\ action \in [Participant ->
                     [status : {"ABSENT", "PENDING", "ACCEPTED", "DECLINED"},
                      type : ActionType]]

NewRow(status, role) == [status |-> status, role |-> role, primary |-> FALSE]

\* What CreateRoom leaves behind: the room, its owner's row and session.
StoreInit ==
    /\ room = [status |-> "WAITING", presenter |-> Null]
    /\ row = [p \in Participant |->
                IF p = Owner THEN NewRow("CONNECTED", "OWNER")
                             ELSE NewRow("ABSENT", DefaultRoleForNewParticipant)]
    /\ session = [p \in Participant |-> IF p = Owner THEN "VALID" ELSE "NONE"]
    /\ action = [p \in Participant |-> [status |-> "ABSENT", type |-> "RAISE_HAND"]]

Exists(p) == row[p].status # "ABSENT"

\* The roles a read of somebody's row may find.
RolesFound(p) == IF p \in Participant THEN {row[p].role} ELSE Role

Connected == {p \in Participant : row[p].status = "CONNECTED"}

-----------------------------------------------------------------------------
(* rooms *)

UpdateRoomStatus(status) ==
    /\ room' = [room EXCEPT !.status = status]
    /\ UNCHANGED <<row, session, action>>

\* The WHERE of the claiming UPDATE: RowsAffected is 1 exactly when it holds.
PresenterFreeFor(p) == room.presenter \in {Null, p}

ClaimPresenter(p) ==
    /\ PresenterFreeFor(p)
    /\ room' = [room EXCEPT !.presenter = p]
    /\ UNCHANGED <<row, session, action>>

\* Mutation: the UPDATE without its holder condition.
ReleaseAnyPresenter(p) ==
    /\ room' = [room EXCEPT !.presenter = Null]
    /\ UNCHANGED <<row, session, action>>

ReleasePresenter(p) ==
    /\ room' = [room EXCEPT !.presenter = IF @ = p THEN Null ELSE @]
    /\ UNCHANGED <<row, session, action>>

ReleasePresenterForParticipant(p) ==
    /\ room' = [room EXCEPT !.presenter = IF @ = p THEN Null ELSE @]
    /\ UNCHANGED <<row, session, action>>

-----------------------------------------------------------------------------
(* room_participants *)

CreateParticipant(p) ==
    /\ row' = [row EXCEPT ![p] = NewRow("CONNECTED", DefaultRoleForNewParticipant)]
    /\ UNCHANGED <<room, session, action>>

\* Mutation: the row is written anew, its flag with it.
UpdateParticipantRoleAnew(p, role) ==
    /\ row' = [row EXCEPT ![p].role = role, ![p].primary = FALSE]
    /\ UNCHANGED <<room, session, action>>

UpdateParticipantRole(p, role) ==
    /\ row' = [row EXCEPT ![p].role = role]
    /\ UNCHANGED <<room, session, action>>

UpdateParticipantStatus(p, status) ==
    /\ row' = [row EXCEPT ![p].status = status]
    /\ UNCHANGED <<room, session, action>>

\* These two have a condition on room_id, the caller's: here is whether that is
\* this room.  So for an id of another room the one clears every flag of the
\* caller's room, and the other finds no row.
ClearOtherPrimaries(here, p) ==
    /\ row' = [q \in Participant |->
                 IF here /\ q # p THEN [row[q] EXCEPT !.primary = FALSE] ELSE row[q]]
    /\ UNCHANGED <<room, session, action>>

SetParticipantPrimary(here, p) ==
    /\ row' = IF here THEN [row EXCEPT ![p].primary = TRUE] ELSE row
    /\ UNCHANGED <<room, session, action>>

-----------------------------------------------------------------------------
(* room_sessions *)

CreateSession(p) ==
    /\ session' = [session EXCEPT ![p] = "VALID"]
    /\ UNCHANGED <<room, row, action>>

Revoked(s) == IF s = "VALID" THEN "REVOKED" ELSE s

RevokeSessionsForParticipant(p) ==
    /\ session' = [session EXCEPT ![p] = Revoked(@)]
    /\ UNCHANGED <<room, row, action>>

RevokeSessionsForRoom ==
    /\ session' = [p \in Participant |-> Revoked(session[p])]
    /\ UNCHANGED <<room, row, action>>

-----------------------------------------------------------------------------
(* room_actions *)

CreateAction(p, type) ==
    /\ action' = [action EXCEPT ![p] = [status |-> "PENDING", type |-> type]]
    /\ UNCHANGED <<room, row, session>>

\* What a read of somebody's request may find it asks for.
TypesFound(p) == IF p \in Participant THEN {action[p].type} ELSE ActionType

\* No condition on the current status: a request already answered is answered
\* again, and the last answer stays.
ResolveAction(p, status) ==
    /\ action' = [action EXCEPT ![p].status = status]
    /\ UNCHANGED <<room, row, session>>

=============================================================================
