------------------------------- MODULE Roster -------------------------------
(***************************************************************************)
(* What a room's rows promise to those who read them: somebody comes in    *)
(* once, with the role of a newcomer, goes off the list once and for good, *)
(* and has one role at a time, which is written whole.  RoomService        *)
(* implements this with its statements; RoleSync builds on it.             *)
(***************************************************************************)
CONSTANTS Participant, Role, DefaultRoleForNewParticipant

VARIABLES
    joined,  \* who has a row
    listed,  \* who is CONNECTED: the participants ListParticipants returns
    role     \* role[p], room_participants.role

Join(p) ==
    /\ p \notin joined
    /\ joined' = joined \cup {p} /\ listed' = listed \cup {p}
    /\ role' = [role EXCEPT ![p] = DefaultRoleForNewParticipant]

Leave(p) ==
    /\ p \in listed
    /\ listed' = listed \ {p}
    /\ UNCHANGED <<joined, role>>

SetRole(p, r) ==
    /\ p \in joined
    /\ role' = [role EXCEPT ![p] = r]
    /\ UNCHANGED <<joined, listed>>

=============================================================================
