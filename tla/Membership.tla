----------------------------- MODULE Membership -----------------------------
(***************************************************************************)
(* What the server promises about one room, with no statements, sessions   *)
(* or sockets: who has a row, who holds a token, whom the server is        *)
(* serving, who has been put out, who holds the stage.  Whoever is put out *)
(* may finish what the server is already doing for it, and once that is    *)
(* over it never gets in again.  RoomService implements this.              *)
(***************************************************************************)
CONSTANTS Participant, Role, DefaultRoleForNewParticipant, Owner, Null

VARIABLES
    joined, listed, role,  \* as in Roster
    holders,  \* who has been given a token
    inside,   \* whom the server serves: a socket, or a request it may let through
    barred,   \* who has been put out, by a kick or with the room
    holder    \* who holds the stage, if anybody

Rows == INSTANCE Roster

vars == <<joined, listed, role, holders, inside, barred, holder>>

Init ==
    /\ joined = {Owner} /\ listed = {Owner} /\ holders = {Owner}
    /\ role = [p \in Participant |->
                 IF p = Owner THEN "OWNER" ELSE DefaultRoleForNewParticipant]
    /\ inside = {} /\ barred = {} /\ holder = Null

\* Requests end and sockets close, in whatever step.
OthersGo == inside' \subseteq inside

Join(p) == Rows!Join(p) /\ OthersGo /\ UNCHANGED <<holders, barred, holder>>

\* The answer to a join.
Answer(p) ==
    /\ p \in joined
    /\ holders' = holders \cup {p}
    /\ OthersGo /\ UNCHANGED <<joined, listed, role, barred, holder>>

Enter(p) ==
    /\ p \in joined \cap holders /\ p \notin barred
    /\ inside' = inside \cup {p}
    /\ UNCHANGED <<joined, listed, role, holders, barred, holder>>

\* Of its own, or kicked; whoever kicks need not be inside, as hosts of other rooms
\* may, nor whoever changes a role.
Leave(p) == Rows!Leave(p) /\ OthersGo /\ UNCHANGED <<holders, barred, holder>>

SetRole(p, r) == Rows!SetRole(p, r) /\ OthersGo /\ UNCHANGED <<holders, barred, holder>>

\* A kick is over.
Expel(p) ==
    /\ p \in joined \ listed
    /\ barred' = barred \cup {p}
    /\ OthersGo /\ UNCHANGED <<joined, listed, role, holders, holder>>

\* The room has been ended, which only somebody inside does.
Close ==
    /\ inside # {}
    /\ barred' = barred \cup holders
    /\ OthersGo /\ UNCHANGED <<joined, listed, role, holders, holder>>

Claim(p) ==
    /\ p \in inside
    /\ holder \in {Null, p} /\ holder' = p
    /\ OthersGo /\ UNCHANGED <<joined, listed, role, holders, barred>>

Release ==
    /\ holder' = Null
    /\ OthersGo /\ UNCHANGED <<joined, listed, role, holders, barred>>

Exit == OthersGo /\ UNCHANGED <<joined, listed, role, holders, barred, holder>>

Next ==
    \/ Exit \/ Close \/ Release
    \/ \E p \in Participant :
          \/ Join(p) \/ Answer(p) \/ Enter(p) \/ Leave(p) \/ Expel(p) \/ Claim(p)
          \/ \E r \in Role : SetRole(p, r)

Spec == Init /\ [][Next]_vars

StaysOut(p) == p \notin inside' /\ (holder # p => holder' # p)

\* Who has been put out and has got out never gets in again, nor gets the stage.
OutForGood == [][\A p \in barred \ inside : StaysOut(p)]_vars

=============================================================================
