----------------------------- MODULE Directory -----------------------------
(***************************************************************************)
(* What a room's hub promises to those who use it: a table of the          *)
(* connection each participant is reached by.  A connection comes in once  *)
(* and takes its participant's place, from whatever connection held it;    *)
(* it goes once, and clears the place only if it still holds it.  RoomHub  *)
(* implements this with goroutines and channels; RoleSync builds on it.    *)
(***************************************************************************)
CONSTANTS
    Conn,         \* BOUND: the connections ever made to the room
    Participant,
    Of,           \* Of[c]: the ParticipantID connection c was authenticated for
    Null          \* no connection

VARIABLES
    stage,  \* stage[c]: not come yet, in the room, or gone for good
    entry   \* entry[p]: the connection of p that is reached, h.conns[p]

Init ==
    /\ stage = [c \in Conn |-> "away"]
    /\ entry = [p \in Participant |-> Null]

Arrive(c) ==
    /\ stage[c] = "away"
    /\ stage' = [stage EXCEPT ![c] = "here"]
    /\ entry' = [entry EXCEPT ![Of[c]] = c]

Depart(c) ==
    /\ stage[c] = "here"
    /\ stage' = [stage EXCEPT ![c] = "gone"]
    /\ entry' = [entry EXCEPT ![Of[c]] = IF @ = c THEN Null ELSE @]

Next == \E c \in Conn : Arrive(c) \/ Depart(c)

Spec == Init /\ [][Next]_<<stage, entry>>

TypeOK ==
    /\ stage \in [Conn -> {"away", "here", "gone"}]
    /\ entry \in [Participant -> Conn \cup {Null}]

\* Whoever is reached is reached by a connection of its own that is in the room.
ReachedIsHere ==
    \A p \in Participant : entry[p] # Null => Of[entry[p]] = p /\ stage[entry[p]] = "here"

=============================================================================
