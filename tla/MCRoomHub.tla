----------------------------- MODULE MCRoomHub -----------------------------
(***************************************************************************)
(* Whose connection is whose, for the instances of RoomHub: a has two (the *)
(* page is refreshed, or open in two tabs), b has one.                     *)
(***************************************************************************)
EXTENDS RoomHub, TLC

CONSTANTS a, b, a1, a2, b1

MCOf == [c \in Conn |-> IF c = b1 THEN b ELSE a]
\* a's two connections are interchangeable.
Symmetry == Permutations({a1, a2})
=============================================================================
