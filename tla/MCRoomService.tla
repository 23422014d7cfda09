--------------------------- MODULE MCRoomService ---------------------------
(***************************************************************************)
(* Values of RoomService's constants that a configuration cannot write,    *)
(* and the symmetry of its instances: guests are interchangeable (the      *)
(* owner is not one of them), and so are the workers.                      *)
(***************************************************************************)
EXTENDS RoomService, TLC

Symmetry == Permutations(Participant \ {Owner}) \cup Permutations(Worker)
=============================================================================
