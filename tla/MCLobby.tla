------------------------------ MODULE MCLobby ------------------------------
(***************************************************************************)
(* A server with both of the repository's migrations next to an older one  *)
(* with the first only, and a request to each at a time.                   *)
(***************************************************************************)
EXTENDS Lobby
CONSTANTS new, old, w1, w2
MCShips == [s \in Server |-> IF s = new THEN Files ELSE Files - 1]
MCHost == [w \in Worker |-> IF w = w1 THEN new ELSE old]
=============================================================================
