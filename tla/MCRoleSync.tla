----------------------------- MODULE MCRoleSync -----------------------------
(***************************************************************************)
(* Every connection is of one participant: the older tab and the newer.    *)
(***************************************************************************)
EXTENDS RoleSync
CONSTANTS o, a
MCOf == [c \in Conn |-> a]
=============================================================================
