---------------------------- MODULE Permissions ----------------------------
(***************************************************************************)
(* The role -> action matrix every REST handler and the WebSocket handler  *)
(* consult, and the publish right LiveKit is told about.  Roles and        *)
(* actions are the string values of the Go constants.                      *)
(***************************************************************************)

Role == {"OWNER", "HOST", "PRESENTER", "PARTICIPANT", "VIEWER"}

Everyone == {"REACT", "RAISE_HAND"}

Presenting ==
    Everyone \cup {"START_PRESENT", "STOP_PRESENT", "ANNOTATE", "TRANSFER_PRESENTER"}

Hosting ==
    Presenting \cup {"PAUSE_RESUME", "PROMOTE_DEMOTE", "KICK", "ASSIGN_PRESENTER",
                     "INVITE", "RESOLVE_ACTION"}

matrix(role) ==
    CASE role = "OWNER"       -> Hosting \cup {"END_ROOM", "MANAGE_ACCESS"}
      [] role = "HOST"        -> Hosting
      [] role = "PRESENTER"   -> Presenting \cup {"REQUEST_PRESENTER"}
      [] role = "PARTICIPANT" -> Everyone \cup {"REQUEST_STAGE", "REQUEST_PRESENTER"}
      [] OTHER                -> Everyone \cup {"REQUEST_STAGE"}

Can(role, what) == what \in matrix(role)

DefaultRoleForNewParticipant == "PARTICIPANT"

CanPublish(role) == role \in {"OWNER", "HOST", "PRESENTER"}

=============================================================================
