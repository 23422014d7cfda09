------------------------------ MODULE Registry ------------------------------
(***************************************************************************)
(* What the servers of one database promise together, with no boots,       *)
(* transactions or requests: a schema that grows by one migration at a     *)
(* time, servers that serve on a schema that has theirs, rooms whose codes *)
(* are unique and which are whole before their one creator hears of them,  *)
(* and accounts that are made once.  Lobby implements this.                *)
(***************************************************************************)
EXTENDS Naturals

CONSTANTS Server, Files, Ships, RoomId, Code, Email, Person, Null  \* as in Lobby

VARIABLES
    version,   \* how many migrations the schema has
    up,        \* the servers that serve
    code,      \* code[id]: the join code of room id, Null if there is none
    whole,     \* the rooms with an owner who can enter
    account,   \* account[e]: whose password the account of e has, or Null
    answered,  \* the rooms, with their codes, whose creators were told of them
    welcomed   \* the accounts whose makers were told of them

schema == <<version, up>>
rooms == <<code, whole, answered>>
accounts == <<account, welcomed>>
vars == <<schema, rooms, accounts>>

Init ==
    /\ version = 0 /\ up = {}
    /\ code = [id \in RoomId |-> Null] /\ whole = {} /\ answered = {}
    /\ account = [e \in Email |-> Null] /\ welcomed = {}

-----------------------------------------------------------------------------

Upgrade ==
    /\ version < Files /\ version' = version + 1
    /\ UNCHANGED <<up, rooms, accounts>>

Start(s) ==
    /\ Ships[s] <= version
    /\ up' = up \cup {s}
    /\ UNCHANGED <<version, rooms, accounts>>

Crash(s) ==
    /\ up' = up \ {s}
    /\ UNCHANGED <<version, rooms, accounts>>

\* All that follows needs a server.
Served == up # {} /\ UNCHANGED schema

Reserve(id, c) ==
    /\ Served
    /\ code[id] = Null /\ \A other \in RoomId : code[other] # c
    /\ code' = [code EXCEPT ![id] = c]
    /\ UNCHANGED <<whole, answered, accounts>>

Complete(id) ==
    /\ Served
    /\ code[id] # Null
    /\ whole' = whole \cup {id}
    /\ UNCHANGED <<code, answered, accounts>>

\* Nobody else has been given this room.
Answer(id) ==
    /\ Served
    /\ id \in whole /\ \A r \in answered : r.id # id
    /\ answered' = answered \cup {[id |-> id, code |-> code[id]]}
    /\ UNCHANGED <<code, whole, accounts>>

Enrol(e, p) ==
    /\ Served
    /\ account[e] = Null
    /\ account' = [account EXCEPT ![e] = p]
    /\ UNCHANGED <<rooms, welcomed>>

Welcome(e) ==
    /\ Served
    /\ account[e] # Null /\ \A u \in welcomed : u.email # e
    /\ welcomed' = welcomed \cup {[email |-> e, who |-> account[e]]}
    /\ UNCHANGED <<rooms, account>>

Next ==
    \/ Upgrade
    \/ \E s \in Server : Start(s) \/ Crash(s)
    \/ \E id \in RoomId : Complete(id) \/ Answer(id) \/ \E c \in Code : Reserve(id, c)
    \/ \E e \in Email : Welcome(e) \/ \E p \in Person : Enrol(e, p)

Spec == Init /\ [][Next]_vars

=============================================================================
