--------------------------- MODULE RoleSyncProofs ---------------------------
(***************************************************************************)
(* Theorems about RoleSync, for any number of participants, connections    *)
(* and handlers and any faults.  CopiesInv is inductive: a connection is   *)
(* reached by its own participant's place only, nobody has a copy before   *)
(* it has a row, and a handshake or a token the histories do not name      *)
(* carries what the row says.  From it each step is shown to mislead a     *)
(* copy only in one of the ways MisleadsSocket and MisleadsLiveKit list.   *)
(***************************************************************************)
EXTENDS RoleSync, TLAPS

USE RoleSyncAssumption

-----------------------------------------------------------------------------
(* Types *)

Syncs == [at : {"idle", "list", "push"}, list : [Participant -> Role \cup {Null}],
          left : SUBSET Participant]

Jobs == [list : [Participant -> Role \cup {Null}], left : SUBSET Participant,
         for : Participant \cup {Null}]

SyncFits(s) == \A p \in s.left : s.list[p] # Null

\* j still has p to tell, or waits for the answer.
Holds(j, p) == p \in j.left \cup {j.for}

JobFits(j) == \A p \in Participant : Holds(j, p) => j.list[p] # Null

LEMMA IdleIsSync == Idle \in Syncs /\ SyncFits(Idle)
BY DEF Idle, Nobody, Syncs, SyncFits

LEMMA DoneIsJob == Done \in Jobs /\ JobFits(Done) /\ \A p \in Participant : ~Holds(Done, p)
BY DEF Done, Nobody, Jobs, JobFits, Holds

LEMMA RightType == \A r : Right(r) \in {"publish", "view"}
BY DEF Right

\* The steps of handler w.
Handler(w) ==
    \/ \E p \in Participant, r \in Roles : ChangeRole(w, p, r)
    \/ ChangeRoleElsewhere(w)
    \/ Serve(w) \/ SyncAbandoned(w) \/ LaunchAbandoned(w)

LEMMA SyncSteps ==
    ASSUME TypeOK, NEW w \in Worker, Handler(w)
    PROVE  \E s \in Syncs : SyncFits(s) /\ sync' = [sync EXCEPT ![w] = s]
<1>0. sync[w] \in Syncs /\ SyncFits(sync[w]) /\ role \in [Participant -> Role]
    BY DEF TypeOK, Syncs, SyncFits
<1>1. CASE sync' = [sync EXCEPT ![w].at = "list"]
    <2>1. PICK s \in Syncs : s = [sync[w] EXCEPT !.at = "list"]
        BY <1>0 DEF Syncs
    <2>2. SyncFits(s) /\ sync' = [sync EXCEPT ![w] = s]
        BY <1>0, <1>1, <2>1 DEF Syncs, SyncFits
    <2> QED
        BY <2>2
<1>2. CASE ListParticipants(w)
    <2>1. PICK l \in [Participant -> Role \cup {Null}] :
             l = [p \in Participant |-> IF p \in listed THEN role[p] ELSE Null]
        BY <1>0
    <2>2. PICK s \in Syncs : s = [at |-> "push", list |-> l, left |-> listed]
        BY DEF Syncs, TypeOK
    <2>3. SyncFits(s)
        BY <1>0, <2>1, <2>2 DEF SyncFits, TypeOK
    <2>4. sync' = [sync EXCEPT ![w] = s]
        BY <1>2, <2>1, <2>2 DEF ListParticipants
    <2> QED
        BY <2>3, <2>4
<1>3. CASE \E p \in Participant : SetParticipantRole(w, p)
    <2>1. PICK p \in Participant : sync' = [sync EXCEPT ![w].left = @ \ {p}]
        BY <1>3 DEF SetParticipantRole
    <2>2. PICK s \in Syncs : s = [sync[w] EXCEPT !.left = @ \ {p}]
        BY <1>0 DEF Syncs
    <2>3. SyncFits(s) /\ sync' = [sync EXCEPT ![w] = s]
        BY <1>0, <2>1, <2>2 DEF Syncs, SyncFits
    <2> QED
        BY <2>3
<1>4. CASE sync' = [sync EXCEPT ![w] = Idle]
    BY <1>4, IdleIsSync
<1> QED
    BY <1>1, <1>2, <1>3, <1>4
    DEF Handler, ChangeRole, ChangeRoleElsewhere, Serve, Launch, SyncAbandoned, LaunchAbandoned

LEMMA JobSteps ==
    ASSUME TypeOK, NEW w \in Worker, Launch(w) \/ Tell(w) \/ Deadline(w)
    PROVE  \E j \in Jobs : JobFits(j) /\ job' = [job EXCEPT ![w] = j]
<1>0. /\ job[w] \in Jobs /\ JobFits(job[w]) /\ sync[w] \in Syncs
      /\ job = [job EXCEPT ![w] = job[w]]
    BY DEF TypeOK, Syncs, Jobs, JobFits, Holds, ToTell
<1>1. CASE Launch(w)
    <2>1. CASE Online
        <3>1. PICK j \in Jobs :
                 j = [list |-> sync[w].list,
                      left |-> {p \in Participant : sync[w].list[p] # Null}, for |-> Null]
            BY <1>0 DEF Jobs, Syncs
        <3>2. JobFits(j) /\ job' = [job EXCEPT ![w] = j]
            BY <1>1, <2>1, <3>1 DEF Launch, JobFits, Holds
        <3> QED
            BY <3>2
    <2>2. CASE ~Online
        BY <1>0, <1>1, <2>2 DEF Launch
    <2> QED
        BY <2>1, <2>2
<1>2. ASSUME NEW p \in Participant, UpdatePermissions(w, p)
      PROVE  \E j \in Jobs : JobFits(j) /\ job' = [job EXCEPT ![w] = j]
    <2>1. PICK j \in Jobs : j = [job[w] EXCEPT !.left = @ \ {p}, !.for = p]
        BY <1>0 DEF Jobs
    <2>2. JobFits(j)
        BY <1>0, <1>2, <2>1 DEF UpdatePermissions, JobFits, Holds, Jobs
    <2>3. job' = [job EXCEPT ![w] = j]
        BY <1>2, <2>1 DEF UpdatePermissions
    <2> QED
        BY <2>2, <2>3
<1>3. CASE Deadline(w)
    BY <1>3, DoneIsJob DEF Deadline
<1> QED
    BY <1>1, <1>2, <1>3 DEF Tell

\* An answer takes nobody but its addressee off a goroutine's hands, and puts
\* nobody on them.
LEMMA AnswerSteps ==
    ASSUME TypeOK, NEW m \in wire, Answered(m)
    PROVE  \E j \in Jobs :
              /\ JobFits(j) /\ job' = [job EXCEPT ![m.from] = j]
              /\ \A q \in Participant :
                    /\ Holds(j, q) => Holds(job[m.from], q) /\ j.list[q] = job[m.from].list[q]
                    /\ Holds(job[m.from], q) /\ q # m.to => Holds(j, q)
<1>0. /\ m.from \in Worker /\ m.to \in Participant
      /\ job[m.from] \in Jobs /\ JobFits(job[m.from])
      /\ job = [job EXCEPT ![m.from] = job[m.from]]
    BY DEF TypeOK, Update, Jobs, JobFits, Holds, ToTell
<1>1. CASE job' = job
    BY <1>0, <1>1
<1>2. CASE /\ job[m.from].for = m.to
           /\ job' = [job EXCEPT ![m.from] = Ended([job[m.from] EXCEPT !.for = Null])]
    <2>1. PICK k \in Jobs : k = [job[m.from] EXCEPT !.for = Null]
        BY <1>0 DEF Jobs
    <2>2. CASE k.left = {}
        BY <1>0, <1>2, <2>1, <2>2, DoneIsJob DEF Ended, Holds, Jobs
    <2>3. CASE k.left # {}
        <3>1. job' = [job EXCEPT ![m.from] = k]
            BY <1>2, <2>1, <2>3 DEF Ended
        <3>2. k.left = job[m.from].left /\ k.list = job[m.from].list /\ k.for = Null
            BY <1>0, <2>1 DEF Jobs
        <3> QED
            BY <1>0, <1>2, <3>1, <3>2 DEF Holds, JobFits
    <2> QED
        BY <2>2, <2>3
<1> QED
    BY <1>1, <1>2 DEF Answered

LEMMA HandlerTypes ==
    ASSUME TypeOK, NEW w \in Worker, Handler(w)
    PROVE  TypeOK'
<1>0. UNCHANGED <<joined, listed, stage, entry, livekit>>
    BY DEF Handler, Serve, ChangeRole, WriteRole, Rows!SetRole, ChangeRoleElsewhere,
           ListParticipants, SetParticipantRole, Launch, SyncAbandoned, LaunchAbandoned, rows, table,
           livekit
<1>1. /\ sync' \in [Worker -> Syncs] /\ \A v \in Worker : SyncFits(sync'[v])
    <2>1. PICK s \in Syncs : SyncFits(s) /\ sync' = [sync EXCEPT ![w] = s]
        BY SyncSteps
    <2> QED
        BY <2>1 DEF TypeOK, Syncs, SyncFits
<1>2. /\ job' \in [Worker -> Jobs] /\ \A v \in Worker : JobFits(job'[v])
    <2>1. job \in [Worker -> Jobs] /\ \A v \in Worker : JobFits(job[v])
        BY DEF TypeOK, Jobs, JobFits, Holds, ToTell
    <2>2. job' = job \/ Launch(w)
        BY DEF Handler, Serve, ChangeRole, ChangeRoleElsewhere, ListParticipants, SetParticipantRole,
               SyncAbandoned, LaunchAbandoned
    <2> QED
        BY <2>1, <2>2, JobSteps
<1>3. role' \in [Participant -> Role] /\ changes' \in Nat /\ outside' \in Nat
    <2>1. CASE \E p \in Participant, r \in Roles : ChangeRole(w, p, r)
        BY <2>1 DEF TypeOK, ChangeRole, Changes, WriteRole, Rows!SetRole
    <2>2. CASE ChangeRoleElsewhere(w)
        BY <2>2 DEF TypeOK, ChangeRoleElsewhere, Changes, rows
    <2>3. CASE UNCHANGED <<role, written>>
        BY <2>3 DEF TypeOK, written
    <2> QED
        BY <2>1, <2>2, <2>3 DEF Handler, Serve, ListParticipants, SetParticipantRole, Launch,
                                SyncAbandoned, LaunchAbandoned, rows
<1>4. cached' \in [Conn -> Role \cup {Null}] /\ \A c \in Conn : stage[c] # "away" => cached'[c] # Null
    <2>1. CASE cached' = cached
        BY <2>1 DEF TypeOK
    <2>2. ASSUME NEW p \in Participant, SetParticipantRole(w, p)
          PROVE  /\ cached' \in [Conn -> Role \cup {Null}]
                 /\ \A c \in Conn : stage[c] # "away" => cached'[c] # Null
        <3>1. sync[w].list[p] \in Role
            BY <2>2 DEF SetParticipantRole, ToPush, TypeOK
        <3>2. \A c \in Conn : cached'[c] = sync[w].list[p] \/ cached'[c] = cached[c]
            BY <2>2 DEF SetParticipantRole
        <3>3. cached' \in [Conn -> Role \cup {Null}]
            BY <2>2, <3>1 DEF SetParticipantRole, TypeOK
        <3> QED
            BY <3>1, <3>2, <3>3 DEF TypeOK
    <2> QED
        BY <2>1, <2>2
        DEF Handler, Serve, ChangeRole, ChangeRoleElsewhere, ListParticipants, Launch,
            SyncAbandoned, LaunchAbandoned
<1>5. late' \subseteq Conn /\ old' \subseteq tokens'
    <2>1. CASE \E p \in Participant, r \in Roles : ChangeRole(w, p, r)
        BY <1>0, <2>1 DEF TypeOK, ChangeRole, WriteRole, livekit
    <2>2. CASE UNCHANGED history
        BY <1>0, <2>2 DEF TypeOK, history, livekit
    <2> QED
        BY <2>1, <2>2 DEF Handler, ChangeRoleElsewhere, Serve, ListParticipants,
                          SetParticipantRole, Launch, SyncAbandoned, LaunchAbandoned
<1> QED
    BY <1>0, <1>1, <1>2, <1>3, <1>4, <1>5
    DEF TypeOK, Hub!TypeOK, livekit, Syncs, Jobs, SyncFits, JobFits, Holds, ToTell

LEMMA ElsewhereTypes ==
    ASSUME TypeOK, NEW p \in Participant, NEW r \in Roles, ChangeRoleFromElsewhere(p, r)
    PROVE  TypeOK'
BY DEF TypeOK, ChangeRoleFromElsewhere, WriteRole, Rows!SetRole, Hub!TypeOK, ToTell, table, livekit

LEMMA MediaTypes ==
    ASSUME TypeOK, \/ \E w \in Worker : Tell(w) \/ Deadline(w)
                   \/ Answer
                   \/ \E t \in tokens : Connect(t)
                   \/ \E p \in Participant : Mint(p) \/ Disconnect(p)
    PROVE  TypeOK'
<1>0. UNCHANGED <<rows, table, cached, sync, written, late>>
    BY DEF Tell, UpdatePermissions, Deadline, Answer, Execute, Lose, Mint, Grant, Connect, Disconnect,
           history
<1>1. /\ job' \in [Worker -> Jobs] /\ \A v \in Worker : JobFits(job'[v])
    <2>0. job \in [Worker -> Jobs] /\ \A v \in Worker : JobFits(job[v])
        BY DEF TypeOK, Jobs, JobFits, Holds, ToTell
    <2>1. \/ job' = job
          \/ \E w \in Worker, j \in Jobs : JobFits(j) /\ job' = [job EXCEPT ![w] = j]
        <3>1. CASE \E w \in Worker : Tell(w) \/ Deadline(w)
            BY <3>1, JobSteps
        <3>2. CASE Answer
            <4>1. PICK m \in wire : Answered(m)
                BY <3>2 DEF Answer, Execute, Lose
            <4>2. m.from \in Worker
                BY DEF TypeOK, Update
            <4> QED
                BY <4>1, <4>2, AnswerSteps
        <3> QED
            BY <3>1, <3>2 DEF Connect, Mint, Grant, Disconnect
    <2> QED
        BY <2>0, <2>1
<1>2. wire' \subseteq Update
    <2>1. CASE wire' \subseteq wire
        BY <2>1 DEF TypeOK
    <2>2. ASSUME NEW w \in Worker, NEW p \in Participant, UpdatePermissions(w, p)
          PROVE  wire' \subseteq Update
        BY <2>2, RightType DEF UpdatePermissions, Update, TypeOK
    <2> QED
        BY <2>1, <2>2 DEF Tell, Deadline, Answer, Execute, Lose, Mint, Grant, Connect, Disconnect,
                          livekit
<1>3. tokens' \subseteq [to : Participant, right : {"publish", "view"}] /\ (~Online => tokens' = {})
    <2>1. CASE tokens' \subseteq tokens
        BY <2>1 DEF TypeOK
    <2>2. ASSUME NEW p \in Participant, Mint(p)
          PROVE  /\ tokens' \subseteq [to : Participant, right : {"publish", "view"}]
                 /\ ~Online => tokens' = {}
        BY <2>2, RightType DEF Mint, Grant, TypeOK
    <2> QED
        BY <2>1, <2>2 DEF Tell, UpdatePermissions, Deadline, Answer, Execute, Lose, Connect,
                          Disconnect, livekit
<1>4. /\ media' \in [Participant -> {"out", "view", "publish"}]
      /\ ~Online => \A p \in Participant : media'[p] = "out"
    <2>1. CASE media' = media
        BY <2>1 DEF TypeOK
    <2>2. ASSUME NEW m \in wire, Execute(m)
          PROVE  /\ media' \in [Participant -> {"out", "view", "publish"}]
                 /\ ~Online => \A p \in Participant : media'[p] = "out"
        BY <2>2 DEF Execute, TypeOK, Update
    <2>3. ASSUME NEW t \in tokens, Connect(t)
          PROVE  /\ media' \in [Participant -> {"out", "view", "publish"}]
                 /\ ~Online => \A p \in Participant : media'[p] = "out"
        BY <2>3 DEF Connect, TypeOK
    <2>4. ASSUME NEW p \in Participant, Disconnect(p)
          PROVE  /\ media' \in [Participant -> {"out", "view", "publish"}]
                 /\ ~Online => \A q \in Participant : media'[q] = "out"
        BY <2>4 DEF Disconnect, TypeOK
    <2> QED
        BY <2>1, <2>2, <2>3, <2>4
        DEF Tell, UpdatePermissions, Deadline, Answer, Lose, Mint, Grant, livekit
<1>5. old' \subseteq tokens'
    <2>1. CASE UNCHANGED <<tokens, old>>
        BY <2>1 DEF TypeOK
    <2>2. ASSUME NEW p \in Participant, Mint(p) PROVE old' \subseteq tokens'
        BY <2>2 DEF Mint, Grant, TypeOK
    <2> QED
        BY <2>1, <2>2 DEF Tell, UpdatePermissions, Deadline, Answer, Execute, Lose, Connect,
                          Disconnect, livekit, history
<1> QED
    BY <1>0, <1>1, <1>2, <1>3, <1>4, <1>5
    DEF TypeOK, Hub!TypeOK, rows, table, written, Jobs, JobFits, Holds, ToTell

SocketsTyped ==
    /\ Hub!TypeOK
    /\ cached \in [Conn -> Role \cup {Null}]
    /\ \A c \in Conn : stage[c] # "away" => cached[c] # Null

LEMMA SocketTypes ==
    ASSUME TypeOK, \/ \E c \in Conn : Handshake(c) \/ Register(c) \/ Unregister(c)
                   \/ \E p \in Participant : Join(p) \/ Leave(p)
    PROVE  TypeOK'
<1>0. /\ UNCHANGED <<sync, job, livekit, written, old>> /\ late' \subseteq late
      /\ listed' \subseteq joined' /\ joined' \subseteq Participant
      /\ role' \in [Participant -> Role]
    BY DEF TypeOK, Handshake, Register, Unregister, Join, Rows!Join, Leave, Rows!Leave, rows, history
<1>1. SocketsTyped'
    <2>0. SocketsTyped
        BY DEF TypeOK, SocketsTyped
    <2>1. ASSUME NEW c \in Conn, Handshake(c) PROVE  SocketsTyped'
        BY <2>0, <2>1 DEF Handshake, table, SocketsTyped, Hub!TypeOK, TypeOK
    <2>2. ASSUME NEW c \in Conn, Register(c) PROVE  SocketsTyped'
        BY <2>0, <2>2 DEF Register, Hub!Arrive, SocketsTyped, Hub!TypeOK
    <2>3. ASSUME NEW c \in Conn, Unregister(c) PROVE  SocketsTyped'
        BY <2>0, <2>3 DEF Unregister, Hub!Depart, SocketsTyped, Hub!TypeOK
    <2>4. ASSUME NEW p \in Participant, Join(p) \/ Leave(p) PROVE  SocketsTyped'
        BY <2>0, <2>4 DEF Join, Leave, table, SocketsTyped, Hub!TypeOK
    <2> QED
        BY <2>1, <2>2, <2>3, <2>4
<1> QED
    BY <1>0, <1>1 DEF TypeOK, SocketsTyped, ToTell, livekit, written

THEOREM RoleSyncTypeCorrect == Spec => []TypeOK
<1>1. Init => TypeOK
    <2> SUFFICES ASSUME Init PROVE TypeOK
        OBVIOUS
    <2>1. /\ sync \in [Worker -> Syncs] /\ \A w \in Worker : SyncFits(sync[w])
          /\ job \in [Worker -> Jobs] /\ \A w \in Worker : JobFits(job[w])
        BY IdleIsSync, DoneIsJob DEF Init
    <2>2. Hub!TypeOK /\ \A c \in Conn : stage[c] = "away"
        BY DEF Init, Hub!Init, Hub!TypeOK
    <2>3. role \in [Participant -> Role]
        BY DEF Init, Role
    <2> QED
        BY <2>1, <2>2, <2>3 DEF Init, TypeOK, Syncs, SyncFits, Jobs, JobFits, Holds, ToTell
<1>2. TypeOK /\ [Next]_vars => TypeOK'
    <2> SUFFICES ASSUME TypeOK, [Next]_vars PROVE TypeOK'
        OBVIOUS
    <2>1. CASE UNCHANGED vars
        BY <2>1 DEF vars, rows, table, livekit, written, history, TypeOK, Hub!TypeOK, ToTell
    <2> QED
        BY <2>1, HandlerTypes, ElsewhereTypes, MediaTypes, SocketTypes DEF Next, Handler
<1> QED
    BY <1>1, <1>2, PTL DEF Spec

-----------------------------------------------------------------------------
(* What every copy rests on *)

\* Before it has a row, nobody has a socket or a right.
Strangers ==
    \A p \in Participant \ joined :
       /\ \A c \in Conn : Of[c] = p => cached[c] = Null
       /\ media[p] = "out" /\ \A t \in tokens : t.to # p

\* A copy the histories do not name is the row's.
Fresh ==
    /\ \A c \in Conn \ late : stage[c] = "away" /\ cached[c] # Null => cached[c] = role[Of[c]]
    /\ \A t \in tokens \ old : t.right = Right(role[t.to])

CopiesInv == Hub!ReachedIsHere /\ Strangers /\ Fresh

\* A step that writes at most p's role.
Writes(p) ==
    /\ \E r \in Roles : WriteRole(p, r)
    /\ UNCHANGED <<table, cached, livekit>>

LEMMA WritesKeepCopies ==
    ASSUME TypeOK, CopiesInv, NEW p \in Participant, Writes(p)
    PROVE  CopiesInv'
<1>1. PICK r \in Roles :
         /\ p \in joined /\ role' = [role EXCEPT ![p] = r] /\ UNCHANGED <<joined, listed>>
         /\ late' = late \cup {c \in Conn : Of[c] = p /\ stage[c] = "away" /\ cached[c] # Null}
         /\ old' = old \cup {t \in tokens : t.to = p}
         /\ UNCHANGED <<stage, entry, cached, wire, media, tokens>>
    BY DEF Writes, WriteRole, Rows!SetRole, table, livekit
<1>2. \A q \in Participant : q # p => role'[q] = role[q]
    BY <1>1 DEF TypeOK
<1>3. \A t \in tokens : t.to \in Participant
    BY DEF TypeOK
<1>4. Fresh'
    <2>1. ASSUME NEW c \in Conn, c \notin late', stage[c] = "away", cached[c] # Null
          PROVE  cached[c] = role'[Of[c]]
        BY <1>1, <1>2, <2>1 DEF CopiesInv, Fresh
    <2>2. ASSUME NEW t \in tokens, t \notin old'
          PROVE  t.right = Right(role'[t.to])
        BY <1>1, <1>2, <1>3, <2>2 DEF CopiesInv, Fresh
    <2> QED
        BY <1>1, <2>1, <2>2 DEF Fresh
<1>5. Hub!ReachedIsHere' /\ Strangers'
    BY <1>1 DEF CopiesInv, Hub!ReachedIsHere, Strangers
<1> QED
    BY <1>4, <1>5 DEF CopiesInv

LEMMA PushKeepsCopies ==
    ASSUME TypeOK, CopiesInv, NEW w \in Worker, NEW p \in Participant, SetParticipantRole(w, p)
    PROVE  CopiesInv'
<1>1. /\ UNCHANGED <<joined, role, stage, entry, media, tokens, late, old>>
      /\ \A c \in Conn : cached'[c] = IF c = entry[p] THEN sync[w].list[p] ELSE cached[c]
    BY DEF SetParticipantRole, rows, table, livekit, history
<1>2. \A c \in Conn : c = entry[p] => stage[c] = "here" /\ Of[c] = p /\ cached[c] # Null
    BY DEF CopiesInv, Hub!ReachedIsHere, TypeOK
<1>3. Strangers'
    BY <1>1, <1>2 DEF CopiesInv, Strangers
<1>4. Hub!ReachedIsHere' /\ Fresh'
    BY <1>1, <1>2 DEF CopiesInv, Hub!ReachedIsHere, Fresh
<1> QED
    BY <1>3, <1>4 DEF CopiesInv

LEMMA ConnectionsKeepCopies ==
    ASSUME TypeOK, CopiesInv, NEW c \in Conn, Handshake(c) \/ Register(c) \/ Unregister(c)
    PROVE  CopiesInv'
<1>0. UNCHANGED <<joined, role, media, tokens, old>>
    BY DEF Handshake, Register, Unregister, rows, livekit, history
<1>1. CASE Handshake(c)
    <2>1. /\ stage[c] = "away" /\ cached' = [cached EXCEPT ![c] = role[Of[c]]]
          /\ Of[c] \in joined /\ UNCHANGED <<stage, entry, late>>
        BY <1>1 DEF Handshake, table, history
    <2>2. \A d \in Conn : cached'[d] = IF d = c THEN role[Of[c]] ELSE cached[d]
        BY <2>1 DEF TypeOK
    <2> QED
        BY <1>0, <2>1, <2>2 DEF CopiesInv, Hub!ReachedIsHere, Strangers, Fresh
<1>2. CASE Register(c)
    <2>1. /\ stage[c] = "away" /\ cached' = cached /\ late' = late \ {c}
          /\ stage' = [stage EXCEPT ![c] = "here"] /\ entry' = [entry EXCEPT ![Of[c]] = c]
        BY <1>2 DEF Register, Hub!Arrive
    <2>2. Hub!ReachedIsHere'
        BY <2>1 DEF CopiesInv, Hub!ReachedIsHere, TypeOK, Hub!TypeOK
    <2>3. Strangers' /\ Fresh'
        BY <1>0, <2>1 DEF CopiesInv, Strangers, Fresh, TypeOK, Hub!TypeOK
    <2> QED
        BY <2>2, <2>3 DEF CopiesInv
<1>3. CASE Unregister(c)
    <2>1. /\ stage[c] = "here" /\ UNCHANGED <<cached, late>>
          /\ stage' = [stage EXCEPT ![c] = "gone"]
          /\ entry' = [entry EXCEPT ![Of[c]] = IF @ = c THEN Null ELSE @]
        BY <1>3 DEF Unregister, Hub!Depart, history
    <2>2. Hub!ReachedIsHere'
        BY <2>1 DEF CopiesInv, Hub!ReachedIsHere, TypeOK, Hub!TypeOK
    <2>3. Strangers' /\ Fresh'
        BY <1>0, <2>1 DEF CopiesInv, Strangers, Fresh, TypeOK, Hub!TypeOK
    <2> QED
        BY <2>2, <2>3 DEF CopiesInv
<1> QED
    BY <1>1, <1>2, <1>3

LEMMA ClientsKeepCopies ==
    ASSUME TypeOK, CopiesInv,
           \/ Answer \/ \E t \in tokens : Connect(t)
           \/ \E p \in Participant : Mint(p) \/ Disconnect(p)
    PROVE  CopiesInv'
<1>0. UNCHANGED <<joined, role, stage, entry, cached, late>>
    BY DEF Answer, Execute, Lose, Connect, Mint, Grant, Disconnect, rows, table, history
<1>1. Hub!ReachedIsHere'
    BY <1>0 DEF CopiesInv, Hub!ReachedIsHere
<1>2. Fresh' /\ \A t \in tokens' : t \in tokens \/ t.to \in joined
    <2>1. CASE UNCHANGED <<tokens, old>>
        BY <1>0, <2>1 DEF CopiesInv, Fresh
    <2>2. ASSUME NEW p \in Participant, Mint(p)
          PROVE  Fresh' /\ \A t \in tokens' : t \in tokens \/ t.to \in joined
        <3>1. PICK t : /\ t = [to |-> p, right |-> Right(role[p])]
                       /\ tokens' = tokens \cup {t} /\ old' = old \ {t} /\ p \in joined
            BY <2>2 DEF Mint, Grant
        <3>2. \A u \in tokens' \ old' : u.right = Right(role[u.to])
            BY <3>1 DEF CopiesInv, Fresh
        <3> QED
            BY <1>0, <3>1, <3>2 DEF CopiesInv, Fresh
    <2> QED
        BY <2>1, <2>2 DEF Answer, Execute, Lose, Connect, Disconnect, history
<1>3. \A p \in Participant \ joined : media[p] = "out" => media'[p] = "out"
    <2>1. CASE media' = media
        BY <2>1
    <2>2. ASSUME NEW m \in wire, Execute(m)
          PROVE  \A p \in Participant : media[p] = "out" => media'[p] = "out"
        BY <2>2 DEF Execute, TypeOK
    <2>3. ASSUME NEW t \in tokens, Connect(t)
          PROVE  \A p \in Participant \ joined : media[p] = "out" => media'[p] = "out"
        BY <2>3 DEF Connect, TypeOK, CopiesInv, Strangers
    <2>4. ASSUME NEW q \in Participant, Disconnect(q)
          PROVE  \A p \in Participant : media[p] = "out" => media'[p] = "out"
        BY <2>4 DEF Disconnect, TypeOK
    <2> QED
        BY <2>1, <2>2, <2>3, <2>4 DEF Answer, Lose, Mint, Grant
<1>4. Strangers'
    BY <1>0, <1>2, <1>3 DEF CopiesInv, Strangers
<1> QED
    BY <1>1, <1>2, <1>4 DEF CopiesInv

LEMMA JoinKeepsCopies ==
    ASSUME TypeOK, CopiesInv, NEW p \in Participant, Join(p)
    PROVE  CopiesInv'
<1>1. /\ p \notin joined /\ joined' = joined \cup {p}
      /\ \A q \in Participant : q # p => role'[q] = role[q]
      /\ UNCHANGED <<stage, entry, cached, media, tokens, late, old>>
    BY DEF Join, Rows!Join, TypeOK, table, livekit, history
<1>2. \A t \in tokens : t.to \in Participant
    BY DEF TypeOK
<1>3. Hub!ReachedIsHere' /\ Strangers'
    BY <1>1 DEF CopiesInv, Hub!ReachedIsHere, Strangers
<1>4. Fresh'
    <2>1. ASSUME NEW c \in Conn \ late, stage[c] = "away", cached[c] # Null
          PROVE  cached[c] = role'[Of[c]]
        BY <1>1, <2>1 DEF CopiesInv, Strangers, Fresh
    <2>2. ASSUME NEW t \in tokens \ old
          PROVE  t.right = Right(role'[t.to])
        BY <1>1, <1>2, <2>2 DEF CopiesInv, Strangers, Fresh
    <2> QED
        BY <1>1, <2>1, <2>2 DEF Fresh
<1> QED
    BY <1>3, <1>4 DEF CopiesInv

LEMMA CopiesStep ==
    ASSUME TypeOK, CopiesInv, [Next]_vars
    PROVE  CopiesInv'
<1>1. CASE UNCHANGED <<joined, role, stage, entry, cached, media, tokens, late, old>>
    BY <1>1 DEF CopiesInv, Hub!ReachedIsHere, Strangers, Fresh
<1>2. CASE \E p \in Participant : Writes(p)
    BY <1>2, WritesKeepCopies
<1>3. ASSUME NEW w \in Worker,
             \/ Handler(w) /\ ~\E p \in Participant, r \in Roles : ChangeRole(w, p, r)
             \/ Tell(w) \/ Deadline(w)
      PROVE  CopiesInv'
    <2>1. CASE \E p \in Participant : SetParticipantRole(w, p)
        BY <2>1, PushKeepsCopies
    <2>2. CASE \A p \in Participant : ~SetParticipantRole(w, p)
        BY <1>1, <1>3, <2>2
        DEF Handler, Serve, ChangeRoleElsewhere, ListParticipants, Launch, SyncAbandoned,
            LaunchAbandoned, Tell, UpdatePermissions, Deadline, rows, table, livekit, history
    <2> QED
        BY <2>1, <2>2
<1>4. ASSUME NEW p \in Participant, Leave(p) PROVE  CopiesInv'
    BY <1>1, <1>4 DEF Leave, Rows!Leave, table, livekit, history
<1>5. CASE UNCHANGED vars
    BY <1>1, <1>5 DEF vars, rows, table, livekit, history
<1>6. \A p \in Participant, r \in Roles :
         ChangeRoleFromElsewhere(p, r) \/ (\E w \in Worker : ChangeRole(w, p, r)) => Writes(p)
    BY DEF ChangeRoleFromElsewhere, ChangeRole, Writes, table, livekit
<1> QED
    BY <1>2, <1>3, <1>4, <1>5, <1>6, ConnectionsKeepCopies, ClientsKeepCopies, JoinKeepsCopies
    DEF Next, Handler

LEMMA CopiesInvariant == Spec => [](TypeOK /\ CopiesInv)
<1>1. Init => CopiesInv
    BY DEF Init, CopiesInv, Hub!Init, Hub!ReachedIsHere, Strangers, Fresh
<1> QED
    BY <1>1, CopiesStep, RoleSyncTypeCorrect, PTL DEF Spec

-----------------------------------------------------------------------------
(* Sockets *)

\* What SocketsFollow says of p.
SocketFollows(p) == SocketMisled(p)' /\ ~SocketMisled(p) => MisleadsSocket(p)

\* A step that lets p's socket be.
SocketStutters(p) ==
    /\ role'[p] = role[p]
    /\ entry'[p] # Null => entry'[p] = entry[p] /\ cached'[entry[p]] = cached[entry[p]]
    /\ RoleComing(p) => RoleComing(p)'

LEMMA StutterKeepsSocket ==
    ASSUME NEW p \in Participant, SocketStutters(p)
    PROVE  SocketMisled(p)' => SocketMisled(p)
BY DEF SocketStutters, SocketMisled, SocketBehind

\* A handler that goes on to list the room is about to tell everybody on the list,
\* and was telling nobody.
LEMMA GoesOnSockets ==
    ASSUME TypeOK, NEW w \in Worker, Changes(w), sync' = [sync EXCEPT ![w].at = "list"],
           UNCHANGED <<listed, table, cached>>, NEW p \in Participant,
           p \in listed \/ role'[p] = role[p]
    PROVE  SocketMisled(p)' => SocketMisled(p)
<1>1. sync'[w].at = "list" /\ \A v \in Worker : v # w => sync'[v] = sync[v]
    BY DEF TypeOK
<1>2. CASE p \in listed
    BY <1>1, <1>2 DEF SocketMisled, RoleComing
<1>3. CASE p \notin listed /\ role'[p] = role[p]
    <2>1. \A v \in Worker : ToPush(v, p) => v # w
        BY DEF Changes, ToPush
    <2>2. RoleComing(p) => RoleComing(p)'
        BY <1>1, <1>3, <2>1 DEF RoleComing, ToPush
    <2>3. SocketStutters(p)
        BY <1>3, <2>2 DEF SocketStutters, table
    <2> QED
        BY <2>3, StutterKeepsSocket
<1> QED
    BY <1>2, <1>3

LEMMA ChangeSockets ==
    ASSUME TypeOK, NEW w \in Worker, NEW q \in Participant, NEW r \in Roles, ChangeRole(w, q, r),
           NEW p \in Participant
    PROVE  SocketFollows(p)
<1>1. /\ Changes(w) /\ sync' = [sync EXCEPT ![w].at = "list"]
      /\ UNCHANGED <<listed, table, cached>> /\ role' = [role EXCEPT ![q] = r]
    BY DEF ChangeRole, WriteRole, Rows!SetRole
<1>2. CASE p = q /\ p \notin listed
    BY <1>2 DEF SocketFollows, MisleadsSocket, WrittenUnheard
<1>3. CASE p # q \/ p \in listed
    <2>1. p \in listed \/ role'[p] = role[p]
        BY <1>1, <1>3 DEF TypeOK
    <2> QED
        BY <1>1, <2>1, GoesOnSockets DEF SocketFollows
<1> QED
    BY <1>2, <1>3

LEMMA ListSockets ==
    ASSUME TypeOK, NEW w \in Worker, ListParticipants(w), NEW p \in Participant
    PROVE  SocketFollows(p)
<1>1. /\ sync[w].at = "list" /\ UNCHANGED <<rows, table, cached>>
      /\ sync'[w].at = "push" /\ sync'[w].left = listed
      /\ p \in listed => sync'[w].list[p] = role[p]
      /\ \A v \in Worker : v # w => sync'[v] = sync[v]
    BY DEF ListParticipants, TypeOK
<1>2. RoleComing(p) => RoleComing(p)'
    <2>1. CASE p \in listed
        BY <1>1, <2>1 DEF RoleComing, ToPush, rows
    <2>2. CASE p \notin listed
        BY <1>1, <2>2 DEF RoleComing, ToPush, rows
    <2> QED
        BY <2>1, <2>2
<1>3. SocketStutters(p)
    BY <1>1, <1>2 DEF SocketStutters, rows, table
<1> QED
    BY <1>3, StutterKeepsSocket DEF SocketFollows

LEMMA PushSockets ==
    ASSUME TypeOK, CopiesInv, NEW w \in Worker, NEW q \in Participant, SetParticipantRole(w, q),
           NEW p \in Participant
    PROVE  SocketFollows(p)
<1>1. /\ UNCHANGED <<rows, table>>
      /\ \A c \in Conn : cached'[c] = IF c = entry[q] THEN sync[w].list[q] ELSE cached[c]
      /\ sync'[w].at = sync[w].at /\ sync'[w].list = sync[w].list
      /\ sync'[w].left = sync[w].left \ {q}
      /\ \A v \in Worker : v # w => sync'[v] = sync[v]
    BY DEF SetParticipantRole, TypeOK
<1>2. CASE p = q /\ sync[w].list[p] # role[p]
    BY <1>2 DEF SocketFollows, MisleadsSocket
<1>3. CASE p = q /\ sync[w].list[p] = role[p]
    <2>1. entry[p] # Null => entry[p] \in Conn
        BY DEF TypeOK, Hub!TypeOK
    <2> QED
        BY <1>1, <1>3, <2>1 DEF SocketFollows, SocketMisled, SocketBehind, rows, table
<1>4. CASE p # q
    <2>1. entry[p] # Null => entry[p] \in Conn /\ entry[p] # entry[q]
        BY <1>4 DEF CopiesInv, Hub!ReachedIsHere, TypeOK, Hub!TypeOK
    <2>2. RoleComing(p) => RoleComing(p)'
        BY <1>1, <1>4 DEF RoleComing, ToPush, rows
    <2>3. SocketStutters(p)
        BY <1>1, <2>1, <2>2 DEF SocketStutters, rows, table
    <2> QED
        BY <2>3, StutterKeepsSocket DEF SocketFollows
<1> QED
    BY <1>2, <1>3, <1>4

\* A sync ends when it has pushed everybody's role.
LEMMA LaunchSockets ==
    ASSUME TypeOK, NEW w \in Worker, Launch(w) \/ LaunchAbandoned(w), NEW p \in Participant
    PROVE  SocketFollows(p)
<1>1. /\ sync[w].at = "push" /\ sync[w].left = {} /\ UNCHANGED <<rows, table, cached>>
      /\ \A v \in Worker : v # w => sync'[v] = sync[v]
    BY DEF Launch, LaunchAbandoned, TypeOK
<1>2. RoleComing(p) => RoleComing(p)'
    BY <1>1 DEF RoleComing, ToPush, rows
<1>3. SocketStutters(p)
    BY <1>1, <1>2 DEF SocketStutters, rows, table
<1> QED
    BY <1>3, StutterKeepsSocket DEF SocketFollows

LEMMA ConnectionSockets ==
    ASSUME TypeOK, CopiesInv, NEW c \in Conn, Handshake(c) \/ Register(c) \/ Unregister(c),
           NEW p \in Participant
    PROVE  SocketFollows(p)
<1>0. UNCHANGED <<role, listed, sync>>
    BY DEF Handshake, Register, Unregister, rows
<1>1. RoleComing(p) => RoleComing(p)'
    BY <1>0 DEF RoleComing, ToPush
<1>2. entry[p] # Null => entry[p] \in Conn /\ stage[entry[p]] = "here"
    BY DEF CopiesInv, Hub!ReachedIsHere, TypeOK, Hub!TypeOK
<1>3. CASE Handshake(c)
    <2>1. entry' = entry /\ (entry[p] # Null => cached'[entry[p]] = cached[entry[p]])
        BY <1>2, <1>3 DEF Handshake, table, TypeOK
    <2> QED
        BY <1>0, <1>1, <2>1, StutterKeepsSocket DEF SocketStutters, SocketFollows
<1>4. CASE Register(c) /\ Of[c] # p
    <2>1. entry'[p] = entry[p] /\ cached' = cached
        BY <1>4 DEF Register, Hub!Arrive, TypeOK, Hub!TypeOK
    <2> QED
        BY <1>0, <1>1, <2>1, StutterKeepsSocket DEF SocketStutters, SocketFollows
<1>5. CASE Register(c) /\ Of[c] = p /\ c \in late
    BY <1>5 DEF SocketFollows, MisleadsSocket
<1>6. CASE Register(c) /\ Of[c] = p /\ c \notin late
    <2>1. entry'[p] = c /\ cached' = cached /\ cached[c] = role[p]
        BY <1>6 DEF Register, Hub!Arrive, CopiesInv, Fresh, TypeOK, Hub!TypeOK
    <2> QED
        BY <1>0, <2>1 DEF SocketFollows, SocketMisled, SocketBehind
<1>7. CASE Unregister(c)
    <2>1. (entry'[p] # Null => entry'[p] = entry[p]) /\ cached' = cached
        BY <1>7 DEF Unregister, Hub!Depart, TypeOK, Hub!TypeOK
    <2> QED
        BY <1>0, <1>1, <2>1, StutterKeepsSocket DEF SocketStutters, SocketFollows
<1> QED
    BY <1>3, <1>4, <1>5, <1>6, <1>7

\* Somebody comes or goes, or has its role written from elsewhere.
LEMMA PeopleSockets ==
    ASSUME TypeOK, CopiesInv, NEW q \in Participant,
           Join(q) \/ Leave(q) \/ \E r \in Roles : ChangeRoleFromElsewhere(q, r),
           NEW p \in Participant
    PROVE  SocketFollows(p)
<1>0. UNCHANGED <<table, cached, sync>>
    BY DEF Join, Leave, ChangeRoleFromElsewhere
<1>1. CASE p = q /\ Join(q)
    <2>1. entry[p] = Null
        BY <1>1 DEF Join, Rows!Join, CopiesInv, Strangers, Hub!ReachedIsHere, TypeOK, Hub!TypeOK
    <2> QED
        BY <1>0, <2>1 DEF SocketFollows, SocketMisled, SocketBehind, table
<1>2. CASE p = q /\ ~Join(q)
    BY <1>2 DEF SocketFollows, MisleadsSocket, Unlisted, WrittenUnheard
<1>3. CASE p # q
    <2>1. role'[p] = role[p] /\ (p \in listed => p \in listed')
        BY <1>3 DEF Join, Rows!Join, Leave, Rows!Leave, ChangeRoleFromElsewhere, WriteRole,
                    Rows!SetRole, TypeOK
    <2>2. RoleComing(p) => RoleComing(p)'
        BY <1>0, <2>1 DEF RoleComing, ToPush
    <2> QED
        BY <1>0, <2>1, <2>2, StutterKeepsSocket DEF SocketStutters, SocketFollows, table
<1> QED
    BY <1>1, <1>2, <1>3

LEMMA HandlerSockets ==
    ASSUME TypeOK, CopiesInv, NEW w \in Worker, Handler(w), NEW p \in Participant
    PROVE  SocketFollows(p)
<1>1. CASE ChangeRoleElsewhere(w)
    BY <1>1, GoesOnSockets DEF ChangeRoleElsewhere, rows, SocketFollows
<1>2. CASE SyncAbandoned(w)
    BY <1>2 DEF SocketFollows, MisleadsSocket, Unlisted
<1> QED
    BY <1>1, <1>2, ChangeSockets, ListSockets, PushSockets, LaunchSockets DEF Handler, Serve

LEMMA SocketsStep ==
    ASSUME TypeOK, CopiesInv, [Next]_vars, NEW p \in Participant
    PROVE  SocketFollows(p)
<1>1. CASE UNCHANGED <<rows, table, cached, sync>>
    <2>1. SocketStutters(p)
        BY <1>1 DEF SocketStutters, RoleComing, ToPush, rows, table
    <2> QED
        BY <2>1, StutterKeepsSocket DEF SocketFollows
<1>2. CASE \/ \E w \in Worker : Tell(w) \/ Deadline(w)
           \/ Answer \/ \E t \in tokens : Connect(t)
           \/ \E q \in Participant : Mint(q) \/ Disconnect(q)
           \/ UNCHANGED vars
    BY <1>1, <1>2 DEF Tell, UpdatePermissions, Deadline, Answer, Execute, Lose, Connect, Mint, Grant,
                      Disconnect, vars
<1> QED
    BY <1>2, HandlerSockets, ConnectionSockets, PeopleSockets DEF Next, Handler

\* The role a connection acts with: with handlers, list reads, pushes and handshakes
\* interleaved, and hosts who reach into rooms not their own, it comes to differ
\* from the row's with nothing on its way to correct it in the ways MisleadsSocket
\* lists, and in no other.
THEOREM SocketsAlwaysFollow == Spec => SocketsFollow
<1>1. TypeOK /\ CopiesInv /\ [Next]_vars =>
         [\A p \in Participant : SocketMisled(p)' /\ ~SocketMisled(p) => MisleadsSocket(p)]_vars
    BY SocketsStep DEF SocketFollows
<1> QED
    BY <1>1, CopiesInvariant, PTL DEF Spec, SocketsFollow

-----------------------------------------------------------------------------
(* Rights at LiveKit *)

RightFollows(p) == RightMisled(p)' /\ ~RightMisled(p) => MisleadsLiveKit(p)

\* A step that lets p's right be, or ends p's connection to LiveKit.
RightStutters(p) ==
    /\ role'[p] = role[p] /\ media'[p] \in {media[p], "out"}
    /\ RightComing(p) => RightComing(p)'

LEMMA StutterKeepsRight ==
    ASSUME NEW p \in Participant, RightStutters(p)
    PROVE  RightMisled(p)' => RightMisled(p)
BY DEF RightStutters, RightMisled, RightBehind

LEMMA GoesOnRights ==
    ASSUME TypeOK, NEW w \in Worker, Changes(w), sync' = [sync EXCEPT ![w].at = "list"],
           UNCHANGED <<listed, job, livekit>>, NEW p \in Participant,
           p \in listed \/ role'[p] = role[p]
    PROVE  RightMisled(p)' => RightMisled(p)
<1>1. sync'[w].at = "list" /\ \A v \in Worker : v # w => sync'[v] = sync[v]
    BY DEF TypeOK
<1>2. CASE p \in listed
    BY <1>1, <1>2 DEF RightMisled, RightComing
<1>3. CASE p \notin listed /\ role'[p] = role[p]
    <2>1. \A v \in Worker : ToLaunch(v, p) => v # w
        BY DEF Changes, ToLaunch
    <2>2. RightComing(p) => RightComing(p)'
        BY <1>1, <1>3, <2>1 DEF RightComing, ToLaunch, SameRight, livekit
    <2>3. RightStutters(p)
        BY <1>3, <2>2 DEF RightStutters, livekit
    <2> QED
        BY <2>3, StutterKeepsRight
<1> QED
    BY <1>2, <1>3

LEMMA ChangeRights ==
    ASSUME TypeOK, NEW w \in Worker, NEW q \in Participant, NEW r \in Roles, ChangeRole(w, q, r),
           NEW p \in Participant
    PROVE  RightFollows(p)
<1>1. /\ Changes(w) /\ sync' = [sync EXCEPT ![w].at = "list"]
      /\ UNCHANGED <<listed, job, livekit>> /\ role' = [role EXCEPT ![q] = r]
    BY DEF ChangeRole, WriteRole, Rows!SetRole
<1>2. CASE p = q /\ p \notin listed
    BY <1>2 DEF RightFollows, MisleadsLiveKit, WrittenUnheard
<1>3. CASE p # q \/ p \in listed
    <2>1. p \in listed \/ role'[p] = role[p]
        BY <1>1, <1>3 DEF TypeOK
    <2> QED
        BY <1>1, <2>1, GoesOnRights DEF RightFollows
<1> QED
    BY <1>2, <1>3

LEMMA ListRights ==
    ASSUME TypeOK, NEW w \in Worker, ListParticipants(w), NEW p \in Participant
    PROVE  RightFollows(p)
<1>1. /\ sync[w].at = "list" /\ UNCHANGED <<rows, job, livekit>>
      /\ sync'[w].at = "push"
      /\ p \in listed => sync'[w].list[p] = role[p]
      /\ \A v \in Worker : v # w => sync'[v] = sync[v]
      /\ role[p] # Null
    BY DEF ListParticipants, TypeOK
<1>2. RightComing(p) => RightComing(p)'
    <2>1. CASE p \in listed
        BY <1>1, <2>1 DEF RightComing, ToLaunch, SameRight, rows, livekit
    <2>2. CASE p \notin listed
        BY <1>1, <2>2 DEF RightComing, ToLaunch, SameRight, rows, livekit
    <2> QED
        BY <2>1, <2>2
<1>3. RightStutters(p)
    BY <1>1, <1>2 DEF RightStutters, rows, livekit
<1> QED
    BY <1>3, StutterKeepsRight DEF RightFollows

\* The list is kept for the goroutine.
LEMMA PushRights ==
    ASSUME TypeOK, NEW w \in Worker, NEW q \in Participant, SetParticipantRole(w, q),
           NEW p \in Participant
    PROVE  RightFollows(p)
<1>1. /\ UNCHANGED <<rows, job, livekit>>
      /\ \A v \in Worker : sync'[v].at = sync[v].at /\ sync'[v].list = sync[v].list
    BY DEF SetParticipantRole, TypeOK
<1>2. RightComing(p) => RightComing(p)'
    BY <1>1 DEF RightComing, ToLaunch, SameRight, rows, livekit
<1>3. RightStutters(p)
    BY <1>1, <1>2 DEF RightStutters, rows, livekit
<1> QED
    BY <1>3, StutterKeepsRight DEF RightFollows

\* The goroutine takes the whole list over.
LEMMA LaunchRights ==
    ASSUME TypeOK, NEW w \in Worker, Launch(w), NEW p \in Participant
    PROVE  RightFollows(p)
<1>1. /\ sync[w].at = "push" /\ UNCHANGED <<rows, livekit>>
      /\ \A v \in Worker : v # w => sync'[v] = sync[v]
    BY DEF Launch, TypeOK
<1>2. CASE Online
    <2>1. /\ job[w] = Done /\ job'[w].list = sync[w].list
          /\ p \in job'[w].left <=> sync[w].list[p] # Null
          /\ \A v \in Worker : v # w => job'[v] = job[v]
        BY <1>2 DEF Launch, TypeOK
    <2>2. RightComing(p) => RightComing(p)'
        BY <1>1, <2>1 DEF RightComing, ToLaunch, SameRight, Done, rows, livekit
    <2>3. RightStutters(p)
        BY <1>1, <2>2 DEF RightStutters, rows, livekit
    <2> QED
        BY <2>3, StutterKeepsRight DEF RightFollows
<1>3. CASE ~Online
    BY <1>1, <1>3 DEF RightFollows, RightMisled, RightBehind, TypeOK, livekit
<1> QED
    BY <1>2, <1>3

\* The update sent says what the goroutine was told.
LEMMA TellRights ==
    ASSUME TypeOK, NEW w \in Worker, NEW q \in Participant, UpdatePermissions(w, q),
           NEW p \in Participant
    PROVE  RightFollows(p)
<1>1. /\ UNCHANGED <<rows, sync, media>>
      /\ wire' = wire \cup {[from |-> w, to |-> q, right |-> Right(job[w].list[q])]}
      /\ job'[w].list = job[w].list /\ job'[w].left = job[w].left \ {q}
      /\ \A v \in Worker : v # w => job'[v] = job[v]
    BY DEF UpdatePermissions, TypeOK
<1>2. RightComing(p) => RightComing(p)'
    <2>1. CASE p = q /\ p \in job[w].left /\ SameRight(job[w].list[p], p)
        <3> DEFINE m == [from |-> w, to |-> q, right |-> Right(job[w].list[q])]
        <3>1. m \in wire' /\ m.to = p /\ m.right = Right(role[p])
            BY <1>1, <2>1 DEF SameRight
        <3> HIDE DEF m
        <3> QED
            BY <1>1, <3>1 DEF RightComing, rows
    <2>2. ASSUME NEW v \in Worker, p \in job[v].left, SameRight(job[v].list[p], p),
                 v # w \/ p # q
          PROVE  RightComing(p)'
        BY <1>1, <2>2 DEF RightComing, SameRight, rows
    <2>3. ASSUME NEW v \in Worker,
                 \/ sync[v].at = "list" /\ p \in listed
                 \/ ToLaunch(v, p) /\ SameRight(sync[v].list[p], p)
          PROVE  RightComing(p)'
        BY <1>1, <2>3 DEF RightComing, ToLaunch, SameRight, rows
    <2>4. ASSUME NEW m \in wire, m.to = p, m.right = Right(role[p])
          PROVE  RightComing(p)'
        BY <1>1, <2>4 DEF RightComing, rows
    <2> QED
        BY <2>1, <2>2, <2>3, <2>4 DEF RightComing
<1>3. RightStutters(p)
    BY <1>1, <1>2 DEF RightStutters, rows
<1> QED
    BY <1>3, StutterKeepsRight DEF RightFollows

\* An answer, or the lack of one, makes no goroutine forget anybody.
LEMMA AnswerKeepsLeft ==
    ASSUME TypeOK, NEW m \in wire, Answered(m), NEW v \in Worker, NEW p \in job[v].left
    PROVE  p \in job'[v].left /\ job'[v].list = job[v].list
<1>1. job[v] \in Jobs /\ job \in [Worker -> Jobs] /\ m.from \in Worker
    BY DEF TypeOK, Jobs, Update
<1>2. CASE job' = job
    BY <1>2
<1>3. CASE job' = [job EXCEPT ![m.from] = Ended([job[m.from] EXCEPT !.for = Null])]
    <2>1. CASE v # m.from
        BY <1>1, <1>3, <2>1
    <2>2. CASE v = m.from
        BY <1>1, <1>3, <2>2 DEF Ended, Jobs
    <2> QED
        BY <2>1, <2>2
<1> QED
    BY <1>2, <1>3 DEF Answered

LEMMA AnswerRights ==
    ASSUME TypeOK, NEW m \in wire, Execute(m) \/ Lose(m), NEW p \in Participant
    PROVE  RightFollows(p)
<1>1. /\ wire' = wire \ {m} /\ Answered(m) /\ UNCHANGED <<rows, sync>>
      /\ m.to \in Participant
    BY DEF Execute, Lose, TypeOK, Update
<1>2. CASE p # m.to
    <2>1. media'[p] = media[p]
        BY <1>2 DEF Execute, Lose, TypeOK
    <2>2. \A v \in Worker : p \in job[v].left => p \in job'[v].left /\ job'[v].list = job[v].list
        BY <1>1, AnswerKeepsLeft
    <2>3. RightComing(p) => RightComing(p)'
        BY <1>1, <1>2, <2>2 DEF RightComing, ToLaunch, SameRight, rows
    <2>4. RightStutters(p)
        BY <1>1, <2>1, <2>3 DEF RightStutters, rows
    <2> QED
        BY <2>4, StutterKeepsRight DEF RightFollows
<1>3. CASE p = m.to /\ (Lose(m) \/ m.right # Right(role[p]))
    BY <1>3 DEF RightFollows, MisleadsLiveKit
<1>4. CASE p = m.to /\ Execute(m) /\ m.right = Right(role[p])
    <2>1. media'[p] \in {"out", Right(role'[p])}
        BY <1>1, <1>4 DEF Execute, TypeOK, rows
    <2> QED
        BY <2>1 DEF RightFollows, RightMisled, RightBehind
<1> QED
    BY <1>2, <1>3, <1>4

LEMMA DeadlineRights ==
    ASSUME TypeOK, NEW w \in Worker, Deadline(w), NEW p \in Participant
    PROVE  RightFollows(p)
<1>1. /\ UNCHANGED <<rows, sync, livekit>>
      /\ \A v \in Worker : v # w => job'[v] = job[v]
    BY DEF Deadline, TypeOK
<1>2. CASE p \in job[w].left
    BY <1>2 DEF RightFollows, MisleadsLiveKit
<1>3. CASE p \notin job[w].left
    <2>1. RightComing(p) => RightComing(p)'
        BY <1>1, <1>3 DEF RightComing, ToLaunch, SameRight, rows, livekit
    <2>2. RightStutters(p)
        BY <1>1, <2>1 DEF RightStutters, rows, livekit
    <2> QED
        BY <2>2, StutterKeepsRight DEF RightFollows
<1> QED
    BY <1>2, <1>3

\* A token that is not old carries the right of the row.
LEMMA ClientRights ==
    ASSUME TypeOK, CopiesInv, NEW p \in Participant,
           \/ \E t \in tokens : Connect(t)
           \/ \E q \in Participant : Mint(q) \/ Disconnect(q)
    PROVE  RightFollows(p)
<1>1. UNCHANGED <<rows, sync, job, wire>>
    BY DEF Connect, Mint, Grant, Disconnect
<1>2. CASE media'[p] \in {media[p], "out"}
    <2>1. RightComing(p) => RightComing(p)'
        BY <1>1 DEF RightComing, ToLaunch, SameRight, rows
    <2>2. RightStutters(p)
        BY <1>1, <1>2, <2>1 DEF RightStutters, rows
    <2> QED
        BY <2>2, StutterKeepsRight DEF RightFollows
<1>3. CASE media'[p] \notin {media[p], "out"}
    <2>1. PICK t \in tokens : Connect(t) /\ t.to = p /\ media'[p] = t.right
        BY <1>3 DEF Connect, Mint, Grant, Disconnect, TypeOK
    <2>2. CASE t \in old
        BY <2>1, <2>2 DEF RightFollows, MisleadsLiveKit
    <2>3. CASE t \notin old
        <3>1. media'[p] = Right(role'[p])
            BY <1>1, <2>1, <2>3 DEF CopiesInv, Fresh, rows
        <3> QED
            BY <3>1 DEF RightFollows, RightMisled, RightBehind
    <2> QED
        BY <2>2, <2>3
<1> QED
    BY <1>2, <1>3

LEMMA PeopleRights ==
    ASSUME TypeOK, CopiesInv, NEW q \in Participant,
           Join(q) \/ Leave(q) \/ \E r \in Roles : ChangeRoleFromElsewhere(q, r),
           NEW p \in Participant
    PROVE  RightFollows(p)
<1>0. UNCHANGED <<sync, job, livekit>>
    BY DEF Join, Leave, ChangeRoleFromElsewhere
<1>1. CASE p = q /\ Join(q)
    <2>1. media'[p] = "out"
        BY <1>0, <1>1 DEF Join, Rows!Join, CopiesInv, Strangers, livekit
    <2> QED
        BY <2>1 DEF RightFollows, RightMisled, RightBehind
<1>2. CASE p = q /\ ~Join(q)
    BY <1>2 DEF RightFollows, MisleadsLiveKit, Unlisted, WrittenUnheard
<1>3. CASE p # q
    <2>1. role'[p] = role[p] /\ (p \in listed => p \in listed')
        BY <1>3 DEF Join, Rows!Join, Leave, Rows!Leave, ChangeRoleFromElsewhere, WriteRole,
                    Rows!SetRole, TypeOK
    <2>2. RightComing(p) => RightComing(p)'
        BY <1>0, <2>1 DEF RightComing, ToLaunch, SameRight, livekit
    <2> QED
        BY <1>0, <2>1, <2>2, StutterKeepsRight DEF RightStutters, RightFollows, livekit
<1> QED
    BY <1>1, <1>2, <1>3

LEMMA HandlerRights ==
    ASSUME TypeOK, NEW w \in Worker, Handler(w), NEW p \in Participant
    PROVE  RightFollows(p)
<1>1. CASE ChangeRoleElsewhere(w)
    BY <1>1, GoesOnRights DEF ChangeRoleElsewhere, rows, RightFollows
<1>2. CASE SyncAbandoned(w) \/ LaunchAbandoned(w)
    BY <1>2 DEF RightFollows, MisleadsLiveKit, Unlisted
<1> QED
    BY <1>1, <1>2, ChangeRights, ListRights, PushRights, LaunchRights DEF Handler, Serve

LEMMA RightsStep ==
    ASSUME TypeOK, CopiesInv, [Next]_vars, NEW p \in Participant
    PROVE  RightFollows(p)
<1>1. CASE UNCHANGED <<rows, sync, job, livekit>>
    <2>1. RightStutters(p)
        BY <1>1 DEF RightStutters, RightComing, ToLaunch, SameRight, rows, livekit
    <2> QED
        BY <2>1, StutterKeepsRight DEF RightFollows
<1>2. CASE \/ \E c \in Conn : Handshake(c) \/ Register(c) \/ Unregister(c)
           \/ UNCHANGED vars
    BY <1>1, <1>2 DEF Handshake, Register, Unregister, vars
<1> QED
    BY <1>2, HandlerRights, TellRights, DeadlineRights, AnswerRights, ClientRights, PeopleRights
    DEF Next, Handler, Tell, Answer

\* The right LiveKit grants: likewise, with updates lost, late or overtaken and
\* tokens used again, in the ways MisleadsLiveKit lists and in no other.
THEOREM RightsAlwaysFollow == Spec => RightsFollow
<1>1. TypeOK /\ CopiesInv /\ [Next]_vars =>
         [\A p \in Participant : RightMisled(p)' /\ ~RightMisled(p) => MisleadsLiveKit(p)]_vars
    BY RightsStep DEF RightFollows
<1> QED
    BY <1>1, CopiesInvariant, PTL DEF Spec, RightsFollow

=============================================================================
