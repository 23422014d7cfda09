----------------------------- MODULE HubProofs -----------------------------
(***************************************************************************)
(* Theorems about RoomHub, for every set of connections and participants   *)
(* and all capacities: the types, and what keeps the hub's goroutine from  *)
(* panicking.  HubInv is inductive; the properties are read off it.        *)
(***************************************************************************)
EXTENDS RoomHub, TLAPS

USE RoomHubAssumption

-----------------------------------------------------------------------------
(* Types *)

\* What a delivery does to a well-typed send, whoever it goes to.
LEMMA DeliverType ==
    ASSUME TypeOK, NEW S, Deliver(S)
    PROVE  /\ send' \in [Conn -> 0 .. SendCap]
           /\ hub' \in {hub, Panicked}
BY DEF TypeOK, Deliver

LEMMA HandshakeType ==
    ASSUME TypeOK, NEW c \in Conn, Handler(c)
    PROVE  TypeOK'
<1>1. CASE Peers(c)
    BY <1>1 DEF Peers, Handles, TypeOK, table, queues, pumps, buffers, load
<1>2. CASE Announce(c)
    <2>1. send' \in [Conn -> 0 .. SendCap]
        <3>1. CASE send[c] < SendCap /\ send' = [send EXCEPT ![c] = @ + 1]
            <4>1. send[c] + 1 \in 0 .. SendCap
                BY <3>1 DEF TypeOK
            <4> QED
                BY <3>1, <4>1 DEF TypeOK
        <3>2. CASE send' = send
            BY <3>2 DEF TypeOK
        <3> QED
            BY <1>2, <3>1, <3>2 DEF Announce
    <2>2. PICK to \in {"done", "missed"} : Handles(c, "announce", to)
        BY <1>2 DEF Announce
    <2>3. handler' \in [Conn -> {"register", "peers", "announce", "done", "missed"}]
        BY <2>2 DEF Handles, TypeOK
    <2> QED
        BY <1>2, <2>1, <2>3 DEF Announce, TypeOK, table, queues, pumps, load
<1> QED
    BY <1>1, <1>2 DEF Handler

LEMMA ReaderType ==
    ASSUME TypeOK, NEW c \in Conn, NEW from,
           NEW to \in {"reading", "broadcast", "direct", "unregister", "left", "done"},
           Reads(c, from, to)
    PROVE  reader' \in [Conn -> {"none", "reading", "broadcast", "direct",
                                 "unregister", "left", "done"}]
BY DEF Reads, TypeOK

LEMMA PumpsType ==
    ASSUME TypeOK, NEW c \in Conn,
           Read(c) \/ Reader(c) \/ ReadFails(c) \/ Write(c) \/ WriterEnds(c)
    PROVE  TypeOK'
<1>1. CASE Read(c) \/ ReadFails(c)
    <2>1. PICK to \in {"broadcast", "direct", "unregister"} : Reads(c, "reading", to)
        BY <1>1 DEF Read, ReadFails
    <2>2. events' \in Nat
        BY <1>1 DEF Read, ReadFails, TypeOK, load
    <2> QED
        BY <1>1, <2>1, <2>2, ReaderType
        DEF Read, ReadFails, TypeOK, table, queues, buffers, load
<1>2. CASE Broadcast(c)
    <2>1. PICK from \in {"broadcast", "left"}, to \in {"reading", "done"} : Reads(c, from, to)
        BY <1>2 DEF Broadcast
    <2> QED
        BY <1>2, <2>1, ReaderType DEF Broadcast, TypeOK, table, buffers, load
<1>3. ASSUME NEW p \in Participant, SendTo(c, p)
      PROVE  TypeOK'
    <2>1. direct' \in Seq(Participant) /\ Len(direct') <= BufCap
        BY <1>3 DEF SendTo, TypeOK
    <2> QED
        BY <1>3, <2>1 DEF SendTo, Reads, TypeOK, table, buffers, load
<1>4. CASE Write(c)
    BY <1>4 DEF Write, TypeOK, table, queues, pumps, load
<1>5. CASE WriterEnds(c)
    BY <1>5 DEF WriterEnds, TypeOK, table, queues, buffers, load
<1> QED
    BY <1>1, <1>2, <1>3, <1>4, <1>5 DEF Reader

LEMMA HubType ==
    ASSUME TypeOK,
           Hub \/ \E c \in Conn : ReceiveRegister(c) \/ ReceiveUnregister(c)
    PROVE  TypeOK'
<1>1. ASSUME NEW c \in Conn, ReceiveRegister(c)
      PROVE  TypeOK'
    BY <1>1 DEF ReceiveRegister, Receive, Handles, TypeOK, queues, buffers, load
<1>2. ASSUME NEW c \in Conn, ReceiveUnregister(c)
      PROVE  TypeOK'
    BY <1>2 DEF ReceiveUnregister, Receive, Reads, TypeOK, queues, buffers, load
<1>3. ASSUME NEW c \in Conn, Insert(c)
      PROVE  TypeOK'
    BY <1>3 DEF Insert, TypeOK, queues, pumps, buffers, load
<1>4. ASSUME NEW c \in Conn, Remove(c)
      PROVE  TypeOK'
    BY <1>4 DEF Remove, TypeOK, queues, pumps, load
<1>5. CASE HubBroadcast
    <2>1. send' \in [Conn -> 0 .. SendCap] /\ hub' \in {hub, Panicked}
        BY <1>5, DeliverType DEF HubBroadcast
    <2> QED
        BY <1>5, <2>1 DEF HubBroadcast, TypeOK, pumps, load
<1>6. CASE HubDirect
    <2>1. send' \in [Conn -> 0 .. SendCap] /\ hub' \in {hub, Panicked}
        BY <1>6, DeliverType DEF HubDirect
    <2>2. direct' \in Seq(Participant) /\ Len(direct') <= BufCap
        BY <1>6 DEF HubDirect, TypeOK
    <2> QED
        BY <1>6, <2>1, <2>2 DEF HubDirect, TypeOK, pumps, load
<1> QED
    BY <1>1, <1>2, <1>3, <1>4, <1>5, <1>6 DEF Hub

\* The channels keep to their capacities and the goroutines to their stages, for
\* any number of connections.
THEOREM HubTypeCorrect == Spec => []TypeOK
<1>1. Init => TypeOK
    BY DEF Init, TypeOK
<1>2. TypeOK /\ [Next]_vars => TypeOK'
    <2> SUFFICES ASSUME TypeOK, [Next]_vars
                 PROVE  TypeOK'
        OBVIOUS
    <2>1. CASE Post \/ PostProceeds
        BY <2>1 DEF Post, PostProceeds, TypeOK, table, queues, pumps, buffers
    <2>2. CASE UNCHANGED vars
        BY <2>2 DEF TypeOK, vars, table, queues, pumps, buffers, load
    <2> QED
        BY <2>1, <2>2, HandshakeType, PumpsType, HubType DEF Next
<1> QED
    BY <1>1, <1>2, PTL DEF Spec

-----------------------------------------------------------------------------
(* The inductive invariant *)

\* The read pump runs and has not handed its connection over yet.
Alive(c) == reader[c] \in {"reading", "broadcast", "direct", "unregister"}

\* The table holds connections under their own participants, with channels not
\* closed; a dead one only while the hub is about to remove it.
PlacedAreOpen ==
    \A p \in Participant :
       conns[p] # Null =>
          /\ Of[conns[p]] = p
          /\ open[conns[p]]
          /\ Alive(conns[p]) \/ hub = [at |-> "remove", conn |-> conns[p]]

\* A channel is closed only after its connection unregistered, and a connection
\* that unregisters had registered before.
ClosedAreGone == \A c \in Conn : ~open[c] => Unregistered(c)

NotRegistered == \A c \in Conn : handler[c] = "register" => reader[c] = "none"

InHand ==
    \A c \in Conn :
       /\ hub = [at |-> "insert", conn |-> c] => Alive(c)
       /\ hub = [at |-> "remove", conn |-> c] => Unregistered(c)

HubInv == HubNeverPanics /\ PlacedAreOpen /\ ClosedAreGone /\ NotRegistered /\ InHand

\* Nothing in HubInv depends on the queues, the write pumps or what was told.
LEMMA PumpStepsPreserve ==
    ASSUME TypeOK, HubInv, NEW c \in Conn,
           Handler(c) \/ Read(c) \/ Reader(c) \/ ReadFails(c) \/ Write(c) \/ WriterEnds(c)
    PROVE  HubInv'
<1>1. hub' = hub /\ conns' = conns /\ open' = open
    BY DEF Handler, Peers, Announce, Read, Reader, Broadcast, SendTo, ReadFails,
           Write, WriterEnds, table, buffers
<1>2. \A d \in Conn : /\ Alive(d) => Alive(d)'
                      /\ Unregistered(d) => Unregistered(d)'
                      /\ reader[d] = "none" => reader'[d] = "none"
    <2>1. reader' = reader \/ Read(c) \/ Reader(c) \/ ReadFails(c)
        BY DEF Handler, Peers, Announce, Write, WriterEnds, pumps
    <2>2. \/ reader' = reader
          \/ Reads(c, "reading", "broadcast") \/ Reads(c, "reading", "direct")
          \/ Reads(c, "broadcast", "reading") \/ Reads(c, "direct", "reading")
          \/ Reads(c, "left", "done") \/ Reads(c, "reading", "unregister")
        BY <2>1 DEF Read, Reader, Broadcast, SendTo, ReadFails
    <2> QED
        BY <2>2 DEF Reads, Alive, Unregistered, TypeOK
<1>3. \A d \in Conn : handler'[d] = "register" => handler[d] = "register"
    BY DEF Handler, Peers, Announce, Handles, Read, Reader, Broadcast, SendTo,
           ReadFails, Write, WriterEnds, TypeOK
<1>4. PlacedAreOpen'
    BY <1>1, <1>2 DEF HubInv, PlacedAreOpen, TypeOK
<1>5. ClosedAreGone' /\ NotRegistered' /\ InHand' /\ HubNeverPanics'
    BY <1>1, <1>2, <1>3
    DEF HubInv, ClosedAreGone, NotRegistered, InHand, HubNeverPanics, Panicked
<1> QED
    BY <1>4, <1>5 DEF HubInv

LEMMA RegisterPreserves ==
    ASSUME TypeOK, HubInv, NEW c \in Conn, ReceiveRegister(c)
    PROVE  HubInv'
<1>1. /\ hub = Selecting /\ hub' = [at |-> "insert", conn |-> c]
      /\ conns' = conns /\ open' = open
      /\ handler[c] = "register" /\ handler' = [handler EXCEPT ![c] = "peers"]
      /\ reader[c] = "none" /\ reader' = [reader EXCEPT ![c] = "reading"]
    BY DEF ReceiveRegister, Receive, Handles, buffers, HubInv, NotRegistered
<1>2. PlacedAreOpen'
    <2> SUFFICES ASSUME NEW p \in Participant, conns[p] # Null
                 PROVE  Of[conns[p]] = p /\ open[conns[p]] /\ Alive(conns[p])'
        BY <1>1 DEF PlacedAreOpen
    <2>1. conns[p] \in Conn
        BY DEF TypeOK
    <2>2. Of[conns[p]] = p /\ open[conns[p]] /\ Alive(conns[p])
        BY <1>1 DEF HubInv, PlacedAreOpen, Selecting
    <2> QED
        BY <1>1, <2>1, <2>2 DEF Alive, TypeOK
<1>3. ClosedAreGone' /\ NotRegistered'
    BY <1>1 DEF HubInv, ClosedAreGone, NotRegistered, Unregistered, TypeOK
<1>4. InHand' /\ HubNeverPanics'
    BY <1>1 DEF InHand, HubNeverPanics, Panicked, Alive, TypeOK
<1> QED
    BY <1>2, <1>3, <1>4 DEF HubInv

LEMMA UnregisterPreserves ==
    ASSUME TypeOK, HubInv, NEW c \in Conn, ReceiveUnregister(c)
    PROVE  HubInv'
<1>1. /\ hub = Selecting /\ hub' = [at |-> "remove", conn |-> c]
      /\ conns' = conns /\ open' = open /\ handler' = handler
      /\ reader[c] = "unregister" /\ reader' = [reader EXCEPT ![c] = "left"]
    BY DEF ReceiveUnregister, Receive, Reads, buffers
<1>2. PlacedAreOpen'
    <2> SUFFICES ASSUME NEW p \in Participant, conns[p] # Null
                 PROVE  /\ Of[conns[p]] = p /\ open[conns[p]]
                        /\ Alive(conns[p])' \/ hub' = [at |-> "remove", conn |-> conns[p]]
        BY <1>1 DEF PlacedAreOpen
    <2>1. conns[p] \in Conn
        BY DEF TypeOK
    <2>2. Of[conns[p]] = p /\ open[conns[p]] /\ Alive(conns[p])
        BY <1>1 DEF HubInv, PlacedAreOpen, Selecting
    <2> QED
        BY <1>1, <2>1, <2>2 DEF Alive, TypeOK
<1>3. ClosedAreGone' /\ NotRegistered'
    BY <1>1 DEF HubInv, ClosedAreGone, NotRegistered, Unregistered, TypeOK
<1>4. InHand' /\ HubNeverPanics'
    BY <1>1 DEF InHand, HubNeverPanics, Panicked, Unregistered, TypeOK
<1> QED
    BY <1>2, <1>3, <1>4 DEF HubInv

\* The connection that goes into the table is alive, so its channel is open.
LEMMA InsertPreserves ==
    ASSUME TypeOK, HubInv, NEW c \in Conn, Insert(c)
    PROVE  HubInv'
<1>1. /\ hub = [at |-> "insert", conn |-> c] /\ hub' = Selecting
      /\ conns' = [conns EXCEPT ![Of[c]] = c]
      /\ open' = open /\ reader' = reader /\ handler' = handler
    BY DEF Insert, pumps, buffers
<1>2. Alive(c) /\ open[c]
    BY <1>1 DEF HubInv, InHand, ClosedAreGone, Alive, Unregistered
<1>3. PlacedAreOpen'
    <2> SUFFICES ASSUME NEW p \in Participant, conns'[p] # Null
                 PROVE  Of[conns'[p]] = p /\ open[conns'[p]] /\ Alive(conns'[p])
        BY <1>1 DEF PlacedAreOpen, Alive
    <2>1. CASE p = Of[c]
        BY <1>1, <1>2, <2>1 DEF TypeOK
    <2>2. CASE p # Of[c]
        BY <1>1, <2>2 DEF HubInv, PlacedAreOpen, TypeOK
    <2> QED
        BY <2>1, <2>2
<1>4. ClosedAreGone' /\ NotRegistered' /\ InHand' /\ HubNeverPanics'
    BY <1>1 DEF HubInv, ClosedAreGone, NotRegistered, InHand, HubNeverPanics,
                Panicked, Selecting, Unregistered
<1> QED
    BY <1>3, <1>4 DEF HubInv

\* A connection still in the table has its channel open, so it is closed once.
LEMMA RemovePreserves ==
    ASSUME TypeOK, HubInv, NEW c \in Conn, Remove(c)
    PROVE  HubInv'
<1>1. /\ hub = [at |-> "remove", conn |-> c]
      /\ reader' = reader /\ handler' = handler
    BY DEF Remove, pumps
<1>2. Unregistered(c)
    BY <1>1 DEF HubInv, InHand
<1>3. CASE conns[Of[c]] = c
    <2>1. open[c]
        BY <1>3 DEF HubInv, PlacedAreOpen
    <2>2. /\ conns' = [conns EXCEPT ![Of[c]] = Null]
          /\ open' = [open EXCEPT ![c] = FALSE] /\ hub' = Selecting
        BY <1>3, <2>1 DEF Remove
    <2>3. PlacedAreOpen'
        <3> SUFFICES ASSUME NEW p \in Participant, conns'[p] # Null
                     PROVE  Of[conns'[p]] = p /\ open'[conns'[p]] /\ Alive(conns'[p])
            BY <1>1 DEF PlacedAreOpen, Alive
        <3>1. p # Of[c] /\ conns'[p] = conns[p] /\ conns[p] \in Conn
            BY <2>2 DEF TypeOK
        <3>2. Of[conns[p]] = p /\ open[conns[p]] /\ conns[p] # c
            BY <3>1 DEF HubInv, PlacedAreOpen
        <3>3. Alive(conns[p])
            BY <1>1, <3>1, <3>2 DEF HubInv, PlacedAreOpen
        <3> QED
            BY <2>2, <3>1, <3>2, <3>3 DEF TypeOK
    <2>4. ClosedAreGone'
        BY <1>1, <1>2, <2>2 DEF HubInv, ClosedAreGone, Unregistered, TypeOK
    <2>5. NotRegistered' /\ InHand' /\ HubNeverPanics'
        BY <1>1, <2>2 DEF HubInv, NotRegistered, InHand, HubNeverPanics, Panicked, Selecting
    <2> QED
        BY <2>3, <2>4, <2>5 DEF HubInv
<1>4. CASE conns[Of[c]] # c
    <2>1. conns' = conns /\ open' = open /\ hub' = Selecting
        BY <1>4 DEF Remove
    <2>2. PlacedAreOpen'
        <3> SUFFICES ASSUME NEW p \in Participant, conns[p] # Null
                     PROVE  Of[conns[p]] = p /\ open[conns[p]] /\ Alive(conns[p])
            BY <1>1, <2>1 DEF PlacedAreOpen, Alive
        <3> QED
            BY <1>1, <1>4 DEF HubInv, PlacedAreOpen
    <2>3. ClosedAreGone' /\ NotRegistered' /\ InHand' /\ HubNeverPanics'
        BY <1>1, <2>1 DEF HubInv, ClosedAreGone, NotRegistered, InHand, HubNeverPanics,
                          Panicked, Selecting, Unregistered
    <2> QED
        BY <2>2, <2>3 DEF HubInv
<1> QED
    BY <1>3, <1>4

\* A delivery goes to connections in the table, whose channels are open.
LEMMA DeliveriesPreserve ==
    ASSUME TypeOK, HubInv, HubBroadcast \/ HubDirect
    PROVE  HubInv'
<1>1. /\ conns' = conns /\ open' = open /\ reader' = reader /\ handler' = handler
    BY DEF HubBroadcast, HubDirect, pumps
<1>2. \A p \in Participant : conns[p] # Null => open[conns[p]]
    BY DEF HubInv, PlacedAreOpen
<1>3. hub' = hub
    <2>1. CASE HubBroadcast
        BY <1>2, <2>1 DEF HubBroadcast, Deliver
    <2>2. CASE HubDirect
        <3>1. Head(direct) \in Participant
            BY <2>2 DEF HubDirect, TypeOK
        <3> QED
            BY <1>2, <2>2, <3>1 DEF HubDirect, Deliver
    <2> QED
        BY <2>1, <2>2
<1> QED
    BY <1>1, <1>3 DEF HubInv, HubNeverPanics, Panicked, PlacedAreOpen, ClosedAreGone,
                      NotRegistered, InHand, Alive, Unregistered

LEMMA HubInvInductive ==
    ASSUME TypeOK, HubInv, [Next]_vars
    PROVE  HubInv'
<1>1. CASE Post \/ PostProceeds \/ UNCHANGED vars
    <2>1. UNCHANGED <<hub, conns, open, reader, handler>>
        BY <1>1 DEF Post, PostProceeds, vars, table, pumps, buffers
    <2> QED
        BY <2>1 DEF HubInv, HubNeverPanics, Panicked, PlacedAreOpen, ClosedAreGone,
                    NotRegistered, InHand, Alive, Unregistered
<1>2. CASE Hub
    BY <1>2, InsertPreserves, RemovePreserves, DeliveriesPreserve DEF Hub
<1> QED
    BY <1>1, <1>2, PumpStepsPreserve, RegisterPreserves, UnregisterPreserves DEF Next

\* HubInv holds throughout: whatever is in the table has an open channel, and
\* only the hub's next step separates it from its connection's life.
THEOREM HubInvariant == Spec => []HubInv
<1>1. Init => HubInv
    BY DEF Init, HubInv, HubNeverPanics, Panicked, Selecting, PlacedAreOpen,
           ClosedAreGone, NotRegistered, InHand
<1> QED
    BY <1>1, HubInvInductive, HubTypeCorrect, PTL DEF Spec

-----------------------------------------------------------------------------

\* The hub's goroutine never sends on a closed channel and closes none twice,
\* however many connections a participant opens and in whatever order they end.
THEOREM NeverPanics == Spec => []HubNeverPanics
<1>1. HubInv => HubNeverPanics
    BY DEF HubInv
<1> QED
    BY <1>1, HubInvariant, PTL

\* No connection that has unregistered is in the table when the hub selects.
THEOREM NoDeadEntries == Spec => []NoDeadEntry
<1>1. ASSUME HubInv, hub = Selecting, NEW p \in Participant, conns[p] # Null
      PROVE  ~Unregistered(conns[p])
    <2>1. Alive(conns[p])
        BY <1>1 DEF HubInv, PlacedAreOpen, Selecting
    <2> QED
        BY <2>1 DEF Alive, Unregistered
<1>2. HubInv => NoDeadEntry
    BY <1>1 DEF NoDeadEntry
<1> QED
    BY <1>2, HubInvariant, PTL

\* A connection leaves the table on its own unregister or for a newer one of the
\* same participant, never by the late unregister of an older one.
THEOREM EntriesAreKept == Spec => EntryKept
<1>1. ASSUME TypeOK, HubInv, [Next]_vars, NEW p \in Participant,
             conns[p] # Null, conns'[p] # conns[p]
      PROVE  \/ conns'[p] = Null /\ Unregistered(conns[p])
             \/ conns'[p] # Null /\ Of[conns'[p]] = p
    <2>1. PICK c \in Conn : Insert(c) \/ Remove(c)
        BY <1>1 DEF Next, Handler, Peers, Announce, Read, Reader, Broadcast, SendTo,
                    ReadFails, Write, WriterEnds, ReceiveRegister, ReceiveUnregister,
                    Hub, HubBroadcast, HubDirect, Post, PostProceeds, vars, table
    <2>2. CASE Insert(c)
        BY <1>1, <2>2 DEF Insert, TypeOK
    <2>3. CASE Remove(c)
        <3>1. conns[Of[c]] = c /\ conns' = [conns EXCEPT ![Of[c]] = Null]
            BY <1>1, <2>3 DEF Remove
        <3>2. p = Of[c] /\ conns'[p] = Null
            BY <1>1, <3>1 DEF TypeOK
        <3>3. Unregistered(c)
            BY <1>1, <2>3 DEF Remove, HubInv, InHand
        <3> QED
            BY <3>1, <3>2, <3>3
    <2> QED
        BY <2>1, <2>2, <2>3
<1>2. TypeOK /\ HubInv /\ [Next]_vars =>
         [\A p \in Participant :
             LET c == conns[p] IN
             c # Null /\ conns'[p] # c =>
                \/ conns'[p] = Null /\ Unregistered(c)
                \/ conns'[p] # Null /\ Of[conns'[p]] = p]_vars
    BY <1>1
<1> QED
    BY <1>2, HubInvariant, HubTypeCorrect, PTL DEF Spec, EntryKept

-----------------------------------------------------------------------------
(* The hub implements the table of module Directory *)

\* Who stands where changes only when the hub acts on a connection.
LEMMA StandingStutters ==
    ASSUME TypeOK, HubInv, [Next]_vars, \A c \in Conn : ~Insert(c) /\ ~Remove(c)
    PROVE  conns' = conns /\ \A d \in Conn : Standing(d)' = Standing(d)
<1>1. ASSUME NEW c \in Conn, ReceiveRegister(c)
      PROVE  conns' = conns /\ \A d \in Conn : Standing(d)' = Standing(d)
    <2>1. /\ hub = Selecting /\ hub' = [at |-> "insert", conn |-> c] /\ conns' = conns
          /\ handler[c] = "register" /\ handler' = [handler EXCEPT ![c] = "peers"]
          /\ reader' = [reader EXCEPT ![c] = "reading"]
        BY <1>1 DEF ReceiveRegister, Receive, Handles
    <2> QED
        BY <2>1 DEF Standing, Unregistered, Selecting, TypeOK
<1>2. ASSUME NEW c \in Conn, ReceiveUnregister(c)
      PROVE  conns' = conns /\ \A d \in Conn : Standing(d)' = Standing(d)
    <2>1. /\ hub = Selecting /\ hub' = [at |-> "remove", conn |-> c] /\ conns' = conns
          /\ handler' = handler
          /\ reader[c] = "unregister" /\ reader' = [reader EXCEPT ![c] = "left"]
        BY <1>2 DEF ReceiveUnregister, Receive, Reads
    <2>2. handler[c] # "register"
        BY <2>1 DEF HubInv, NotRegistered
    <2> QED
        BY <2>1, <2>2 DEF Standing, Unregistered, Selecting, TypeOK
<1>3. ASSUME hub' \in {hub, Panicked} /\ (hub' # hub => hub = Selecting), conns' = conns,
             \A d \in Conn : /\ Unregistered(d)' <=> Unregistered(d)
                             /\ handler'[d] = "register" <=> handler[d] = "register"
      PROVE  conns' = conns /\ \A d \in Conn : Standing(d)' = Standing(d)
    BY <1>3 DEF Standing, Selecting, Panicked
<1>4. ASSUME NEW c \in Conn,
             Handler(c) \/ Read(c) \/ Reader(c) \/ ReadFails(c) \/ Write(c) \/ WriterEnds(c)
      PROVE  conns' = conns /\ \A d \in Conn : Standing(d)' = Standing(d)
    <2>1. hub' = hub /\ conns' = conns
        BY <1>4 DEF Handler, Peers, Announce, Read, Reader, Broadcast, SendTo, ReadFails,
                    Write, WriterEnds, table
    <2>2. \/ reader' = reader
          \/ Reads(c, "reading", "broadcast") \/ Reads(c, "reading", "direct")
          \/ Reads(c, "broadcast", "reading") \/ Reads(c, "direct", "reading")
          \/ Reads(c, "left", "done") \/ Reads(c, "reading", "unregister")
        BY <1>4 DEF Handler, Peers, Announce, Write, WriterEnds, pumps,
                    Read, Reader, Broadcast, SendTo, ReadFails
    <2>3. \A d \in Conn : Unregistered(d)' <=> Unregistered(d)
        BY <2>2 DEF Reads, Unregistered, TypeOK
    <2>4. \/ handler' = handler \/ Handles(c, "peers", "announce")
          \/ Handles(c, "announce", "done") \/ Handles(c, "announce", "missed")
        BY <1>4 DEF Handler, Peers, Announce, Write, WriterEnds,
                    Read, Reader, Broadcast, SendTo, ReadFails
    <2>5. \A d \in Conn : handler'[d] = "register" <=> handler[d] = "register"
        BY <2>4 DEF Handles, TypeOK
    <2> QED
        BY <1>3, <2>1, <2>3, <2>5
<1>5. CASE HubBroadcast \/ HubDirect \/ Post \/ PostProceeds \/ UNCHANGED vars
    <2>1. UNCHANGED <<conns, reader, handler>>
        BY <1>5 DEF HubBroadcast, HubDirect, Post, PostProceeds, vars, table, pumps
    <2>2. hub' \in {hub, Panicked} /\ (hub' # hub => hub = Selecting)
        BY <1>5 DEF HubBroadcast, HubDirect, Deliver, Post, PostProceeds, vars, table
    <2> QED
        BY <1>3, <2>1, <2>2 DEF Unregistered
<1> QED
    BY <1>1, <1>2, <1>4, <1>5 DEF Next, Hub

LEMMA InsertArrives ==
    ASSUME TypeOK, HubInv, NEW c \in Conn, Insert(c)
    PROVE  Table!Arrive(c)
<1>1. /\ hub = [at |-> "insert", conn |-> c] /\ hub' = Selecting
      /\ conns' = [conns EXCEPT ![Of[c]] = c] /\ reader' = reader /\ handler' = handler
    BY DEF Insert, pumps
<1>2. Standing(c) = "away"
    BY <1>1 DEF Standing
<1>3. handler[c] # "register" /\ ~Unregistered(c)
    BY <1>1 DEF HubInv, InHand, NotRegistered, Alive, Unregistered
<1>4. Standing(c)' = "here"
    BY <1>1, <1>3 DEF Standing, Selecting, Unregistered
<1>5. \A d \in Conn : d # c => Standing(d)' = Standing(d)
    BY <1>1 DEF Standing, Selecting, Unregistered
<1> QED
    BY <1>1, <1>2, <1>4, <1>5 DEF Table!Arrive

LEMMA RemoveDeparts ==
    ASSUME TypeOK, HubInv, NEW c \in Conn, Remove(c)
    PROVE  Table!Depart(c)
<1>1. /\ hub = [at |-> "remove", conn |-> c] /\ reader' = reader /\ handler' = handler
    BY DEF Remove, pumps
<1>2. Unregistered(c) /\ handler[c] # "register"
    BY <1>1 DEF HubInv, InHand, NotRegistered, Unregistered
<1>3. hub' \in {Selecting, Panicked}
    BY DEF Remove
<1>4. conns' = [conns EXCEPT ![Of[c]] = IF @ = c THEN Null ELSE @]
    BY DEF Remove, TypeOK
<1>5. Standing(c) = "here" /\ Standing(c)' = "gone"
    BY <1>1, <1>2, <1>3 DEF Standing, Selecting, Panicked, Unregistered
<1>6. \A d \in Conn : d # c => Standing(d)' = Standing(d)
    BY <1>1, <1>3 DEF Standing, Selecting, Panicked, Unregistered
<1> QED
    BY <1>4, <1>5, <1>6 DEF Table!Depart

\* For those who use it the hub is the table of module Directory: its rendezvous,
\* the handshake's goroutine and the entry it is late to write, and the queues are
\* steps nobody sees, and each insert and remove is one arrival or departure.
THEOREM HubImplementsDirectory == Spec => ImplementsDirectory
<1>1. Init => Table!Init
    BY DEF Init, Table!Init, Standing
<1>2. TypeOK /\ HubInv /\ [Next]_vars => [Table!Next]_<<[c \in Conn |-> Standing(c)], conns>>
    <2> SUFFICES ASSUME TypeOK, HubInv, [Next]_vars
                 PROVE  Table!Next \/ UNCHANGED <<[c \in Conn |-> Standing(c)], conns>>
        OBVIOUS
    <2>1. CASE \A c \in Conn : ~Insert(c) /\ ~Remove(c)
        <3>1. conns' = conns /\ \A d \in Conn : Standing(d)' = Standing(d)
            BY <2>1, StandingStutters
        <3> QED
            BY <3>1
    <2>2. ASSUME NEW c \in Conn, Insert(c) \/ Remove(c)
          PROVE  Table!Next
        BY <2>2, InsertArrives, RemoveDeparts DEF Table!Next
    <2> QED
        BY <2>1, <2>2
<1> QED
    BY <1>1, <1>2, HubInvariant, HubTypeCorrect, PTL DEF Spec, ImplementsDirectory, Table!Spec

-----------------------------------------------------------------------------
(* The mesh *)

\* The handshake of c has listed its peers.
Listed(c) == handler[c] \in {"announce", "done", "missed"}

\* Whom a connection lists that has registered, but is not in the table yet: all
\* that are, as the table does not change before it is in.
ListsAll ==
    \A c \in Conn :
       hub = [at |-> "insert", conn |-> c] /\ Listed(c) =>
          told[c] = {p \in Participant \ {Of[c]} : conns[p] # Null}

OneLists ==
    \A p, q \in Participant :
       p # q /\ conns[p] # Null /\ conns[q] # Null /\ Listed(conns[p]) /\ Listed(conns[q])
          => p \in told[conns[q]] \/ q \in told[conns[p]]

MeshInv == ListsAll /\ OneLists

LEMMA PeersMesh ==
    ASSUME TypeOK, HubInv, MeshInv, NEW c \in Conn, Peers(c)
    PROVE  MeshInv'
<1>1. /\ handler[c] = "peers" /\ handler' = [handler EXCEPT ![c] = "announce"]
      /\ told' = [told EXCEPT ![c] = {p \in Participant \ {Of[c]} : conns[p] # Null}]
      /\ hub' = hub /\ conns' = conns
    BY DEF Peers, Handles, table
<1>2. /\ told'[c] = {p \in Participant \ {Of[c]} : conns[p] # Null}
      /\ \A d \in Conn : d # c => told'[d] = told[d] /\ (Listed(d)' <=> Listed(d))
    BY <1>1 DEF Listed, TypeOK
<1>3. ListsAll'
    BY <1>1, <1>2 DEF MeshInv, ListsAll
<1>4. OneLists'
    <2> SUFFICES ASSUME NEW p \in Participant, NEW q \in Participant, p # q,
                        conns[p] # Null, conns[q] # Null,
                        Listed(conns[p])', Listed(conns[q])'
                 PROVE  p \in told'[conns[q]] \/ q \in told'[conns[p]]
        BY <1>1 DEF OneLists
    <2>1. conns[p] \in Conn /\ conns[q] \in Conn /\ Of[conns[p]] = p /\ Of[conns[q]] = q
        BY DEF TypeOK, HubInv, PlacedAreOpen
    <2>2. CASE conns[p] = c
        BY <1>2, <2>1, <2>2
    <2>3. CASE conns[q] = c
        BY <1>2, <2>1, <2>3
    <2>4. CASE conns[p] # c /\ conns[q] # c
        BY <1>1, <1>2, <2>1, <2>4 DEF MeshInv, OneLists
    <2> QED
        BY <2>2, <2>3, <2>4
<1> QED
    BY <1>3, <1>4 DEF MeshInv

\* A connection that goes into the table has listed those in it, or has still to.
LEMMA InsertMesh ==
    ASSUME TypeOK, HubInv, MeshInv, NEW c \in Conn, Insert(c)
    PROVE  MeshInv'
<1>1. /\ hub = [at |-> "insert", conn |-> c] /\ hub' = Selecting
      /\ conns' = [conns EXCEPT ![Of[c]] = c] /\ handler' = handler /\ told' = told
    BY DEF Insert
<1>2. ListsAll'
    BY <1>1 DEF ListsAll, Selecting
<1>3. OneLists'
    <2> SUFFICES ASSUME NEW p \in Participant, NEW q \in Participant, p # q,
                        conns'[p] # Null, conns'[q] # Null,
                        Listed(conns'[p]), Listed(conns'[q])
                 PROVE  p \in told[conns'[q]] \/ q \in told[conns'[p]]
        BY <1>1 DEF OneLists, Listed
    <2>1. /\ conns'[Of[c]] = c
          /\ \A o \in Participant : o # Of[c] => conns'[o] = conns[o]
        BY <1>1 DEF TypeOK
    <2>2. CASE p = Of[c]
        BY <1>1, <2>1, <2>2 DEF MeshInv, ListsAll
    <2>3. CASE q = Of[c]
        BY <1>1, <2>1, <2>3 DEF MeshInv, ListsAll
    <2>4. CASE p # Of[c] /\ q # Of[c]
        BY <2>1, <2>4 DEF MeshInv, OneLists
    <2> QED
        BY <2>2, <2>3, <2>4
<1> QED
    BY <1>2, <1>3 DEF MeshInv

\* The other steps list nobody, and only take entries away.
LEMMA OthersMesh ==
    ASSUME TypeOK, HubInv, MeshInv, [Next]_vars, \A c \in Conn : ~Peers(c) /\ ~Insert(c)
    PROVE  MeshInv'
<1>1. told' = told
    BY DEF Next, Handler, Announce, Read, Reader, Broadcast, SendTo, ReadFails, Write,
           WriterEnds, ReceiveRegister, ReceiveUnregister, Hub, Remove, HubBroadcast,
           HubDirect, Post, PostProceeds, vars, load
<1>2. \A d \in Conn : Listed(d)' => Listed(d)
    <2>1. \/ handler' = handler
          \/ \E c \in Conn : \/ Handles(c, "register", "peers")
                            \/ Handles(c, "announce", "done")
                            \/ Handles(c, "announce", "missed")
        BY DEF Next, Handler, Announce, Read, Reader, Broadcast, SendTo, ReadFails, Write,
               WriterEnds, ReceiveRegister, ReceiveUnregister, Hub, Remove, HubBroadcast,
               HubDirect, Post, PostProceeds, vars
    <2> QED
        BY <2>1 DEF Handles, Listed, TypeOK
<1>3. \A p \in Participant : conns'[p] # Null => conns'[p] = conns[p]
    <2>1. conns' = conns \/ \E c \in Conn : conns' = [conns EXCEPT ![Of[c]] = Null]
        BY DEF Next, Handler, Announce, Read, Reader, Broadcast, SendTo, ReadFails, Write,
               WriterEnds, ReceiveRegister, ReceiveUnregister, Hub, Remove, HubBroadcast,
               HubDirect, Post, PostProceeds, vars, table
    <2> QED
        BY <2>1 DEF TypeOK
<1>4. OneLists'
    BY <1>1, <1>2, <1>3 DEF MeshInv, OneLists, TypeOK
<1>5. \A c \in Conn : hub' = [at |-> "insert", conn |-> c] =>
          \/ hub = hub' /\ conns' = conns
          \/ handler'[c] = "peers"
    <2>1. CASE hub' = hub /\ conns' = conns
        BY <2>1
    <2>2. CASE \E c \in Conn : ReceiveRegister(c)
        <3>1. PICK c \in Conn : ReceiveRegister(c)
            BY <2>2
        <3>2. hub' = [at |-> "insert", conn |-> c] /\ handler'[c] = "peers"
            BY <3>1 DEF ReceiveRegister, Receive, Handles, TypeOK
        <3> QED
            BY <3>2
    <2>3. CASE hub' \in {Selecting, Panicked} \/ \E c \in Conn : hub' = [at |-> "remove", conn |-> c]
        <3>1. hub'.at # "insert"
            BY <2>3 DEF Selecting, Panicked
        <3> QED
            BY <3>1
    <2> QED
        BY <2>1, <2>2, <2>3
        DEF Next, Handler, Announce, Read, Reader, Broadcast, SendTo, ReadFails, Write,
            WriterEnds, ReceiveUnregister, Receive, Hub, Remove, HubBroadcast, HubDirect,
            Deliver, Post, PostProceeds, vars, table
<1>6. ListsAll'
    BY <1>1, <1>2, <1>5 DEF MeshInv, ListsAll, Listed
<1> QED
    BY <1>4, <1>6 DEF MeshInv

\* Of any two participants in place whose announcements were sent, one was told of
\* the other, for any number of participants and connections.
THEOREM MeshIsComplete == Spec => []MeshComplete
<1>1. Init => MeshInv
    BY DEF Init, MeshInv, ListsAll, OneLists, Selecting
<1>2. TypeOK /\ HubInv /\ MeshInv /\ [Next]_vars => MeshInv'
    BY PeersMesh, InsertMesh, OthersMesh
<1>3. MeshInv /\ TypeOK => MeshComplete
    BY DEF MeshInv, OneLists, MeshComplete, Listed
<1> QED
    BY <1>1, <1>2, <1>3, HubInvariant, HubTypeCorrect, PTL DEF Spec

=============================================================================
