------------------------------ MODULE RoomHub ------------------------------
(***************************************************************************)
(* One room's hub and the connections it serves.  The hub is one goroutine *)
(* in a select over four channels: register and unregister are unbuffered  *)
(* (the caller and the hub meet), broadcast and direct are buffered.  A    *)
(* connection has three goroutines: the HTTP handler of its handshake, the *)
(* read pump, whose end runs the close handler, and the write pump, which  *)
(* empties the connection's send channel onto the socket.                  *)
(*                                                                         *)
(* What an event says is left out: a broadcast is a token, a direct event  *)
(* the participant it is for, and a send channel the number of messages in *)
(* it.  The close handler's LeaveRoom is module RoomService's business.    *)
(***************************************************************************)
EXTENDS Naturals, Sequences, FiniteSets

CONSTANTS
    Conn,         \* BOUND: the connections ever made to the room
    Participant,
    Of,           \* Of[c]: the ParticipantID connection c was authenticated for
    Null,         \* no connection
    BufCap,       \* the capacity of broadcast and direct: 64
    SendCap,      \* the capacity of a connection's send channel: 32
    MaxEvents     \* BOUND: events clients and REST handlers send in all

ASSUME RoomHubAssumption ==
    /\ Of \in [Conn -> Participant]
    /\ Null \notin Conn
    /\ BufCap \in Nat \ {0} /\ SendCap \in Nat \ {0} /\ MaxEvents \in Nat

VARIABLES
    hub,        \* where the hub's goroutine stands, and the connection it has received
    conns,      \* h.conns
    broadcast,  \* how many events are in h.broadcast
    direct,     \* whom the events in h.direct are for
    handler,    \* handler[c]: where the handshake's handler stands
    reader,     \* reader[c]: the read pump, its close handler included
    writer,     \* writer[c]: the write pump
    send,       \* send[c]: how many messages are in c.send
    open,       \* open[c]: c.send has not been closed
    told,       \* told[c]: the other participants in c's PEERS_ANNOUNCE
    posts,      \* REST handlers in BroadcastToRoom
    events      \* events sent so far

table == <<hub, conns>>
queues == <<broadcast, direct>>
pumps == <<reader, writer>>
buffers == <<send, open>>
load == <<posts, events>>
vars == <<table, queues, handler, pumps, buffers, told, load>>

Selecting == [at |-> "select", conn |-> Null]

Init ==
    /\ hub = Selecting
    /\ conns = [p \in Participant |-> Null]
    /\ broadcast = 0 /\ direct = <<>>
    /\ handler = [c \in Conn |-> "register"]
    /\ reader = [c \in Conn |-> "none"] /\ writer = [c \in Conn |-> "none"]
    /\ send = [c \in Conn |-> 0] /\ open = [c \in Conn |-> TRUE]
    /\ told = [c \in Conn |-> {}]
    /\ posts = 0 /\ events = 0

-----------------------------------------------------------------------------
(* The handler of the handshake: Register, Start, then PEERS_ANNOUNCE.     *)
(* "register": not upgraded yet, or waiting for the hub.                   *)

Handles(c, from, to) == handler[c] = from /\ handler' = [handler EXCEPT ![c] = to]

\* Mutation: only those whose own handshake is over are listed.
PeersReady(c) ==
    /\ Handles(c, "peers", "announce")
    /\ told' = [told EXCEPT ![c] =
                  {p \in Participant \ {Of[c]} : conns[p] # Null /\ handler[conns[p]] = "done"}]
    /\ UNCHANGED <<table, queues, pumps, buffers, load>>

\* Of the others in h.conns: whether c's own id is there already tells a client
\* nothing.
Peers(c) ==
    /\ Handles(c, "peers", "announce")
    /\ told' = [told EXCEPT ![c] = {p \in Participant \ {Of[c]} : conns[p] # Null}]
    /\ UNCHANGED <<table, queues, pumps, buffers, load>>

\* Send never blocks: with its buffer full the message is dropped.  On a channel
\* the hub has closed by now it panics, and the router recovers.
Announce(c) ==
    /\ \/ /\ open[c] /\ send[c] < SendCap
          /\ Handles(c, "announce", "done")
          /\ send' = [send EXCEPT ![c] = @ + 1]
       \/ /\ ~open[c] \/ send[c] = SendCap
          /\ Handles(c, "announce", "missed")
          /\ UNCHANGED send
    /\ UNCHANGED <<table, queues, pumps, open, told, load>>

-----------------------------------------------------------------------------
(* The read pump, and the close handler it ends with *)

Reads(c, from, to) == reader[c] = from /\ reader' = [reader EXCEPT ![c] = to]

\* An event that is relayed; the others leave no trace.
Read(c) ==
    /\ events < MaxEvents
    /\ events' = events + 1
    /\ \E channel \in {"broadcast", "direct"} : Reads(c, "reading", channel)
    /\ UNCHANGED <<table, queues, handler, writer, buffers, told, posts>>

\* OnEvent's, and the PARTICIPANT_LEFT of the close handler, after which the pump
\* closes the socket.
Broadcast(c) ==
    /\ broadcast < BufCap
    /\ broadcast' = broadcast + 1
    /\ Reads(c, "broadcast", "reading") \/ Reads(c, "left", "done")
    /\ UNCHANGED <<table, direct, handler, writer, buffers, told, load>>

SendTo(c, p) ==
    /\ Len(direct) < BufCap
    /\ direct' = Append(direct, p)
    /\ Reads(c, "direct", "reading")
    /\ UNCHANGED <<table, broadcast, handler, writer, buffers, told, load>>

\* The client has closed the socket or the write pump has, no pong came for
\* pongWait, or the message was too long.
ReadFails(c) ==
    /\ Reads(c, "reading", "unregister")
    /\ UNCHANGED <<table, queues, handler, writer, buffers, told, load>>

-----------------------------------------------------------------------------
(* The write pump, which closes the socket when it returns *)

Write(c) ==
    /\ writer[c] = "running" /\ send[c] > 0
    /\ send' = [send EXCEPT ![c] = @ - 1]
    /\ UNCHANGED <<table, queues, handler, pumps, open, told, load>>

\* The channel is closed and empty, or the read pump has closed the socket.
MustEnd(c) == (~open[c] /\ send[c] = 0) \/ reader[c] = "done"

\* Then it ends; it also may at any time, when a message or a ping cannot be
\* written, as the client has closed the socket or is slow to read.
WriterEnds(c) ==
    /\ writer[c] = "running"
    /\ writer' = [writer EXCEPT ![c] = "done"]
    /\ UNCHANGED <<table, queues, handler, reader, buffers, told, load>>

-----------------------------------------------------------------------------
(* The hub: one action for each case of its select, and what it then does *)

Receive(c, at) == hub = Selecting /\ hub' = [at |-> at, conn |-> c]

\* Once the hub has the connection the handler goes on, and starts the pumps:
\* h.conns may not hold it yet.
ReceiveRegister(c) ==
    /\ Receive(c, "insert")
    /\ Handles(c, "register", "peers")
    /\ reader' = [reader EXCEPT ![c] = "reading"]
    /\ writer' = [writer EXCEPT ![c] = "running"]
    /\ UNCHANGED <<conns, queues, buffers, told, load>>

Insert(c) ==
    /\ hub = [at |-> "insert", conn |-> c]
    /\ hub' = Selecting
    /\ conns' = [conns EXCEPT ![Of[c]] = c]
    /\ UNCHANGED <<queues, handler, pumps, buffers, told, load>>

ReceiveUnregister(c) ==
    /\ Receive(c, "remove")
    /\ Reads(c, "unregister", "left")
    /\ UNCHANGED <<conns, queues, handler, writer, buffers, told, load>>

\* Nobody recovers a panic of the hub's goroutine.
Panicked == [at |-> "panicked", conn |-> Null]

\* Mutation: whatever connection the participant has is removed.
RemoveAny(c) ==
    /\ hub = [at |-> "remove", conn |-> c]
    /\ conns' = [conns EXCEPT ![Of[c]] = Null]
    /\ open' = [open EXCEPT ![c] = FALSE]
    /\ hub' = Selecting
    /\ UNCHANGED <<queues, handler, pumps, send, told, load>>

\* Mutation: the channel is closed, the entry stays.
RemoveKeepsEntry(c) ==
    /\ hub = [at |-> "remove", conn |-> c]
    /\ open' = [open EXCEPT ![c] = @ /\ conns[Of[c]] # c]
    /\ hub' = Selecting
    /\ UNCHANGED <<conns, queues, handler, pumps, send, told, load>>

\* Mutation: the hub itself announces the departure, into its own full channel.
RemoveAnnouncing(c) ==
    /\ hub = [at |-> "remove", conn |-> c]
    /\ broadcast < BufCap
    /\ broadcast' = broadcast + 1
    /\ conns' = [conns EXCEPT ![Of[c]] = IF @ = c THEN Null ELSE @]
    /\ open' = [open EXCEPT ![c] = @ /\ conns[Of[c]] # c]
    /\ hub' = Selecting
    /\ UNCHANGED <<direct, handler, pumps, send, told, load>>

\* A second close of a channel panics, as a send on a closed one does.
Remove(c) ==
    /\ hub = [at |-> "remove", conn |-> c]
    /\ \/ /\ conns[Of[c]] = c
          /\ conns' = [conns EXCEPT ![Of[c]] = Null]
          /\ open' = [open EXCEPT ![c] = FALSE]
          /\ hub' = IF open[c] THEN Selecting ELSE Panicked
       \/ /\ conns[Of[c]] # c
          /\ hub' = Selecting
          /\ UNCHANGED <<conns, open>>
    /\ UNCHANGED <<queues, handler, pumps, send, told, load>>

\* Mutation: Send without a default, the hub waits for room in the buffer and,
\* the write pump having returned, gets none.
DeliverWaiting(S) ==
    /\ hub' = IF \E c \in S : send[c] = SendCap /\ writer[c] = "done"
              THEN [at |-> "waiting", conn |-> Null] ELSE hub
    /\ send' = [c \in Conn |-> IF c \in S /\ send[c] < SendCap THEN send[c] + 1 ELSE send[c]]

\* Conn.Send to each of S.
Deliver(S) ==
    /\ hub' = IF \A c \in S : open[c] THEN hub ELSE Panicked
    /\ send' = [c \in Conn |->
                  IF c \in S /\ open[c] /\ send[c] < SendCap THEN send[c] + 1 ELSE send[c]]

HubBroadcast ==
    /\ hub = Selecting /\ broadcast > 0
    /\ broadcast' = broadcast - 1
    /\ Deliver({conns[p] : p \in Participant} \ {Null})
    /\ UNCHANGED <<conns, direct, handler, pumps, open, told, load>>

HubDirect ==
    /\ hub = Selecting /\ direct # <<>>
    /\ direct' = Tail(direct)
    /\ Deliver({conns[Head(direct)]} \ {Null})
    /\ UNCHANGED <<conns, broadcast, handler, pumps, open, told, load>>

-----------------------------------------------------------------------------
(* A REST handler's BroadcastToRoom: it blocks while h.broadcast is full *)

Post ==
    /\ events < MaxEvents
    /\ events' = events + 1
    /\ posts' = posts + 1
    /\ UNCHANGED <<table, queues, handler, pumps, buffers, told>>

\* Mutation: nothing bounds the queue.
PostUnbounded ==
    /\ posts > 0
    /\ broadcast' = broadcast + 1
    /\ posts' = posts - 1
    /\ UNCHANGED <<table, direct, handler, pumps, buffers, told, events>>

PostProceeds ==
    /\ posts > 0 /\ broadcast < BufCap
    /\ broadcast' = broadcast + 1
    /\ posts' = posts - 1
    /\ UNCHANGED <<table, direct, handler, pumps, buffers, told, events>>

-----------------------------------------------------------------------------

Handler(c) == Peers(c) \/ Announce(c)

Reader(c) == Broadcast(c) \/ \E p \in Participant : SendTo(c, p)

Hub == (\E c \in Conn : Insert(c) \/ Remove(c)) \/ HubBroadcast \/ HubDirect

Next ==
    \/ \E c \in Conn :
          \/ ReceiveRegister(c) \/ Handler(c)
          \/ Read(c) \/ Reader(c) \/ ReadFails(c) \/ ReceiveUnregister(c)
          \/ Write(c) \/ WriterEnds(c)
    \/ Hub \/ Post \/ PostProceeds

Spec == Init /\ [][Next]_vars

\* Goroutines that can run are scheduled; a ready case of the hub's select is
\* taken in the end, select choosing among the ready ones at random.  A pump
\* whose socket the other one has closed notices.
Fairness ==
    /\ \A c \in Conn :
          /\ WF_vars(Handler(c)) /\ WF_vars(Reader(c)) /\ WF_vars(Write(c))
          /\ WF_vars(writer[c] = "done" /\ ReadFails(c))
          /\ WF_vars(MustEnd(c) /\ WriterEnds(c))
          /\ SF_vars(ReceiveRegister(c)) /\ SF_vars(ReceiveUnregister(c))
    /\ WF_vars(Hub) /\ WF_vars(PostProceeds)

FairSpec == Spec /\ Fairness

-----------------------------------------------------------------------------

\* Type of the hub's and the connections' state: no channel over its capacity.
TypeOK ==
    /\ hub \in {Selecting, Panicked} \cup [at : {"insert", "remove"}, conn : Conn]
    /\ conns \in [Participant -> Conn \cup {Null}]
    /\ broadcast \in 0 .. BufCap
    /\ direct \in Seq(Participant) /\ Len(direct) <= BufCap
    /\ handler \in [Conn -> {"register", "peers", "announce", "done", "missed"}]
    /\ reader \in [Conn -> {"none", "reading", "broadcast", "direct", "unregister", "left", "done"}]
    /\ writer \in [Conn -> {"none", "running", "done"}]
    /\ send \in [Conn -> 0 .. SendCap]
    /\ open \in [Conn -> BOOLEAN]
    /\ told \in [Conn -> SUBSET Participant]
    /\ posts \in Nat /\ events \in Nat

\* The hub's goroutine never panics, which would end the process and every room
\* with it: it sends on no channel it has closed and closes none twice, however
\* the handshakes and closes of a participant's connections overlap.
HubNeverPanics == hub # Panicked

\* The read pump has handed c to the hub to be unregistered.
Unregistered(c) == reader[c] \in {"left", "done"}

\* A connection that has unregistered is out of the table as soon as the hub is
\* back at its select: it is never listed to newcomers nor sent to again.
NoDeadEntry ==
    hub = Selecting => \A p \in Participant : conns[p] # Null => ~Unregistered(conns[p])

\* A connection in place stays the one its participant's events go to until it
\* unregisters itself or a newer one of the participant takes its place: the late
\* unregister of an older connection (a page refresh) does not cut it off.
EntryKept ==
    [][\A p \in Participant :
          LET c == conns[p] IN
          c # Null /\ conns'[p] # c =>
             \/ conns'[p] = Null /\ Unregistered(c)
             \/ conns'[p] # Null /\ Of[conns'[p]] = p]_vars

\* Where connection c stands for those who use the hub: in the room from the
\* moment it is in the table until the hub has dealt with its unregister.
Standing(c) ==
    IF handler[c] = "register" \/ hub = [at |-> "insert", conn |-> c] THEN "away"
    ELSE IF Unregistered(c) /\ hub # [at |-> "remove", conn |-> c] THEN "gone"
    ELSE "here"

Table == INSTANCE Directory WITH stage <- [c \in Conn |-> Standing(c)], entry <- conns

\* The hub, with its rendezvous, its goroutines and its late updates of the map,
\* is a table whose connections arrive and depart in single steps.
ImplementsDirectory == Table!Spec

\* Of two participants with a connection each in place, both with their
\* PEERS_ANNOUNCE in their buffers, at least one was told of the other: no pair
\* of a local room's mesh stays unconnected because they came in together.
MeshComplete ==
    \A p, q \in Participant :
       LET c == conns[p]
           d == conns[q]
       IN  p # q /\ c # Null /\ d # Null /\ handler[c] = "done" /\ handler[d] = "done"
              => p \in told[d] \/ q \in told[c]

\* When one pump has ended so does the other, the close handler to its last step:
\* no full buffer, busy hub or superseded connection holds them up.
PumpsEndTogether ==
    \A c \in Conn :
       (reader[c] \in {"unregister", "left", "done"} \/ writer[c] = "done")
          ~> (reader[c] = "done" /\ writer[c] = "done")

\* REST handlers blocked on the hub's full buffer get through.
PostsGetThrough == posts > 0 ~> posts = 0

=============================================================================
