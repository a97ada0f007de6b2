------------------------------ MODULE Forwarding ------------------------------
(***************************************************************************)
(* The relay's data path (internal/control/handler.go, handleStream, and    *)
(* Room.Forward, Peer.Enqueue, Peer.closeFrames of internal/relay/room.go)  *)
(* on top of the room manager: each handler's main loop reads an Ethernet   *)
(* frame, asks its room for the targets under r.mu, and enqueues the frame  *)
(* at each target with no lock held; each peer has a writer goroutine that  *)
(* drains its queue to the client.  Peers join and leave meanwhile.         *)
(*                                                                          *)
(* A handler identity stands for one Peer object: it is used again only     *)
(* when nothing refers to the old object, neither its writer goroutine nor  *)
(* the target list of another main loop.                                    *)
(*                                                                          *)
(* A frame is known by its sender, the sender's room and a sequence number. *)
(* AllowFrame's verdict is left open, and the traffic counters, which only   *)
(* the status page reads, are left out.                                     *)
(***************************************************************************)
EXTENDS Relay, Sequences, SequencesExt

CONSTANTS
  GroupMACs,     \* destinations isBroadcast or isMulticast accepts
  QueueCap,      \* capacity of Peer.Frames
  MaxSent,       \* bound: frames read by all handlers together
  MaxJoins       \* bound: Join calls in a behaviour

ASSUME DataAssumption ==
  /\ GroupMACs \subseteq MACs \ ValidMACs
  /\ QueueCap \in Nat \ {0} /\ MaxSent \in Nat /\ MaxJoins \in Nat

VARIABLES
  serving,       \* handlers whose main loop runs (accept sent, data stream open)
  todo,          \* per handler: targets of the current frame not yet served
  sent,          \* per handler: frames read from its clients so far
  queue,         \* Peer.Frames
  writer,        \* the writer goroutine: "none", "run" or "exited"
  wire,          \* what the writer put on the client's data stream
  panicked,      \* the server process has died
  joins          \* counts StartJoin for the bound MaxJoins

linkVars == <<serving, todo, sent, queue, writer, wire>>
dataVars == <<linkVars, panicked, joins>>
allVars  == <<vars, dataVars>>

FwInit ==
  /\ Init
  /\ serving = {}
  /\ todo = [h \in Handlers |-> {}]
  /\ sent = [h \in Handlers |-> 0]
  /\ queue = [h \in Handlers |-> << >>]
  /\ writer = [h \in Handlers |-> "none"]
  /\ wire = [h \in Handlers |-> << >>]
  /\ panicked = FALSE
  /\ joins = 0

-----------------------------------------------------------------------------
\* No pointer to h's previous Peer object is left.
Collected(h) == writer[h] # "run" /\ \A g \in Handlers : h \notin todo[g]

\* A new connection reuses the identity; its Peer object starts afresh.
Connect(h, n, m) ==
  /\ ~panicked /\ joins < MaxJoins
  /\ Collected(h)
  /\ StartJoin(h, n, m)
  /\ joins' = joins + 1
  /\ queue' = [queue EXCEPT ![h] = << >>]
  /\ writer' = [writer EXCEPT ![h] = "none"]
  /\ wire' = [wire EXCEPT ![h] = << >>]
  /\ UNCHANGED <<serving, todo, sent, panicked>>

JoinStep(h) == ~panicked /\ Step(h) /\ UNCHANGED dataVars

\* The accept is sent, the data stream opened, and the writer started.
Serve(h) ==
  /\ ~panicked /\ pc[h] = "joined" /\ h \notin serving
  /\ serving' = serving \cup {h}
  /\ writer' = [writer EXCEPT ![h] = "run"]
  /\ UNCHANGED <<vars, todo, sent, queue, wire, panicked, joins>>

TotalSent == FoldFunction(+, 0, sent)

\* The main loop is between two frames.
Ready(h) ==
  /\ ~panicked /\ h \in serving /\ pc[h] = "joined" /\ todo[h] = {}
  /\ TotalSent < MaxSent

\* A frame is read and dropped: AllowFrame refuses it, or Forward does because
\* it is short or its source MAC is not the peer's.
RefuseFrame(h) ==
  /\ Ready(h)
  /\ sent' = [sent EXCEPT ![h] = @ + 1]
  /\ UNCHANGED <<vars, serving, todo, queue, writer, wire, panicked, joins>>

\* Mutation: flooding reaches every peer of the server.
MutTargets(h, dst) == Joined \ {h}

\* Room.Forward's result: the owner of the destination if the table knows one,
\* everybody else in the room otherwise.
Targets(h, dst) ==
  LET r == room[h]
      known == IF dst = mac[h] THEN h ELSE macToPeer[r][dst]
  IN IF dst \notin GroupMACs /\ known \notin {Null, h} /\ known \in peers[r]
     THEN {known}
     ELSE peers[r] \ {h}

\* A frame is read and its targets are looked up under r.mu.
ForwardFrame(h, dst) ==
  /\ Ready(h)
  /\ Forward(h)
  /\ sent' = [sent EXCEPT ![h] = @ + 1]
  /\ todo' = [todo EXCEPT ![h] = Targets(h, dst)]
  /\ UNCHANGED <<serving, queue, writer, wire, panicked, joins>>

\* The frame that h is distributing.
Frame(h) == [src |-> h, seq |-> sent[h], room |-> room[h]]

\* target.Enqueue(frame) for one target, with no lock held.  The channel takes
\* the frame or is full; once closed, the send panics and the process dies.
Enqueue(h, g) ==
  /\ ~panicked /\ g \in todo[h]
  /\ framesOpen[g]
  /\ todo' = [todo EXCEPT ![h] = @ \ {g}]
  /\ queue' = [queue EXCEPT ![g] = IF Len(@) < QueueCap THEN Append(@, Frame(h)) ELSE @]
  /\ UNCHANGED <<vars, serving, sent, writer, wire, panicked, joins>>

EnqueueClosed(h, g) ==
  /\ ~panicked /\ g \in todo[h]
  /\ ~framesOpen[g]
  /\ panicked' = TRUE
  /\ UNCHANGED <<vars, linkVars, joins>>

\* Mutation: the frame that came last is written first.
MutWriteFrame(h) ==
  /\ ~panicked /\ writer[h] = "run" /\ queue[h] # << >>
  /\ queue' = [queue EXCEPT ![h] = Front(@)]
  /\ wire' = [wire EXCEPT ![h] = Append(@, Last(queue[h]))]
  /\ UNCHANGED <<vars, serving, todo, sent, writer, panicked, joins>>

\* The writer goroutine takes a frame and writes it to the data stream.
WriteFrame(h) ==
  /\ ~panicked /\ writer[h] = "run" /\ queue[h] # << >>
  /\ queue' = [queue EXCEPT ![h] = Tail(@)]
  /\ wire' = [wire EXCEPT ![h] = Append(@, Head(queue[h]))]
  /\ UNCHANGED <<vars, serving, todo, sent, writer, panicked, joins>>

\* The write fails: the frame is lost and the writer reports to writeErr.
WriteFails(h) ==
  /\ ~panicked /\ writer[h] = "run" /\ queue[h] # << >>
  /\ queue' = [queue EXCEPT ![h] = Tail(@)]
  /\ writer' = [writer EXCEPT ![h] = "exited"]
  /\ UNCHANGED <<vars, serving, todo, sent, wire, panicked, joins>>

\* The queue is closed and drained: the range loop ends.
WriterEnds(h) ==
  /\ ~panicked /\ writer[h] = "run" /\ queue[h] = << >> /\ ~framesOpen[h]
  /\ writer' = [writer EXCEPT ![h] = "exited"]
  /\ UNCHANGED <<vars, serving, todo, sent, queue, wire, panicked, joins>>

\* The main loop or the set-up before it returns, and the deferred RemovePeer
\* runs.  The loop is never left in the middle of a frame.
Leave(h) ==
  /\ ~panicked /\ todo[h] = {}
  /\ RemovePeer(h)
  /\ serving' = serving \ {h}
  /\ UNCHANGED <<todo, sent, queue, writer, wire, panicked, joins>>

FwStep(h) ==
  \/ JoinStep(h)
  \/ \E g \in Handlers : Enqueue(h, g) \/ EnqueueClosed(h, g)
  \/ WriteFrame(h) \/ WriteFails(h) \/ WriterEnds(h)

FwNext ==
  \E h \in Handlers :
    \/ \E n \in Names, m \in RequestMACs \cup {Null} : Connect(h, n, m)
    \/ FwStep(h)
    \/ Serve(h)
    \/ RefuseFrame(h)
    \/ \E dst \in MACs : ForwardFrame(h, dst)
    \/ Leave(h)

FwSpec == FwInit /\ [][FwNext]_allVars

-----------------------------------------------------------------------------

\* What a peer is sent, in order.
Stream(g) == wire[g] \o queue[g]

\* A peer is sent frames of its own room only, and never its own frames back,
\* although Enqueue runs without the room's lock while peers come and go.
RoomIsolation ==
  \A g \in Handlers : room[g] # Null =>
    \A f \in Range(Stream(g)) : f.room = room[g] /\ f.src # g

\* The frames a peer gets from one sender come in the order they were sent, none
\* twice; only losses (a full queue, a failed write) leave gaps.
SenderOrder ==
  \A g \in Handlers : \A i, j \in 1..Len(Stream(g)) :
    i < j /\ Stream(g)[i].src = Stream(g)[j].src => Stream(g)[i].seq < Stream(g)[j].seq

\* A peer's departure leaves the others served: the server does not die.
NoPanic == ~panicked
-----------------------------------------------------------------------------
\* The LAN each peer is on, and what is on its way to each: the state of Lan.
lans == [h \in Handlers |-> IF pc[h] = "joined" THEN want[h].name ELSE Null]

onTheWay == [g \in Handlers |->
               Range(queue[g]) \cup {Frame(h) : h \in {k \in Handlers : g \in todo[k]}}]

Network == INSTANCE Lan WITH Peers <- Handlers, Nobody <- Null, Rooms <- RoomIds,
                             lan <- lans, pending <- onTheWay, inbox <- wire

\* The data path implements Lan: the lookup of the targets is the moment a frame
\* is sent, Enqueue keeps it or loses it, and the writer delivers it, whoever
\* joins and leaves in between.
ImplementsLan == Network!LanSpec
=============================================================================
