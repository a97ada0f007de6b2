------------------------------ MODULE Connection ------------------------------
(***************************************************************************)
(* The life of a client's connections, on both ends: Serve's accept loop    *)
(* (internal/server/server.go), HandleConnection and handleStream           *)
(* (internal/control/handler.go) with the goroutines they start, and the    *)
(* client's runLoop and runSession (internal/client/client.go), which dial  *)
(* again when a connection ends and stop when a join is refused.            *)
(*                                                                          *)
(* An element of Conns stands for one connection and its handler; it is     *)
(* used again once nothing of the old connection runs.  QUIC is external: a *)
(* connection works until it is cut or an end closes it, and the other end  *)
(* notices sooner or later (by a CONNECTION_CLOSE packet, which may be      *)
(* lost, or by the idle timeout).  Until the server does, the peer of an    *)
(* ended session is still a member of its room and holds its MAC.  The      *)
(* server ends a session in steps: it closes the data stream, which the     *)
(* client sees, removes the peer, and then closes the connection.           *)
(*                                                                          *)
(* Manager.Join and RemovePeer are one step each: Relay has their details,  *)
(* PeerList has the broadcasts and the notifier goroutine, Forwarding what  *)
(* happens to a frame.  The server's context ends with the process.         *)
(***************************************************************************)
EXTENDS Integers

CONSTANTS
  Conns,         \* connections and their handlers
  Nobody,        \* no connection
  MaxData        \* bound: frames the client has sent that can still be read

ASSUME ConnAssumption == Nobody \notin Conns /\ MaxData \in Nat

VARIABLES
  advertise,     \* tap.ShouldAdvertiseMAC(): every JoinRoom asks for the device's MAC
  client,        \* the client: "idle", "answer", "serve" or, after a fatal error, "stopped"
  cur,           \* the connection of its current session, or Nobody
  cut,           \* connections, open at an end, whose packets no longer arrive
  clientUp,      \* connections whose client end is open
  serverUp,      \* connections whose server end is open
  stage,         \* where HandleConnection is
  members,       \* connections whose peer is in the room
  answer,        \* what the handler wrote in answer to the JoinRoom
  data,          \* frames the client has sent that can still be read
  writer,        \* the writer goroutine: waiting for a frame, writing one, or ended
  reader,        \* the control reader goroutine
  writeErr, controlReadErr,   \* what these channels hold
  late,          \* history: frames handled since a report waits in one of them
  quit           \* history: connections that the client left of itself or lost to the
                 \* network, until the server has dealt with their peer

clientVars == <<advertise, client, cur>>
netVars  == <<cut, clientUp, serverUp>>
workVars == <<writer, reader, writeErr, controlReadErr>>
vars == <<clientVars, netVars, stage, members, answer, data, workVars, late, quit>>

Init ==
  /\ advertise \in BOOLEAN
  /\ client = "idle" /\ cur = Nobody
  /\ cut = {} /\ clientUp = {} /\ serverUp = {}
  /\ stage = [c \in Conns |-> "done"]
  /\ members = {}
  /\ answer = [c \in Conns |-> "none"]
  /\ data = [c \in Conns |-> 0]
  /\ writer = [c \in Conns |-> "none"]
  /\ reader = [c \in Conns |-> "none"]
  /\ writeErr = [c \in Conns |-> 0]
  /\ controlReadErr = [c \in Conns |-> 0]
  /\ late = [c \in Conns |-> 0]
  /\ quit = {}

\* Nothing of the connection is left, at either end, but its notifier goroutine,
\* which PeerList has.
Over(c) ==
  /\ stage[c] = "done" /\ c \notin clientUp \cup serverUp
  /\ writer[c] \in {"none", "ended"} /\ reader[c] \in {"none", "ended"}

\* The client ended its streams and what says so can still arrive.
StreamsEnd(c) == c \notin clientUp \cup cut

\* The handler has returned from its main loop or its set-up, and its data stream,
\* if there was one, is closed.
DataClosed(c) == stage[c] \in {"remove", "close", "done"}

\* The peer is removed, and with it Peer.Frames closed.
FramesClosed(c) == stage[c] \in {"close", "done"}

At(c, s) == stage' = [stage EXCEPT ![c] = s]

-----------------------------------------------------------------------------
(* The client.                                                              *)

\* runSession dials, the server's accept loop starts a handler, and the client
\* opens the control stream and writes its JoinRoom.
Dial(c) ==
  /\ client = "idle" /\ Over(c)
  /\ client' = "answer" /\ cur' = c
  /\ cut' = cut \ {c}
  /\ clientUp' = clientUp \cup {c} /\ serverUp' = serverUp \cup {c}
  /\ At(c, "join")
  /\ answer' = [answer EXCEPT ![c] = "none"]
  /\ data' = [data EXCEPT ![c] = 0]
  /\ writer' = [writer EXCEPT ![c] = "none"]
  /\ reader' = [reader EXCEPT ![c] = "none"]
  /\ writeErr' = [writeErr EXCEPT ![c] = 0]
  /\ controlReadErr' = [controlReadErr EXCEPT ![c] = 0]
  /\ late' = [late EXCEPT ![c] = 0]
  /\ UNCHANGED <<advertise, members, quit>>

\* A JoinAccept: the session begins.
ReadAccept(c) ==
  /\ client = "answer" /\ cur = c /\ answer[c] = "accept" /\ c \notin cut
  /\ client' = "serve"
  /\ UNCHANGED <<advertise, cur, netVars, stage, members, answer, data, workVars, late, quit>>

\* runSession returns; its deferred calls close the streams and the connection.
Hangup(c, next, own) ==
  /\ clientUp' = clientUp \ {c}
  /\ cut' = cut \cap (clientUp' \cup serverUp)
  /\ client' = next /\ cur' = Nobody
  /\ quit' = IF own /\ ~FramesClosed(c) THEN quit \cup {c} ELSE quit
  /\ UNCHANGED <<advertise, serverUp, stage, members, answer, data, workVars, late>>

\* A JoinReject is fatal: runLoop returns it.
ReadReject(c) ==
  /\ client = "answer" /\ cur = c /\ answer[c] = "reject" /\ c \notin cut
  /\ Hangup(c, "stopped", FALSE)

\* The client, which reads the data stream once it has been accepted, meets its end.
DataEnded(c) == client = "serve" /\ writer[c] # "none" /\ DataClosed(c)

\* The session fails under the client, which will dial again.
SessionFails(c) ==
  /\ client \in {"answer", "serve"} /\ cur = c
  /\ c \in cut \/ c \notin serverUp \/ DataEnded(c)
  /\ Hangup(c, "idle", c \in cut)

\* The user leaves, or the client fails for a reason of its own.
Leave(c) ==
  /\ client \in {"answer", "serve"} /\ cur = c
  /\ \E next \in {"idle", "stopped"} : Hangup(c, next, TRUE)

\* A user whose session stopped joins again.
JoinAgain ==
  /\ client = "stopped"
  /\ client' = "idle"
  /\ UNCHANGED <<advertise, cur, netVars, stage, members, answer, data, workVars, late, quit>>

\* A frame is sent.  One that does not arrive, or that nobody reads, changes nothing.
SendFrame(c) ==
  /\ client = "serve" /\ cur = c /\ c \in serverUp \ cut /\ ~DataClosed(c)
  /\ data[c] < MaxData
  /\ data' = [data EXCEPT ![c] = @ + 1]
  /\ UNCHANGED <<clientVars, netVars, stage, members, answer, workVars, late, quit>>

-----------------------------------------------------------------------------
(* The network.                                                             *)

Cut(c) ==
  /\ c \in clientUp \cup serverUp /\ c \notin cut
  /\ cut' = cut \cup {c}
  /\ UNCHANGED <<clientVars, clientUp, serverUp, stage, members, answer, data, workVars, late, quit>>

\* The server's end learns that the connection is gone, with what it has not read.
Notice(c) ==
  /\ c \in serverUp
  /\ c \in cut \/ c \notin clientUp
  /\ serverUp' = serverUp \ {c}
  /\ cut' = cut \cap (clientUp \cup serverUp')
  /\ data' = [data EXCEPT ![c] = 0]
  /\ UNCHANGED <<clientVars, clientUp, stage, members, answer, workVars, late, quit>>

-----------------------------------------------------------------------------
(* The handler's goroutine.                                                 *)

\* Mutation: the connection of a refused client is closed like any other.
MutRefuse(c) ==
  /\ At(c, "close")
  /\ answer' = [answer EXCEPT ![c] = IF c \in serverUp THEN "reject" ELSE @]
  /\ quit' = quit \ {c}
  /\ UNCHANGED <<clientVars, netVars, members, data, workVars, late>>

\* rejectAndCloseStream, and HandleConnection returns with closeConn false.
Refuse(c) ==
  /\ At(c, "done")
  /\ answer' = [answer EXCEPT ![c] = IF c \in serverUp THEN "reject" ELSE @]
  /\ quit' = quit \ {c}
  /\ UNCHANGED <<clientVars, netVars, members, data, workVars, late>>

\* No JoinRoom arrives, it is of another version, lacks a room or has a
\* malformed MAC, or the room or the pool is full.
RejectJoin(c) == stage[c] = "join" /\ Refuse(c)

\* ErrMACInUse: the MAC this client asks for is in the room's table.
MACInUse(c) == stage[c] = "join" /\ c \in serverUp /\ advertise /\ members # {} /\ Refuse(c)

\* Manager.Join returns a peer.
Join(c) ==
  /\ stage[c] = "join" /\ c \in serverUp
  /\ advertise => members = {}
  /\ At(c, "accept")
  /\ members' = members \cup {c}
  /\ UNCHANGED <<clientVars, netVars, answer, data, workVars, late, quit>>

\* The JoinAccept is written.
WriteAccept(c) ==
  /\ stage[c] = "accept" /\ c \in serverUp
  /\ At(c, "open")
  /\ answer' = [answer EXCEPT ![c] = "accept"]
  /\ UNCHANGED <<clientVars, netVars, members, data, workVars, late, quit>>

\* The data stream is opened, the others are told, the goroutines start.
OpenData(c) ==
  /\ stage[c] = "open" /\ c \in serverUp
  /\ At(c, "check")
  /\ writer' = [writer EXCEPT ![c] = "wait"]
  /\ reader' = [reader EXCEPT ![c] = "run"]
  /\ UNCHANGED <<clientVars, netVars, members, answer, data, writeErr, controlReadErr, late, quit>>

\* handleStream returns: the data stream is closed, which the client can see.
Exit(c) ==
  /\ At(c, "remove")
  /\ data' = [data EXCEPT ![c] = 0]
  /\ late' = [late EXCEPT ![c] = 0]
  /\ UNCHANGED <<clientVars, netVars, members, answer, workVars, quit>>

\* Setting up fails: the connection is gone, or the JoinAccept with the list of
\* peers is longer than a message may be.
SetupFails(c) ==
  /\ \/ stage[c] = "accept"
     \/ stage[c] = "open" /\ c \notin serverUp
  /\ Exit(c)

Reported(c) == writeErr[c] + controlReadErr[c] > 0

\* Mutation: the loop does not look at controlReadErr.
MutCheckReports(c) ==
  /\ stage[c] = "check" /\ writeErr[c] = 0
  /\ At(c, "read")
  /\ UNCHANGED <<clientVars, netVars, members, answer, data, workVars, late, quit>>

\* The select at the head of the main loop falls through.
CheckReports(c) ==
  /\ stage[c] = "check" /\ ~Reported(c)
  /\ At(c, "read")
  /\ UNCHANGED <<clientVars, netVars, members, answer, data, workVars, late, quit>>

\* It takes a report and handleStream returns.
LoopEnds(c) == stage[c] = "check" /\ Reported(c) /\ Exit(c)

\* A frame is read and handled.
HandleFrame(c) ==
  /\ stage[c] = "read" /\ c \in serverUp /\ data[c] > 0
  /\ At(c, "check")
  /\ data' = [data EXCEPT ![c] = @ - 1]
  /\ late' = [late EXCEPT ![c] = IF Reported(c) THEN @ + 1 ELSE @]
  /\ UNCHANGED <<clientVars, netVars, members, answer, workVars, quit>>

\* The read fails or meets the end of the stream.
ReadFails(c) ==
  /\ stage[c] = "read"
  /\ c \notin serverUp \/ (StreamsEnd(c) /\ data[c] = 0)
  /\ Exit(c)

\* Mutation: the connection is closed, and the client told so, first.
MutRemovePeer(c) ==
  /\ stage[c] = "remove"
  /\ At(c, "close")
  /\ serverUp' = serverUp \ {c}
  /\ UNCHANGED <<clientVars, cut, clientUp, members, answer, data, workVars, late, quit>>

\* The deferred function: RemovePeer, and the broadcast to the others.
RemovePeer(c) ==
  /\ stage[c] = "remove"
  /\ At(c, "close")
  /\ members' = members \ {c} /\ quit' = quit \ {c}
  /\ UNCHANGED <<clientVars, netVars, answer, data, workVars, late>>

\* Mutation: HandleConnection returns and leaves the connection open.
MutCloseConn(c) ==
  /\ stage[c] = "close"
  /\ At(c, "done")
  /\ UNCHANGED <<clientVars, netVars, members, answer, data, workVars, late, quit>>

\* HandleConnection's own deferred calls: the control stream and the connection are
\* closed.
CloseConn(c) ==
  /\ stage[c] = "close"
  /\ At(c, "done")
  /\ serverUp' = serverUp \ {c}
  /\ cut' = cut \cap (clientUp \cup serverUp')
  /\ UNCHANGED <<clientVars, clientUp, members, answer, data, workVars, late, quit>>

-----------------------------------------------------------------------------
(* The goroutines handleStream starts.                                      *)

\* The writer takes a frame that another member's handler has enqueued, perhaps
\* before this peer was removed.
TakeFrame(c) ==
  /\ writer[c] = "wait"
  /\ writer' = [writer EXCEPT ![c] = "write"]
  /\ UNCHANGED <<clientVars, netVars, stage, members, answer, data, reader, writeErr,
                 controlReadErr, late, quit>>

WriteFrame(c) ==
  /\ writer[c] = "write" /\ c \in serverUp /\ ~DataClosed(c)
  /\ writer' = [writer EXCEPT ![c] = "wait"]
  /\ UNCHANGED <<clientVars, netVars, stage, members, answer, data, reader, writeErr,
                 controlReadErr, late, quit>>

\* The writer returns with its one report.
WriterReports(c) ==
  /\ writer' = [writer EXCEPT ![c] = "ended"]
  /\ writeErr' = [writeErr EXCEPT ![c] = @ + 1]
  /\ UNCHANGED <<clientVars, netVars, stage, members, answer, data, reader, controlReadErr, late, quit>>

\* A write on a dead connection or a closed data stream fails.
WriteFails(c) ==
  /\ writer[c] = "write"
  /\ c \notin serverUp \/ DataClosed(c)
  /\ WriterReports(c)

\* Mutation: the channel is closed only while the connection works.
MutWriterEnds(c) ==
  /\ writer[c] = "wait" /\ FramesClosed(c) /\ c \in serverUp
  /\ WriterReports(c)

\* The range over Peer.Frames ends: the channel is closed and drained.
WriterEnds(c) == writer[c] = "wait" /\ FramesClosed(c) /\ WriterReports(c)

\* Mutation: the control reader goes on after a failed read.
MutReaderReports(c) ==
  /\ reader[c] = "run"
  /\ controlReadErr' = [controlReadErr EXCEPT ![c] = @ + 1]
  /\ UNCHANGED <<clientVars, netVars, stage, members, answer, data, writer, reader, writeErr, late, quit>>

\* The control reader returns with its one report.
ReaderReports(c) ==
  /\ reader[c] = "run"
  /\ reader' = [reader EXCEPT ![c] = "ended"]
  /\ controlReadErr' = [controlReadErr EXCEPT ![c] = @ + 1]
  /\ UNCHANGED <<clientVars, netVars, stage, members, answer, data, writer, writeErr, late, quit>>

\* Its read fails or meets the end of the stream.
ControlFails(c) == (c \notin serverUp \/ StreamsEnd(c)) /\ ReaderReports(c)

\* It cannot decode a ping or a pong.
BadControl(c) == client = "serve" /\ cur = c /\ ReaderReports(c)

-----------------------------------------------------------------------------
ClientStep(c) == ReadAccept(c) \/ ReadReject(c) \/ SessionFails(c)

HandlerStep(c) ==
  \/ RejectJoin(c) \/ MACInUse(c) \/ Join(c)
  \/ WriteAccept(c) \/ SetupFails(c) \/ OpenData(c)
  \/ CheckReports(c) \/ LoopEnds(c) \/ HandleFrame(c) \/ ReadFails(c)
  \/ RemovePeer(c) \/ CloseConn(c)

Next ==
  \/ JoinAgain
  \/ \E c \in Conns :
       \/ Dial(c) \/ Leave(c) \/ SendFrame(c) \/ ClientStep(c)
       \/ Cut(c) \/ Notice(c)
       \/ HandlerStep(c)
       \/ TakeFrame(c) \/ WriteFrame(c) \/ WriteFails(c) \/ WriterEnds(c)
       \/ ControlFails(c) \/ BadControl(c)

Spec == Init /\ [][Next]_vars

\* Goroutines run on, and an end whose counterpart is gone notices it (idle
\* timeout).  Nobody has to dial, send or read frames, or leave.
FairSpec ==
  /\ Spec
  /\ \A c \in Conns :
       /\ WF_vars(ClientStep(c)) /\ WF_vars(Notice(c))
       /\ WF_vars(HandlerStep(c))
       /\ WF_vars(WriteFails(c) \/ WriterEnds(c))
       /\ WF_vars(ControlFails(c))

-----------------------------------------------------------------------------
\* Type invariant of the connections.  The two error channels never hold more
\* than their capacity, so a goroutine that reports never waits.
TypeOK ==
  /\ advertise \in BOOLEAN
  /\ client \in {"idle", "answer", "serve", "stopped"} /\ cur \in Conns \cup {Nobody}
  /\ cut \subseteq Conns /\ clientUp \subseteq Conns /\ serverUp \subseteq Conns
  /\ stage \in [Conns -> {"join", "accept", "open", "check", "read", "remove", "close", "done"}]
  /\ members \subseteq Conns
  /\ answer \in [Conns -> {"none", "accept", "reject"}]
  /\ data \in [Conns -> 0..MaxData]
  /\ writer \in [Conns -> {"none", "wait", "write", "ended"}]
  /\ reader \in [Conns -> {"none", "run", "ended"}]
  /\ writeErr \in [Conns -> 0..1] /\ controlReadErr \in [Conns -> 0..1]
  /\ late \in [Conns -> Nat] /\ quit \subseteq Conns

\* Once the writer or the control reader has reported an error, the main loop,
\* which looks at the reports between two reads only, relays at most one more
\* frame of this client.
OneMoreFrame == \A c \in Conns : late[c] <= 1

\* A client that waits for its answer is refused for the MAC of its own old peer only
\* when it left that session itself or lost it to the network, so that the server may
\* not know yet, or, when the server ended the session, in the one moment between the
\* end of the data stream and RemovePeer: the deferred calls come in an order in which
\* nothing that can wait lies between what the client sees and the return of its MAC.
OldPeersExplained ==
  [][\A c \in Conns : MACInUse(c) /\ c \in clientUp =>
       \A d \in members : d \in quit \/ stage[d] = "remove"]_vars

\* A client whose JoinRoom was refused learns the reason, and does not dial
\* again for the same refusal, unless the network fails: HandleConnection leaves
\* the connection of a refused client open for the client to close.
RefusalsReachClient ==
  [][\A c \in Conns : SessionFails(c) /\ answer[c] = "reject" => c \in cut]_vars

\* A member whose client is gone leaves the room, so that its MAC is free again,
\* and its handler, writer and control reader end, also a writer that is writing to
\* the client.  (The notifier does not end: NotifiersEnd of PeerList.)
DeparturesNoticed == \A c \in Conns : c \in members \ clientUp ~> Over(c)

\* A client whose handler has returned ends its session: it is never left
\* waiting on a connection that nobody serves.
ClientsNotLeftWaiting ==
  \A c \in Conns : stage[c] = "done" /\ c \in clientUp ~> c \notin clientUp
=============================================================================
