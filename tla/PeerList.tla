------------------------------- MODULE PeerList -------------------------------
(***************************************************************************)
(* How the members of a room learn who else is in it (internal/control/     *)
(* handler.go, handleStream; Room.Snapshot, BroadcastNotify and SendNotify  *)
(* of internal/relay/room.go).  A handler that joined or left takes a       *)
(* snapshot of its room, builds one TypePeerList message from it, collects  *)
(* the members to notify and puts the message into their Notify channels:   *)
(* four steps, each atomic under Room.mu or in a channel, none of them      *)
(* atomic together.  A notifier goroutine per peer writes the channel to    *)
(* the client, which replaces its list by each one it receives.             *)
(*                                                                          *)
(* A peer joins once and leaves once: peer IDs are fresh per connection.    *)
(* Rooms of one name succeed each other; Join's search for the live one is  *)
(* one step here (Relay has its details).                                   *)
(***************************************************************************)
EXTENDS Integers, Sequences, FiniteSets

CONSTANTS
  Peers,         \* connections to one room name
  NotifyCap,     \* capacity of Peer.Notify
  MaxPings,      \* bound: peer pings and pongs forwarded
  MinListed,     \* bound: so many peers fit into any control message
  Ping,          \* a forwarded TypePing or TypePong message
  Empty          \* what buildPeerListMsg makes of a list that is too long

ASSUME ListAssumption ==
  /\ NotifyCap \in Nat \ {0} /\ MaxPings \in Nat
  /\ IsFiniteSet(Peers) /\ MinListed \in 1..Cardinality(Peers)
  /\ Ping # Empty /\ \A l \in SUBSET Peers : l \notin {Ping, Empty}

VARIABLES
  pc,            \* where the handler is in handleStream
  roomOf,        \* Peer.Room: the number of a room of this name, 0 for none
  members,       \* Room.peers of each room
  current,       \* the live room, 0 if the manager has none
  created,       \* rooms of this name created so far
  acceptMax,     \* how many peers MaxControlSize leaves room for in a JoinAccept,
  listMax,       \* and in a peer list: it depends on their names, and never changes
  lost,          \* the connection to the client is gone
  list,          \* the snapshot the handler is about to send or has sent
  targets,       \* BroadcastNotify's local list of members still to notify
  notify,        \* Peer.Notify
  notifier,      \* the notifier goroutine: "none", "run" or "exited"
  view,          \* the peer list in the client's status
  pings,         \* counts forwarded pings for the bound MaxPings
  overlap,       \* history: a membership change began during another's broadcast
  dropped        \* history: a full channel lost a peer list

roomVars == <<roomOf, members, current, created>>
chanVars == <<notify, dropped>>
limits == <<acceptMax, listMax>>
vars == <<pc, roomVars, limits, lost, list, targets, chanVars, notifier, view, pings, overlap>>

Rooms == 1..created

Init ==
  /\ pc = [p \in Peers |-> "out"]
  /\ roomOf = [p \in Peers |-> 0]
  /\ members = << >>
  /\ current = 0
  /\ created = 0
  /\ acceptMax \in MinListed..Cardinality(Peers)
  /\ listMax \in acceptMax..Cardinality(Peers)   \* a JoinAccept has more fields
  /\ lost = {}
  /\ list = [p \in Peers |-> {}]
  /\ targets = [p \in Peers |-> {}]
  /\ notify = [p \in Peers |-> << >>]
  /\ notifier = [p \in Peers |-> "none"]
  /\ view = [p \in Peers |-> {}]
  /\ pings = 0
  /\ overlap = FALSE
  /\ dropped = FALSE

\* A handler between its membership change and the end of its broadcast.
Busy(p) == pc[p] \notin {"out", "serve", "gone"}

Goto(p, l) == pc' = [pc EXCEPT ![p] = l]
NoteOverlap(p) == overlap' = (overlap \/ \E q \in Peers \ {p} : Busy(q))

-----------------------------------------------------------------------------
\* Manager.Join: the peer is a member of the live room, which may be new.
Join(p) ==
  /\ pc[p] = "out"
  /\ IF current = 0
     THEN /\ created' = created + 1
          /\ current' = created + 1
          /\ members' = Append(members, {p})
     ELSE /\ members' = [members EXCEPT ![current] = @ \cup {p}]
          /\ UNCHANGED <<created, current>>
  /\ roomOf' = [roomOf EXCEPT ![p] = current']
  /\ Goto(p, "snap")
  /\ NoteOverlap(p)
  /\ UNCHANGED <<limits, lost, list, targets, chanVars, notifier, view, pings>>

\* Mutation: a snapshot shows only peers whose session has begun.
MutSnapshot(p) ==
  /\ pc[p] \in {"snap", "snapLeft"}
  /\ list' = [list EXCEPT ![p] = {q \in members[roomOf[p]] : q = p \/ ~Busy(q)}]
  /\ Goto(p, IF pc[p] = "snap" THEN "accept" ELSE "gatherLeft")
  /\ UNCHANGED <<roomVars, limits, lost, targets, chanVars, notifier, view, pings, overlap>>

\* Room.Snapshot, for the accept and the first broadcast, or after leaving.
Snapshot(p) ==
  /\ pc[p] \in {"snap", "snapLeft"}
  /\ list' = [list EXCEPT ![p] = members[roomOf[p]]]
  /\ Goto(p, IF pc[p] = "snap" THEN "accept" ELSE "gatherLeft")
  /\ UNCHANGED <<roomVars, limits, lost, targets, chanVars, notifier, view, pings, overlap>>

\* The JoinAccept is written; the client takes its first list from it.
Accept(p) ==
  /\ pc[p] = "accept" /\ Cardinality(list[p]) <= acceptMax
  /\ view' = [view EXCEPT ![p] = IF p \in lost THEN @ ELSE list[p]]
  /\ Goto(p, "open")
  /\ UNCHANGED <<roomVars, limits, lost, list, targets, chanVars, notifier, pings, overlap>>

\* The data stream is opened and its first message written.
OpenData(p) ==
  /\ pc[p] = "open"
  /\ Goto(p, "gather")
  /\ UNCHANGED <<roomVars, limits, lost, list, targets, chanVars, notifier, view, pings, overlap>>

\* BroadcastNotify collects the members under r.mu; a joiner is left out.
Gather(p) ==
  /\ pc[p] \in {"gather", "gatherLeft"}
  /\ targets' = [targets EXCEPT ![p] = members[roomOf[p]] \ {p}]
  /\ Goto(p, IF pc[p] = "gather" THEN "send" ELSE "sendLeft")
  /\ UNCHANGED <<roomVars, limits, lost, list, chanVars, notifier, view, pings, overlap>>

\* Mutations: the channel has no capacity, or the send waits for room in it.
MutOfferUnbounded(q, msg) ==
  notify' = [notify EXCEPT ![q] = Append(@, msg)] /\ UNCHANGED dropped
MutOfferBlocks(q, msg) ==
  /\ Len(notify[q]) < NotifyCap
  /\ notify' = [notify EXCEPT ![q] = Append(@, msg)]
  /\ UNCHANGED dropped

\* buildPeerListMsg drops WriteJSON's error: a list that is too long is a message
\* of no bytes.
buildPeerListMsg(l) == IF Cardinality(l) <= listMax THEN l ELSE Empty

\* A non-blocking send: a full channel loses the message.
Offer(q, msg) ==
  IF Len(notify[q]) < NotifyCap
  THEN notify' = [notify EXCEPT ![q] = Append(@, msg)] /\ UNCHANGED dropped
  ELSE dropped' = (dropped \/ msg # Ping) /\ UNCHANGED notify

Send(p, q) ==
  /\ pc[p] \in {"send", "sendLeft"}
  /\ q \in targets[p]
  /\ Offer(q, buildPeerListMsg(list[p]))
  /\ targets' = [targets EXCEPT ![p] = @ \ {q}]
  /\ UNCHANGED <<pc, roomVars, limits, lost, list, notifier, view, pings, overlap>>

\* The broadcast is over: a joiner starts its goroutines and its main loop, a
\* leaver returns.
Sent(p) ==
  /\ pc[p] \in {"send", "sendLeft"}
  /\ targets[p] = {}
  /\ IF pc[p] = "send"
     THEN Goto(p, "serve") /\ notifier' = [notifier EXCEPT ![p] = "run"]
     ELSE Goto(p, "gone") /\ UNCHANGED notifier
  /\ UNCHANGED <<roomVars, limits, lost, list, targets, chanVars, view, pings, overlap>>

\* The client disconnects or the network fails.
Lose(p) ==
  /\ pc[p] \notin {"out", "gone"} /\ p \notin lost
  /\ lost' = lost \cup {p}
  /\ UNCHANGED <<pc, roomVars, limits, list, targets, chanVars, notifier, view, pings, overlap>>

\* A read or a write on the connection fails, or the JoinAccept is too long to be
\* written: handleStream returns and its deferred function removes the peer.
Exit(p) ==
  /\ \/ pc[p] \in {"accept", "open", "serve"} /\ p \in lost
     \/ pc[p] = "accept" /\ Cardinality(list[p]) > acceptMax
  /\ members' = [members EXCEPT ![roomOf[p]] = @ \ {p}]
  /\ Goto(p, IF members[roomOf[p]] = {p} THEN "delete" ELSE "count")
  /\ NoteOverlap(p)
  /\ UNCHANGED <<roomOf, current, created, limits, lost, list, targets, chanVars, notifier, view, pings>>

\* deleteEmptyRoom.
DeleteEmptyRoom(p) ==
  /\ pc[p] = "delete"
  /\ current' = IF current = roomOf[p] /\ members[roomOf[p]] = {} THEN 0 ELSE current
  /\ Goto(p, "count")
  /\ UNCHANGED <<roomOf, members, created, limits, lost, list, targets, chanVars, notifier, view,
                 pings, overlap>>

\* Mutation: nobody is told of a departure.
MutCount(p) ==
  /\ pc[p] = "count"
  /\ Goto(p, "gone")
  /\ UNCHANGED <<roomVars, limits, lost, list, targets, chanVars, notifier, view, pings, overlap>>

\* PeerCount: nobody left means nobody to tell.
Count(p) ==
  /\ pc[p] = "count"
  /\ Goto(p, IF members[roomOf[p]] = {} THEN "gone" ELSE "snapLeft")
  /\ UNCHANGED <<roomVars, limits, lost, list, targets, chanVars, notifier, view, pings, overlap>>

-----------------------------------------------------------------------------
\* forwardPeerPing and forwardPeerPong: p's control reader passes a message on
\* to a member of its room through the same channel.
ForwardPing(p, q) ==
  /\ pc[p] = "serve" /\ pings < MaxPings
  /\ p # q /\ q \in members[roomOf[p]]
  /\ Offer(q, Ping)
  /\ pings' = pings + 1
  /\ UNCHANGED <<pc, roomVars, limits, lost, list, targets, notifier, view, overlap>>

\* The notifier writes the next message; the client applies a peer list.  Writing
\* no bytes sends nothing.
Notify(p) ==
  /\ notifier[p] = "run" /\ notify[p] # << >>
  /\ notify' = [notify EXCEPT ![p] = Tail(@)]
  /\ view' = [view EXCEPT ![p] = IF p \in lost \/ Head(notify[p]) \in {Ping, Empty}
                                 THEN @
                                 ELSE Head(notify[p])]
  /\ UNCHANGED <<pc, roomVars, limits, lost, list, targets, notifier, dropped, pings, overlap>>

\* A write on a lost connection fails and the notifier returns.
NotifyFails(p) ==
  /\ notifier[p] = "run" /\ notify[p] # << >> /\ p \in lost
  /\ notify' = [notify EXCEPT ![p] = Tail(@)]
  /\ notifier' = [notifier EXCEPT ![p] = "exited"]
  /\ UNCHANGED <<pc, roomVars, limits, lost, list, targets, dropped, view, pings, overlap>>

-----------------------------------------------------------------------------
HandlerStep(p) ==
  \/ Snapshot(p) \/ Accept(p) \/ OpenData(p) \/ Gather(p)
  \/ \E q \in Peers : Send(p, q)
  \/ Sent(p) \/ Exit(p) \/ DeleteEmptyRoom(p) \/ Count(p)

NotifierStep(p) == Notify(p) \/ NotifyFails(p)

Next ==
  \E p \in Peers :
    \/ Join(p) \/ Lose(p)
    \/ HandlerStep(p)
    \/ NotifierStep(p)
    \/ \E q \in Peers : ForwardPing(p, q)

Spec == Init /\ [][Next]_vars

\* Handlers run on, and a lost connection is noticed (QUIC's idle timeout).
HandlersFair == \A p \in Peers : WF_vars(HandlerStep(p))

\* Clients read what is sent to them.
FairSpec == Spec /\ HandlersFair /\ \A p \in Peers : WF_vars(NotifierStep(p))

-----------------------------------------------------------------------------
Lists == SUBSET Peers

\* Type invariant of the membership broadcast.
TypeOK ==
  /\ pc \in [Peers -> {"out", "snap", "accept", "open", "gather", "send", "serve",
                       "delete", "count", "snapLeft", "gatherLeft", "sendLeft", "gone"}]
  /\ created \in 0..Len(members) /\ current \in 0..created
  /\ roomOf \in [Peers -> 0..created]
  /\ \A r \in Rooms : members[r] \subseteq Peers
  /\ acceptMax \in 0..Cardinality(Peers) /\ listMax \in acceptMax..Cardinality(Peers)
  /\ lost \subseteq Peers
  /\ list \in [Peers -> Lists]
  /\ view \in [Peers -> Lists]
  /\ targets \in [Peers -> Lists]
  /\ \A p \in Peers : /\ Len(notify[p]) <= NotifyCap
                      /\ \A i \in 1..Len(notify[p]) : notify[p][i] \in Lists \cup {Ping, Empty}
  /\ notifier \in [Peers -> {"none", "run", "exited"}]
  /\ pings \in 0..MaxPings /\ overlap \in BOOLEAN /\ dropped \in BOOLEAN

\* Nothing is going on: no handler is busy or about to leave, and no message is
\* on its way to a client.
Quiet ==
  \A p \in Peers : ~Busy(p) /\ (pc[p] = "serve" => notify[p] = << >> /\ p \notin lost)

\* A client whose list is not the membership of its room.
Misinformed(p) == pc[p] = "serve" /\ view[p] # members[roomOf[p]]

\* If no two membership changes overlapped and no channel overflowed, then at
\* rest every client knows exactly the members of its room.
SerialChangesAgree ==
  Quiet /\ ~overlap /\ ~dropped => \A p \in Peers : ~Misinformed(p)

\* Whenever no handler is joining or leaving, every room's peer list can be sent,
\* also after joins that overlapped: a room that outgrew one message would change
\* from then on without anybody being told.  Nothing limits the members of a room but
\* the JoinAccept, which is longer than the list.
RoomsStayListable ==
  (\A p \in Peers : ~Busy(p)) => \A r \in Rooms : Cardinality(members[r]) <= listMax

\* At rest, with no list lost to a full channel, every client knows exactly the
\* members of its room: the server sends the updated list whenever
\* the membership changes.
ViewsAgree ==
  Quiet /\ ~dropped => \A p \in Peers : ~Misinformed(p)

\* A handler that tells others of a join or a departure never waits for them: it
\* can take its next step however full their Notify channels are and although
\* nothing obliges a notifier's write to a slow client to return.
BroadcastsNeverWait ==
  \A p \in Peers :
    pc[p] \in {"gather", "send", "delete", "count", "snapLeft", "gatherLeft", "sendLeft"}
      => ENABLED HandlerStep(p)

\* The notifier goroutine of a peer that is gone ends, as its ok test on the
\* Notify channel provides for.
NotifiersEnd ==
  \A p \in Peers : pc[p] = "gone" /\ notifier[p] # "none" ~> notifier[p] = "exited"
=============================================================================
