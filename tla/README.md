# TLA+ verification of anylan

anylan gives players a virtual LAN: clients connect to a relay server over QUIC,
join a *room* by name, get an IPv4 address and a MAC, and the server relays the
Ethernet frames of a room among its members. This directory holds TLA+ models of
the parts of the program that carry its logic, TLC configurations that check them
on small instances, and TLAPS proofs of the most important properties for every
instance. `PROJECT.json` maps each definition to the lines it models and lists
runs, mutants, findings, hazards and theorems.

## The system

| component | source | state | operations |
|---|---|---|---|
| room manager | `internal/relay/room.go` | name -> room, free /24s; per room: members, MAC table, free hosts, closed | `Join`, `getOrCreateRoom`, `AddPeer`, `RemovePeer`, `deleteEmptyRoom` |
| frame relay | `internal/relay/room.go`, `internal/control/handler.go` | per peer: frame queue of 128, writer goroutine, rate window | `Forward`, `Enqueue`, `AllowFrame`, `closeFrames`, the main loop of `handleStream` |
| connections | `internal/server/server.go`, `handler.go`, `client.go` | both ends of a connection, error channels of the handler's goroutines | dial, accept, refuse, fail, close, notice |
| control handler, peer lists | `internal/control/handler.go`, `room.go` | per peer: notify channel of 16, notifier goroutine | accept, `Snapshot`, `BroadcastNotify`, `SendNotify`, departure |
| client controller | `internal/client/client.go`, `local_config.go` | current session, shared status, saved configuration | `Join`, `Leave`, `runLoop`, `runSession`, `Status` methods |
| client latency tracker | `internal/client/client.go` | per peer: pending probe, last round trip | probe, pong, expiry |
| client L2/L3 bridge | `internal/client/client.go` | the peer list of the status, the writer's mutex | frames <-> TAP device or IP packets, ARP replies |
| wire protocol | `internal/protocol/protocol.go` | none | length-prefixed messages with size limits |
| capture and log recorders | `internal/capture`, `internal/logmem` | bounded rings, an enable flag | record, snapshot, enable, disable |
| server, web UI, TAP drivers, commands | `internal/server`, `internal/webui`, `webui`, `internal/tap`, `cmd` | none of their own | accept loop, HTTP handlers, OS calls |

How they meet: one goroutine per connection runs `handleStream`, which calls the
manager's `Join`, sends the accept, broadcasts the new peer list, and then relays
frames until the connection ends, when a deferred function removes the peer and
broadcasts again. Each connection also has a writer (frame queue -> data stream), a
notifier (notify channel -> control stream) and a control reader. They share the
manager (`Manager.mu`), the rooms (`Room.mu`) and the channels. A client has one
session goroutine that dials, serves and redials, four goroutines per connection,
and HTTP requests that call `Join` and `Leave`; all of them write one `Status`.

What is hard:

* `Join` and `RemovePeer` use the two locks one after the other: rooms die under
  joiners, and "the room is empty" is stale when it is acted upon;
* frames are enqueued after the room's lock is released;
* peer lists are built and sent in separate steps;
* the status of a client is written by goroutines of sessions that have ended;
* queues, channels, /24s and hosts run out;
* goroutines must end when their peer is gone, and a peer when its client is;
* a client that dials again can meet what is left of its own last connection;
* addresses are looked up in lists that may be old;
* two goroutines write one stream, a message in two pieces;
* limits: message sizes, the rate window, the capture ring.

## Modules

`AddressPlan` -- abstract specification: each peer holds at most one lease, taken
and released atomically, all leases of a room name lie in one /24 and no address is
leased twice.

`Lan` -- abstract specification of what happens to frames, without rooms, queues or
writers: peers attached under one name share a LAN; a frame is on its way only to peers
that shared its sender's LAN when it was sent, and each of them receives it once or not at
all, the frames of one sender in order.

`Relay` -- the room manager. One atomic step per locked method body:

| action | code |
|---|---|
| `StartJoin` | a `JoinRoom` message reaches `Manager.Join` |
| `FindRoom`, `CreateRoom`, `PoolFull` | `getOrCreateRoom` under `Manager.mu` |
| `AddPeer`, `AddPeerClosed`, `AddPeerRefused` | `AddPeer` under `Room.mu`; the closed case goes round `Join`'s loop |
| `Forward` | the MAC learning of `Room.Forward` |
| `RemovePeer` | its part under `Room.mu`, with `releaseHostLocked` |
| `CloseFrames`, `CloseFramesLast` | `closeFrames`, no lock |
| `DeleteEmptyRoom` | `deleteEmptyRoom` under both locks |

Room objects have identities (`RoomIds`, the pointers), so that an old and a new
room of one name can exist together. The sorted free lists are a multiset and a
set: a multiset for the /24s, because the code would append a second copy, and a
set for the hosts, because `releaseHostLocked` looks for one first. Addresses are
computed (`256 * (PoolNet + i) + host`), `nextHost` is taken `% 256`.

`Forwarding` EXTENDS `Relay` with the data path: `Connect`, `Serve`, `RefuseFrame`,
`ForwardFrame` (lookup under the lock), `Enqueue` and `EnqueueClosed` (one target at
a time, no lock; a send on a closed channel ends the process), `WriteFrame`,
`WriteFails`, `WriterEnds`, `Leave`. A handler's identity is reused only when no
pointer to its old `Peer` is left. A frame is its sender, room and sequence number.
`ImplementsLan` maps this state to `Lan`: a peer is attached while it is joined (`lans`),
what is on its way to it is its queue and the frames a main loop still holds for it
(`onTheWay`), and it has received what was written to its stream (`wire`).

`PeerList` -- membership broadcasts of one room name: `Join`, `Snapshot`, `Accept`,
`OpenData`, `Gather`, `Send`, `Sent`, `Exit`, `DeleteEmptyRoom`, `Count`,
`ForwardPing` (pings share the channel), `Notify`, `NotifyFails`, `Lose`. `view` is
what the client believes. `acceptMax` and `listMax` are how many peers fit into a
`JoinAccept` and a peer list (64 KiB; it depends on the lengths of names, so any
numbers are tried, the second at least the first): a list that does not fit becomes an
empty message, an accept that does not fit ends the handler. `overlap` and `dropped`
are history variables.

`Connection` -- both ends of a client's connections. The client: `Dial`, `ReadAccept`,
`ReadReject` (fatal), `SessionFails` (dials again), `Leave`, `JoinAgain`, `SendFrame`.
The network: `Cut`, `Notice`. The handler: `RejectJoin`, `MACInUse`, `Join`,
`WriteAccept`, `OpenData`, `SetupFails`, the main loop (`CheckReports`, `LoopEnds`,
`HandleFrame`, `ReadFails`), with its writer (`TakeFrame`, `WriteFrame`, `WriteFails`,
`WriterEnds`) and its control reader (`ControlFails`, `BadControl`). When `handleStream`
returns, its deferred calls are three steps, in the order in which they run: `Exit` closes
the data stream, whose end the client can see at once and which ends its session
(`DataEnded`), `RemovePeer` takes the peer out of the room, and `CloseConn` closes control
stream and connection. `quit` is a history variable: the connections that the client left
of itself or lost to the network, until the server has dealt with their peer. QUIC is
external; the notifier goroutine is in `PeerList`.

`DataPath` EXTENDS three components with the devices, the room and the receivers'
filters: the way of a packet from one host to another.

* `Wire` -- a data stream as the pieces written to it, the mutex of
  `ethernetFrameWriter`, `WriteMessage` in two steps, `ReadMessage`, size limits.
* `RateLimit` -- `AllowFrame` with a clock; `verdicts` is a history variable: each frame
  with the answer and the totals of frames and bytes let through up to it, so that what
  passed between two frames is a difference.
* `Recorder` -- the capture flag and ring; `Record` reads the flag, then locks.

In `DataPath` a frame is a kind (IPv4 packet, ARP request, ARP reply), two MACs, an
address and a size. `ReadIPAsEthernet` and `WriteEthernetAsIP` are the goroutines of a
client with an IP device, `ReadTAP`, `ReadTAPPacket` and `WriteTAP` those of a guest with
an Ethernet device, whose host sends ARP requests, and packets to whatever MAC its own ARP
table has for the address; `arpReply` answers for an IP device. `ReadFrame`, `Record` and `RelayFrame` are
the handler's main loop. `RemovePeer` and `AddPeer` let a client come back with any free
address and MAC, `UpdatePeers` applies the newest list late or never. `due` holds, for
every frame that was relayed, the clients whose hosts it is still to reach, from a
definition of its own (`Addressees`) that does not look at the filters.

`Controller` -- the client: `Join`, `JoinSaveFails`, Leave's three steps
(`LeaveRead`, `LeaveMark`, `LeaveCancel`), the session goroutine's steps
(`Connecting` ... `Finish`), the control reader's `ReadList` and `ApplyList`,
`Interrupt` and `Restart`. The status is `state`, `shown`, `ident`, `listed`, each
naming the configuration or session it comes from.

`Latency` -- the client's latency probes across reconnects: `Joined`, `Start`, `Lose`,
`Leave`, `EndSession`, a tracker per connection (`ExpireLatencyProbes`,
`NextLatencyProbe`, `NoProbe`, `WritePing`, `StopTracker`), and its reader
(`HandlePong`, `RecordLatencyPong`, `UpdatePeers`). The way of a ping through the relay
to the peer and of the pong back is one stay in `flight`, from which it may be lost.
There is no clock: `Tick` ages entries and messages up to `Interval`, so no run needs
a bound on time. `order` is the sequence of listed peers by `PeerLatency.Order`.

`MC*` modules hold constants, scenarios, views and symmetries for TLC. `RelayProofs`,
`RelayPromises`, `ForwardingProofs`, `PeerListProofs`, `ConnectionProofs`,
`ControllerProofs`, `LatencyProofs` and `DataPathProofs` hold theorems.

Definitions named `Mut...` are wrong variants of the definition that follows them,
each a bug that code could plausibly have; they are used by nothing and show that
the property named beside them in `PROJECT.json` would catch it.

## Runs

| run | result | question |
|---|---|---|
| `relay` | pass | allocation, membership, MAC tables, refinement of `AddressPlan`; empty rooms are joined or deleted; `Join` ends: 3 handlers, 2 names, 1 /24 with 2 hosts |
| `relay_orphan` | violation | an empty room is always tended, with invalid MACs requested |
| `forwarding` | pass | room isolation, order per sender, /24s: 3 peers, 3 names, 2 /24s, queues of 2, 3 frames, 3 joins |
| `forwarding_panic` | violation | the server survives departures |
| `peerlist` | pass | serial changes give right lists; rooms stay listable, overlapping joins included, and broadcasts never wait for a client: 3 connections, room for 2 or 3 peers in a message |
| `peerlist_stale` | violation | overlapping changes give right lists |
| `peerlist_leak` | violation | notifiers of departed peers end |
| `controller` | pass | one session, no stale address, saved room, serial status, cancel ends |
| `controller_status` | violation | a settled status tells whether there is a session |
| `latency` | pass | genuine round trips, no probe pending for ever, no peer starved: 2 peers, 2 connections |
| `connection` | pass | who can be refused for the MAC of its own old peer, refusals arrive, departures are noticed, nobody waits in vain: 1 client, 2 connections |
| `datapath` | pass | framing, sizes, rate limit, capture ring, packets and ARP answers reach whom they should: 2 IP clients, 1 guest, 7 scenarios |

What the violations show:

* `relay_orphan`: a `Join` that creates a room and is refused for its MAC leaves the
  room empty; only a later join and departure of that name frees its /24.
* `forwarding_panic`: `Enqueue` sends on a channel that `RemovePeer` closed after
  `Forward` returned its targets; the panic ends the server for everyone.
* `peerlist_stale`: a joiner takes its snapshot, somebody else leaves and broadcasts,
  and then the joiner sends its older list, which stays on the clients' screens.
* `peerlist_leak`: `Peer.Notify` is never closed, so each departure leaves a
  goroutine behind.
* `controller_status`: a session that stops by itself while `Leave` runs leaves the
  state at "leaving" with no session. `SerialStatus` excludes three overlaps by the
  history variable `overtaken`: this one, an old session's late "idle" over a new
  session's status, and a peer list applied after its connection ended.

Bounds. Two hosts per room are the least for which a room can be full, have a freed
number below a used one and hand it out again; three handlers are the least for which a
room dies under a joiner while a third one replaces it. In `relay` two handlers ask for
one room and the third for either of two (`MCNext`), with one /24, so that the pool is
full for the other name and the /24 changes names, and no symmetry is needed for its
liveness properties; `forwarding`, which extends `Relay`, has three names that anybody
may ask for and two /24s, and the proofs cover any number of both.
Queues and channels of two messages fill up soon, and frames wait in them one behind the
other; `MaxSent`, `MaxJoins` and `MaxPings` bound histories that could go on. In
`forwarding` joins and frames together are at most `MaxWork` = 5 (`MCNext`): two peers send
three frames, more than a queue holds, or three peers two. Two sessions are enough for one
goroutine to be late while the other one runs. `forwarding` uses symmetry
and a VIEW that drops the fields of room objects nothing refers to; no run with a
liveness property uses symmetry. `peerlist` explores joins and departures that overlap as
well. An overlap or a loss is never forgotten, and after one `SerialChangesAgree` says
nothing; from there on its VIEW tells states apart by handlers, rooms, limits and the
snapshots still to be accepted, all that `RoomsStayListable` depends on, and no longer by
what is in the channels and on the clients' screens. `latency` has two probe IDs, enough
for a late pong to meet a newer probe of its peer, two connections, so that an old
tracker meets a new session, and `Interval` = `Timeout` = 1 tick, so that an expired probe
is due at once and a peer at the front of the list could take every turn. `connection`
has two connections: what is left of the last one, and the one being set up; `MaxData` = 1
keeps one unread frame, enough for the main loop to read on past a report. `datapath`
would be too large with everything at once, so `Scenarios` lists what may happen together:
six packets of two sizes at four instants (windows of two ticks, two frames and six bytes,
so that both limits bite, windows meet, and more is sent than two windows let through);
three packets of two clients and three
switches of a ring of two events; a client's packet, an ARP request, and a guest's packet, each while two moves exchange
addresses and MACs (four of each for three clients); two packets and a request (two
writers of one stream); and packets larger than the frame limit. Deadlock is
checked in `relay`, `controller`, `latency` and `connection`; the others stop when their
bounds are used up or the server has died.

Fairness. A goroutine that can take its next step takes it: weak fairness of
`Step`, of writers, enqueuers, handlers and session goroutines, which the Go
scheduler and mutexes provide. Nothing is assumed of users and clients (joining,
sending, leaving). `BroadcastsNeverWait` is a safety property and assumes nothing of
notifiers, whose writes a slow client can block. In `latency` time passes, a message is
delivered or lost, and a session that is accepted starts its goroutines or fails;
nothing is assumed of reconnects. In `connection`
the handler, its writer and its control reader run on when they can, a client acts on an
answer or a failure, and an end whose counterpart is gone notices it; nobody has to dial,
send, read frames, write to a slow client or leave. A lost connection is noticed by QUIC's idle timeout of 60 seconds; the
same timeout ends a client's wait for the answer to its `JoinRoom`, which does not
watch the session's context.

## Proofs

`RelayProofs` proves `Spec => []RelayInv`, for any sets of handlers, names, rooms and
MACs, any pool and host range allowed by the assumptions of `Relay`
(`PoolAssumption`: the pool fits the address space, as `LoadPool` ensures;
`HostAssumption`: hosts are below 255; `MACAssumption`, `NullAssumption`,
`NullIsNoLease`: what the sets mean). The properties alone are not inductive.
`RelayInv` adds three parts. `HandlersSound`: where a handler stands in `Join` or
`RemovePeer` determines what it holds (no room before it found one, afterwards a room
of its name that is the one in the map or is closed; once joined, a MAC it asked for
or that was drawn, and a host of the range). `MapSound`: the map sends a name to an
open room of that name. `PeersSound`: a room's members are exactly the handlers that
joined it. There is one lemma per conjunct, with one case per action.
Consequences: `TypeCorrect`, `IndicesPartitioned`, `HostsPartitioned`,
`MembersStayLive`, `MACTablesSound`, and `NoAddressShared`, which follows from both
partitions since addresses of different /24s differ.

`RelayPromises` proves that `Relay` implements `AddressPlan` (every step maps to
taking a lease, releasing one, or a stutter), that no empty room is forgotten when
all requested MACs are valid (the assumption that `relay_orphan` shows to be needed;
the key lemma is that a room that refuses a valid MAC or is full has members), and
that a requested MAC is held once.

`ForwardingProofs` first shows that `Forwarding` is a `Relay`: a step of the data path is a
step of the room manager or leaves it alone, so `RelayInv` and all that follows from it
hold there too (`DataPathKeepsRelay`, `FwIndicesPartitioned`). On top of it `FwInv` proves
`RoomIsolation` and `SenderOrder` for any queue capacity and number of frames
(`DataAssumption`). Neither is inductive, because targets are served one by one after the
lock is released. `TargetsSound`: a target still held is a peer of the loop's room, or a
`Peer` object whose handler has returned, never the peer of a later connection.
`NewStreamsEmpty`: nothing has been sent to a client that has not joined. `SeqsSound`: what
reached a client was counted by its sender, and is older than the frame the sender still has
for it.

`ForwardingImplementsLan` is the refinement: the lookup of the targets is the moment a
frame is sent, `Enqueue` keeps or loses it, `WriteFrame` delivers it, and everything else
is a stutter or a change of membership. What is delivered must be the earliest frame of its
sender on its way to that client (`HeadOfOrder`, from `SeqsSound`), although the queue and
the frames not yet enqueued are looked at by nobody together. TLC found the same on an
instance like that of `forwarding`, queues of one frame and two frames sent, with `ImplementsLan`
as a PROPERTY (763184 states; no run checks it, for the time it takes). `DiesOnlyOfDepartures` complements the
finding of `forwarding_panic`: if no peer leaves between the lookup and the `Enqueue` at
it (`OrderlyLeave`), the server never sends on a closed channel. So that is the only way
to it, and one lock around both would close it.

`PeerListProofs` proves `TypeOK`, `RoomsStayListable` and `SerialChangesAgree`, for any
finite set of connections, capacity and limits (`ListAssumption`; a server has finitely
many connections, and a list of a finite room is counted). `RoomsStayListable` speaks of
every state in which no handler is in the middle of a change, whatever overlapped before; it needs
`LastSeesAll`: of any set of members of a room one took its snapshot last and saw the others,
hence had to fit them all into its accept. `SerialChangesAgree` needs what is going on in the
middle of a change: only one handler is busy (`OneChange`), its snapshot is the membership
(`SnapshotsTrue`), and the messages under way to a client give the membership when they are
applied, or the busy handler will still tell it (`AllTold`).

`ControllerProofs` proves `TypeOK`, `OneSession`, `AddressIsCurrent` and `RestartRemembers`.
They become inductive with `EndsItsAddress`: a goroutine whose `runLoop` has returned
while the status still shows its address has a cancelled context, hence will clear it.
`StatusInv` proves `SerialStatus`: as long as no session was overtaken there is one
goroutine, and the state and the list follow where it stands, also between two steps of
`Leave` and of `runLoop`.

`LatencyProofs` proves `TypeOK` and the action property `RoundTripsGenuine` for any peers,
nonces, intervals and number of connections (`LatencyAssumption`: a timeout is not longer
than the interval, lists name no peer twice, `None` is no nonce). `LatInv`: the map follows
the list, nothing is pending or under way between sessions, and `ProbesMatch`: every ping
or pong, wherever it is, that has the ID of a pending probe is that probe's, of the same
peer and age, and a pong about to be recorded is of the present session.

`ConnectionProofs` proves, for any number of connections, that the error channels never
overflow (`TypeOK`), `OneMoreFrame`, and the action properties `RefusalsReachClient` and
`OldPeersExplained`: a client that waits for its answer is refused for the MAC of its own
old peer only if it left or lost that session, or if the server has closed its data stream
and is about to remove the peer. (It can happen in that moment: the client sees the end of
the data stream before `RemovePeer` has run. What the order of the deferred calls ensures
is that no longer wait lies between the two.) `ConnInv` adds what makes them inductive: a
peer is in the room only while its handler is between `Join` and `RemovePeer`
(`MembersServed`); a connection is closed under its client only when the handler is done
with it (`ClosedLast`); a connection that the client has left while its handler is still
working is one that it quit (`LeftIsQuit`); a client that waits has its end of the
connection open (`SessionOpen`); a goroutine that has not ended has not
reported (`ReportsOnce`); a late frame was handled by a loop that is about to look at the
reports (`LateOnce`); the handler of a refused connection is done and left it open
(`RefusedStayOpen`).

`DataPathProofs` proves all eight invariants of `DataPath`, for any clients, frames, limits
and scenarios (`LimitAssumption`, `WireAssumption`, `RateAssumption`, `DataPathAssumption`).
The recorder, the streams and the rate limit have an invariant each over their own
variables, and the lemmas `RecSteps`, `DataStep` and `RateSteps` say that a step of the data
path is one of the component's or leaves it alone.

* Streams (`FramingIntact`, `FramesFit`): headers and payloads alternate, each payload
  follows its own header, and the stream ends with a header exactly while a goroutine holds
  the mutex, which is writing that header's frame. `FramesFit` needs that a frame too large
  was a packet of a size in the scenario (`SizesKnown`), hence the types of everything a
  frame is made from (`DataType`).
* Rate limit (`BurstBounded`, `RefusalsJustified`): `WindowFrom` says after which frame
  of the history the window began, that the counters are what was let through since, and
  that the frames less than a window's length before its start kept the limits as well.
  That last part is what bounds an interval over two windows by twice the limit.
* The way of the frames (`PacketsReachOwners`, `OneARPAnswer`), `WayInv`. `Upstream`: a
  frame's number is at one place only, with a goroutine that waits for the mutex, in the
  stream, or with the handler, and waits for no client before its handler is done with it.
  `Distinct`: members have distinct addresses and MACs, and nothing waits for who is not a
  member. `Downstream`: a frame waits at most once for a client, and the client's filters
  take it exactly if it is due to it. The step that matters is `ForwardReaches`: among the
  targets of `Forward`, those whose filters take the frame are its addressees, and there are
  no other addressees.

Liveness. The provers know nothing of `ENABLED`, so these theorems write the weak fairness
of an action `A` as `[]<>~G \/ []<><<A>>_vars`, where `G` is a state predicate, the guard of
`A`. That `G` implies `ENABLED <<A>>_vars`, so that the formula is no more than
`WF_vars(A)` gives, is not proved; TLC checked it, and that each `FairSpec` implies the
formulas, on the instances of the runs. The rest is ordinary: which steps leave a state,
which leave it alone, and that no other step leads elsewhere, combined by temporal logic.

* `CancelledSessionsEnd` (`CancelEnds`): each place of `runLoop` that a cancelled session can
  be in leads to a later one, and no step of others moves it back.
* `NobodyWaitsInVain` (`ClientsNotLeftWaiting`) and `GoneClientsLeave`
  (`DeparturesNoticed`): a client whose handler has returned ends its session; a server whose
  client is gone notices, then control reader, main loop, and the deferred calls for data
  stream, peer and connection follow one another, and the writer ends. The notifier is not
  among these goroutines: `peerlist_leak` shows that it stays.
* `JoinsEnd` (`JoinEnds`): `Join` goes round its loop for ever only if rooms are deleted for
  ever. Its fairness holds while `Allocates` does: a room object can be allocated and a MAC
  drawn. The model's sets of both are finite, a server's memory is not exhausted here.
* `EmptyRoomsSettle` (`EmptyRoomsEnd`), for clients that ask for valid MACs: an empty room
  has a tender (`EmptyRoomsAreTended`), whose step joins or deletes it, perhaps after closing
  a queue. `TendersRun` is fairness of the group of its tenders; it follows from the fairness
  of each, as a handler tends the room until its own next step, and no proof is given of
  that.
* `ProbesAlwaysEnd` (`ProbesEnd`): a pending probe grows old, and a tracker that is up expires
  it, or the session ends and drops it. `Timeout <= 3` stands for the 3 seconds of
  `client.go:37` with ticks of one (`client.go:36`); any timeout would need induction over it.
  `TrackerRuns` is fairness of the tracker of the present connection, which follows
  from that of each.

Only model-checked are `BroadcastsNeverWait`, which is stated with `ENABLED`, and
`NobodyStarves` of `Latency`, where a peer moves forward position by position in a list of
any length, an induction out of the provers' reach; of the runs' other properties each is
stated by a theorem. Each inductive invariant was also checked by TLC on the instance of its
run before it was proved.

## Not modelled

Traffic counters, timestamps, log lines, the last error, the length of the back-off;
TLS, sockets, TAP
devices and the browser. Peer IDs (64 random bits) are taken to be distinct. Random
MACs are not: `RandomMACs` may collide, as in the code (a failure of the system's random
source, which makes `AddPeer` fail, is left out); in `DataPath` members' MACs
differ. JSON, flags, the web UI's HTTP handlers and the dissector of captured frames
convert and format. The log recorder is a ring under one mutex, like the capture
recorder's. A latency probe's times are those of the step that takes it, in the code the
tick's, read just before the locks. Clients' own capture recorders run the code of `Recorder`.
The announced MTU comes from a flag nobody checks: `FramesFit` holds for an MTU that
leaves room for the Ethernet header within 1600 bytes, and says so.

## Plan

1. Done: `Relay`, `AddressPlan`, `Forwarding`, `Lan`, `PeerList`, `Controller`, `Latency`,
   `Connection`, `Wire`, `RateLimit`, `Recorder`, `DataPath`; proofs of all their properties
   but two.
2. Proofs: `BroadcastsNeverWait` and `NobodyStarves`, when the provers allow `ENABLED` and
   induction.
3. Models: the notifier and the control reader of `Connection` with the messages of
   `PeerList`, in one composition; several rooms in `PeerList`.
