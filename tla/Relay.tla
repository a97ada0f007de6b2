-------------------------------- MODULE Relay --------------------------------
(***************************************************************************)
(* The relay's room manager (internal/relay/room.go): a Manager that gives  *)
(* every live room one /24 of the pool, rooms that give every member one    *)
(* host address of their /24 and keep a MAC table, and the connection       *)
(* handlers that join and leave rooms concurrently.                         *)
(*                                                                          *)
(* Manager.mu and Room.mu make each method body one atomic step.  Join and  *)
(* RemovePeer take the two locks one after the other, so each is several    *)
(* steps here, and other handlers run between them.                         *)
(*                                                                          *)
(* Peer IDs (64 random bits, the keys of Room.peers) are taken to be        *)
(* distinct: a peer is named by the handler that owns it.                   *)
(***************************************************************************)
EXTENDS Integers

CONSTANTS
  Handlers,      \* connection handlers; each owns at most one Peer at a time
  Names,         \* room names
  RoomIds,       \* identities of *Room objects (pointers)
  MACs,          \* hardware addresses
  ValidMACs,     \* those validPeerMAC accepts: unicast, six bytes, not all zero
  RandomMACs,    \* those randomMAC can draw
  RequestMACs,   \* those a JoinRoom message may ask for
  PoolNet,       \* the upper 24 bits of the pool's network address
  MaxRooms,      \* 1 << (24 - pool.Bits()): the number of /24s in the pool
  FirstHost,     \* firstUsableHost
  LastHost,      \* lastUsableHost
  Null           \* Go's nil: no room, no peer, no requested MAC

\* A pool prefix is masked and at most 24 bits long (server.LoadPool), so the
\* lower 8 bits of its address are zero and its /24s stay in the address space:
\* base + (index << 8) does not overflow a uint32.
ASSUME PoolAssumption ==
  /\ PoolNet \in Nat /\ MaxRooms \in Nat
  /\ PoolNet + MaxRooms <= 256 * 256 * 256

\* Host numbers are uint8 and 255 is not usable, so nextHost cannot wrap.
ASSUME HostAssumption ==
  /\ FirstHost \in 0..254 /\ LastHost \in 0..254
  /\ FirstHost <= LastHost

ASSUME MACAssumption ==
  /\ ValidMACs \subseteq MACs
  /\ RandomMACs \subseteq ValidMACs   \* randomMAC clears the group bit, sets the local bit
  /\ RequestMACs \subseteq MACs

ASSUME NullAssumption == Null \notin RoomIds \cup Handlers \cup MACs \cup Names

ASSUME NullIsNoLease == Null \notin [name : Names, addr : Nat]

VARIABLES
  \* Manager
  rooms,         \* room name -> live *Room, or Null
  nextRoom,      \* first /24 never handed out
  freeRoom,      \* the sorted slice of returned /24s, as a multiset
  \* Room objects
  roomName, index, peers, macToPeer, nextHost, freeHosts, closed,
  \* handlers, and the Peer each owns
  pc,            \* where the handler is in Join or RemovePeer
  want,          \* the arguments of its Join call
  room,          \* Join's local room, then Peer.Room
  ip, mac,       \* Peer.IP (a uint32) and Peer.MAC
  framesOpen     \* Peer.Frames has been made and not been closed

managerVars == <<rooms, nextRoom, freeRoom>>
roomVars    == <<roomName, index, peers, macToPeer, nextHost, freeHosts, closed>>
peerVars    == <<ip, mac, framesOpen>>
vars == <<managerVars, roomVars, pc, want, room, peerVars>>

-----------------------------------------------------------------------------
Indices == 0 .. MaxRooms - 1
Hosts   == FirstHost .. LastHost

\* prefix.Addr() + host, with prefix.Addr() = base + (index << 8)
Address(i, host) == 256 * (PoolNet + i) + host
Addresses == {Address(i, host) : i \in Indices, host \in Hosts}

\* ip.As4()[3]
HostOf(a) == a % 256

\* The *Room pointers that something still refers to; the others are garbage.
Live      == {rooms[n] : n \in Names} \ {Null}
Reachable == Live \cup {room[h] : h \in Handlers}

Init ==
  /\ rooms = [n \in Names |-> Null]
  /\ nextRoom = 0
  /\ freeRoom = [i \in Indices |-> 0]
  /\ roomName = [r \in RoomIds |-> Null]
  /\ index = [r \in RoomIds |-> 0]
  /\ peers = [r \in RoomIds |-> {}]
  /\ macToPeer = [r \in RoomIds |-> [m \in MACs |-> Null]]
  /\ nextHost = [r \in RoomIds |-> FirstHost]
  /\ freeHosts = [r \in RoomIds |-> {}]
  /\ closed = [r \in RoomIds |-> FALSE]
  /\ pc = [h \in Handlers |-> "idle"]
  /\ want = [h \in Handlers |-> [name |-> Null, mac |-> Null]]
  /\ room = [h \in Handlers |-> Null]
  /\ ip = [h \in Handlers |-> 0]
  /\ mac = [h \in Handlers |-> Null]
  /\ framesOpen = [h \in Handlers |-> FALSE]

-----------------------------------------------------------------------------
(* Manager.Join: look the room up or create it (m.mu), then add the peer     *)
(* (r.mu); start again if the room was closed in between.                    *)

\* A connection's JoinRoom message is read and Manager.Join called.
StartJoin(h, n, m) ==
  /\ pc[h] = "idle"
  /\ pc' = [pc EXCEPT ![h] = "lookup"]
  /\ want' = [want EXCEPT ![h] = [name |-> n, mac |-> m]]
  /\ UNCHANGED <<managerVars, roomVars, room, peerVars>>

\* The handler is done with its Join or RemovePeer call and drops its pointers.
Return(h) ==
  /\ pc' = [pc EXCEPT ![h] = "idle"]
  /\ want' = [want EXCEPT ![h] = [name |-> Null, mac |-> Null]]
  /\ room' = [room EXCEPT ![h] = Null]
  /\ ip' = [ip EXCEPT ![h] = 0]
  /\ mac' = [mac EXCEPT ![h] = Null]

\* Mutation: the free list is popped without a look at its length.
MutAllocateRoomIndex(i) ==
  /\ freeRoom' = [freeRoom EXCEPT ![i] = @ - 1]
  /\ UNCHANGED nextRoom

\* allocateRoomIndexLocked hands out i: the last, hence smallest, element of
\* freeRoom, which is kept in descending order, or else a fresh index.
AllocateRoomIndex(i) ==
  \/ /\ freeRoom[i] > 0
     /\ \A j \in Indices : freeRoom[j] > 0 => i <= j
     /\ freeRoom' = [freeRoom EXCEPT ![i] = @ - 1]
     /\ UNCHANGED nextRoom
  \/ /\ \A j \in Indices : freeRoom[j] = 0
     /\ nextRoom < MaxRooms
     /\ i = nextRoom
     /\ nextRoom' = nextRoom + 1
     /\ UNCHANGED freeRoom

\* getOrCreateRoom, room present.
FindRoom(h) ==
  /\ pc[h] = "lookup"
  /\ rooms[want[h].name] # Null
  /\ room' = [room EXCEPT ![h] = rooms[want[h].name]]
  /\ pc' = [pc EXCEPT ![h] = "add"]
  /\ UNCHANGED <<managerVars, roomVars, want, peerVars>>

\* getOrCreateRoom, room absent: r is the fresh &Room{...}.
CreateRoom(h) ==
  /\ pc[h] = "lookup"
  /\ rooms[want[h].name] = Null
  /\ \E i \in Indices, r \in RoomIds \ Reachable :
       /\ AllocateRoomIndex(i)
       /\ rooms' = [rooms EXCEPT ![want[h].name] = r]
       /\ roomName' = [roomName EXCEPT ![r] = want[h].name]
       /\ index' = [index EXCEPT ![r] = i]
       /\ peers' = [peers EXCEPT ![r] = {}]
       /\ macToPeer' = [macToPeer EXCEPT ![r] = [m \in MACs |-> Null]]
       /\ nextHost' = [nextHost EXCEPT ![r] = FirstHost]
       /\ freeHosts' = [freeHosts EXCEPT ![r] = {}]
       /\ closed' = [closed EXCEPT ![r] = FALSE]
       /\ room' = [room EXCEPT ![h] = r]
  /\ pc' = [pc EXCEPT ![h] = "add"]
  /\ UNCHANGED <<want, peerVars>>

\* getOrCreateRoom, room absent and no /24 left: ErrPoolFull.
PoolFull(h) ==
  /\ pc[h] = "lookup"
  /\ rooms[want[h].name] = Null
  /\ nextRoom >= MaxRooms /\ \A j \in Indices : freeRoom[j] = 0
  /\ Return(h)
  /\ UNCHANGED <<managerVars, roomVars, framesOpen>>

\* Mutation: Join tries the closed room again without looking it up.
MutAddPeerClosed(h) ==
  /\ pc[h] = "add"
  /\ closed[room[h]]
  /\ UNCHANGED vars

\* AddPeer on a room that deleteEmptyRoom closed meanwhile: ErrRoomClosed, and
\* Join goes round its loop.
AddPeerClosed(h) ==
  /\ pc[h] = "add"
  /\ closed[room[h]]
  /\ pc' = [pc EXCEPT ![h] = "lookup"]
  /\ room' = [room EXCEPT ![h] = Null]
  /\ UNCHANGED <<managerVars, roomVars, want, peerVars>>

\* Mutation: ErrMACInUse is never returned.
MutMACRefused(h) == want[h].mac # Null /\ want[h].mac \notin ValidMACs

\* The requested MAC is refused: ErrMACInvalid or ErrMACInUse.
MACRefused(h) ==
  /\ want[h].mac # Null
  /\ want[h].mac \in ValidMACs => macToPeer[room[h]][want[h].mac] # Null

\* The MACs AddPeer may give the peer: the requested one or a random draw,
\* which is not compared with the MACs in use.
MACChoices(h) == IF want[h].mac # Null THEN {want[h].mac} ELSE RandomMACs

\* allocateHostLocked fails: ErrRoomFull.
RoomFull(r) == freeHosts[r] = {} /\ nextHost[r] > LastHost

\* Mutation: a free host is handed out and stays on the free list.
MutAllocateHost(r, host) ==
  \/ /\ host \in freeHosts[r]
     /\ UNCHANGED <<freeHosts, nextHost>>
  \/ /\ freeHosts[r] = {}
     /\ nextHost[r] <= LastHost
     /\ host = nextHost[r]
     /\ nextHost' = [nextHost EXCEPT ![r] = (@ + 1) % 256]
     /\ UNCHANGED freeHosts

\* allocateHostLocked hands out host: the first, hence smallest, element of
\* freeHosts, which is kept in ascending order, or else nextHost, a uint8.
AllocateHost(r, host) ==
  \/ /\ host \in freeHosts[r]
     /\ \A k \in freeHosts[r] : host <= k
     /\ freeHosts' = [freeHosts EXCEPT ![r] = @ \ {host}]
     /\ UNCHANGED nextHost
  \/ /\ freeHosts[r] = {}
     /\ nextHost[r] <= LastHost
     /\ host = nextHost[r]
     /\ nextHost' = [nextHost EXCEPT ![r] = (@ + 1) % 256]
     /\ UNCHANGED freeHosts

\* AddPeer fails for good and Join returns the error.  The room stays as it is.
AddPeerRefused(h) ==
  /\ pc[h] = "add"
  /\ ~closed[room[h]]
  /\ MACRefused(h) \/ RoomFull(room[h])
  /\ Return(h)
  /\ UNCHANGED <<managerVars, roomVars, framesOpen>>

\* Mutation: room.closed is not looked at.
MutAddPeer(h) ==
  /\ pc[h] = "add"
  /\ ~MACRefused(h)
  /\ \E m \in MACChoices(h), host \in Hosts :
       /\ AllocateHost(room[h], host)
       /\ ip' = [ip EXCEPT ![h] = Address(index[room[h]], host)]
       /\ mac' = [mac EXCEPT ![h] = m]
       /\ macToPeer' = [macToPeer EXCEPT ![room[h]][m] = h]
  /\ peers' = [peers EXCEPT ![room[h]] = @ \cup {h}]
  /\ framesOpen' = [framesOpen EXCEPT ![h] = TRUE]
  /\ pc' = [pc EXCEPT ![h] = "joined"]
  /\ UNCHANGED <<managerVars, roomName, index, closed, want, room>>

\* AddPeer succeeds; the handler now owns a peer.  A failure of the system's
\* random source (randomHex, randomMAC) is left out.
AddPeer(h) ==
  /\ pc[h] = "add"
  /\ ~closed[room[h]]
  /\ ~MACRefused(h)
  /\ \E m \in MACChoices(h), host \in Hosts :
       /\ AllocateHost(room[h], host)
       /\ ip' = [ip EXCEPT ![h] = Address(index[room[h]], host)]
       /\ mac' = [mac EXCEPT ![h] = m]
       /\ macToPeer' = [macToPeer EXCEPT ![room[h]][m] = h]
  /\ peers' = [peers EXCEPT ![room[h]] = @ \cup {h}]
  /\ framesOpen' = [framesOpen EXCEPT ![h] = TRUE]
  /\ pc' = [pc EXCEPT ![h] = "joined"]
  /\ UNCHANGED <<managerVars, roomName, index, closed, want, room>>

-----------------------------------------------------------------------------
\* Room.Forward's effect on the room: a member's own MAC is learned again.
Forward(h) ==
  /\ pc[h] = "joined"
  /\ h \in peers[room[h]]
  /\ macToPeer' = [macToPeer EXCEPT ![room[h]][mac[h]] = h]
  /\ UNCHANGED <<managerVars, roomName, index, peers, nextHost, freeHosts,
                 closed, pc, want, room, peerVars>>

(* Room.RemovePeer: drop the peer (r.mu), close its queue (no lock), and, if *)
(* the room was seen empty, ask the manager to delete it (m.mu and r.mu).    *)

\* Mutation: the range check leaves out firstUsableHost.
MutReleaseHost(r, a) ==
  freeHosts' = [freeHosts EXCEPT ![r] = @ \cup ({HostOf(a)} \cap (Hosts \ {FirstHost}))]

\* releaseHostLocked: an address outside the usable range is ignored, and so is
\* one that is already free.
ReleaseHost(r, a) ==
  freeHosts' = [freeHosts EXCEPT ![r] = @ \cup ({HostOf(a)} \cap Hosts)]

\* Mutation: the MAC table keeps the entry of the peer that leaves.
MutRemovePeer(h) ==
  /\ pc[h] = "joined"
  /\ h \in peers[room[h]]
  /\ peers' = [peers EXCEPT ![room[h]] = @ \ {h}]
  /\ ReleaseHost(room[h], ip[h])
  /\ pc' = [pc EXCEPT ![h] = IF peers[room[h]] = {h} THEN "closeLast" ELSE "close"]
  /\ UNCHANGED <<managerVars, roomName, index, nextHost, closed, want, room, peerVars,
                 macToPeer>>

RemovePeer(h) ==
  /\ pc[h] = "joined"
  /\ h \in peers[room[h]]
  /\ LET r == room[h] IN
       /\ peers' = [peers EXCEPT ![r] = @ \ {h}]
       /\ ReleaseHost(r, ip[h])
       /\ macToPeer' = [macToPeer EXCEPT ![r] =
                          [m \in MACs |-> IF @[m] = h THEN Null ELSE @[m]]]
       /\ pc' = [pc EXCEPT ![h] =
                   IF peers[r] = {h} THEN "closeLast" ELSE "close"]
  /\ UNCHANGED <<managerVars, roomName, index, nextHost, closed, want, room, peerVars>>

\* closeFrames; a handler that did not see the room empty is finished.
CloseFrames(h) ==
  /\ pc[h] = "close"
  /\ framesOpen' = [framesOpen EXCEPT ![h] = FALSE]
  /\ Return(h)
  /\ UNCHANGED <<managerVars, roomVars>>

\* Mutation: the last peer returns without deleteEmptyRoom.
MutCloseFramesLast(h) ==
  /\ pc[h] = "closeLast"
  /\ framesOpen' = [framesOpen EXCEPT ![h] = FALSE]
  /\ Return(h)
  /\ UNCHANGED <<managerVars, roomVars>>

CloseFramesLast(h) ==
  /\ pc[h] = "closeLast"
  /\ framesOpen' = [framesOpen EXCEPT ![h] = FALSE]
  /\ pc' = [pc EXCEPT ![h] = "delete"]
  /\ UNCHANGED <<managerVars, roomVars, want, room, ip, mac>>

\* Mutations: the room is not looked up again, or not counted again.
MutDeletableNoLookup(r) == peers[r] = {}
MutDeletableNoCount(r) == rooms[roomName[r]] = r

\* deleteEmptyRoom looks again: the room may have been joined or deleted since.
Deletable(r) == rooms[roomName[r]] = r /\ peers[r] = {}

DeleteEmptyRoom(h) ==
  /\ pc[h] = "delete"
  /\ LET r == room[h] IN
       IF Deletable(r)
       THEN /\ closed' = [closed EXCEPT ![r] = TRUE]
            /\ rooms' = [rooms EXCEPT ![roomName[r]] = Null]
            /\ freeRoom' = [freeRoom EXCEPT ![index[r]] = @ + 1]
       ELSE UNCHANGED <<closed, rooms, freeRoom>>
  /\ Return(h)
  /\ UNCHANGED <<nextRoom, roomName, index, peers, macToPeer, nextHost,
                 freeHosts, framesOpen>>

-----------------------------------------------------------------------------
\* The steps a goroutine inside Join or RemovePeer takes without waiting for
\* anyone but the holder of a mutex.
Step(h) ==
  \/ FindRoom(h) \/ CreateRoom(h) \/ PoolFull(h)
  \/ AddPeerClosed(h) \/ AddPeerRefused(h) \/ AddPeer(h)
  \/ CloseFrames(h) \/ CloseFramesLast(h) \/ DeleteEmptyRoom(h)

Next ==
  \E h \in Handlers :
    \/ \E n \in Names, m \in RequestMACs \cup {Null} : StartJoin(h, n, m)
    \/ Step(h)
    \/ Forward(h)
    \/ RemovePeer(h)

Spec == Init /\ [][Next]_vars

\* Nothing obliges a client to join, to send or to leave, but a call of Join or
\* RemovePeer that has begun runs on.
FairSpec == Spec /\ \A h \in Handlers : WF_vars(Step(h))
-----------------------------------------------------------------------------
\* Type invariant of the manager, the rooms and the handlers of room.go.
TypeOK ==
  /\ rooms \in [Names -> RoomIds \cup {Null}]
  /\ nextRoom \in 0..MaxRooms
  /\ freeRoom \in [Indices -> Nat]
  /\ roomName \in [RoomIds -> Names \cup {Null}]
  /\ index \in [RoomIds -> Nat]
  /\ peers \in [RoomIds -> SUBSET Handlers]
  /\ macToPeer \in [RoomIds -> [MACs -> Handlers \cup {Null}]]
  /\ nextHost \in [RoomIds -> FirstHost .. LastHost + 1]
  /\ freeHosts \in [RoomIds -> SUBSET Hosts]
  /\ closed \in [RoomIds -> BOOLEAN]
  /\ pc \in [Handlers -> {"idle", "lookup", "add", "joined",
                          "close", "closeLast", "delete"}]
  /\ want \in [Handlers -> [name : Names \cup {Null},
                            mac : RequestMACs \cup {Null}]]
  /\ room \in [Handlers -> RoomIds \cup {Null}]
  /\ ip \in [Handlers -> Addresses \cup {0}]
  /\ mac \in [Handlers -> MACs \cup {Null}]
  /\ framesOpen \in [Handlers -> BOOLEAN]

Joined == {h \in Handlers : pc[h] = "joined"}

\* Every /24 handed out so far belongs to exactly one live room or is once on
\* the free list: no /24 is lost, freed twice or shared (allocateRoomIndexLocked
\* and deleteEmptyRoom).
IndexPartition ==
  /\ \A i \in Indices : freeRoom[i] <= 1
  /\ \A r \in Live : index[r] < nextRoom /\ freeRoom[index[r]] = 0
  /\ \A r, s \in Live : index[r] = index[s] => r = s
  /\ \A i \in Indices : IF i < nextRoom
                        THEN freeRoom[i] = 1 \/ \E r \in Live : index[r] = i
                        ELSE freeRoom[i] = 0

\* In a live room every host number handed out so far belongs to exactly one
\* member or is on the free list, so "room is full" is said only of a room whose
\* members hold every usable host (allocateHostLocked, releaseHostLocked).
HostPartition ==
  \A r \in Live :
    /\ \A h \in peers[r] : HostOf(ip[h]) < nextHost[r] /\ HostOf(ip[h]) \notin freeHosts[r]
    /\ \A h, g \in peers[r] : HostOf(ip[h]) = HostOf(ip[g]) => h = g
    /\ \A k \in Hosts : IF k < nextHost[r]
                        THEN k \in freeHosts[r] \/ \E h \in peers[r] : HostOf(ip[h]) = k
                        ELSE k \notin freeHosts[r]

\* No two peers of the relay, in one room or in two, have the same IPv4 address
\* at the same time.
AddressesUnique == \A h, g \in Joined : ip[h] = ip[g] => h = g

\* A peer is always a member of the one room its name maps to, and its address
\* lies in that room's /24: Join never leaves a peer behind in a room that
\* deleteEmptyRoom has taken out of the map.
MembersAreLive ==
  \A h \in Joined :
    /\ rooms[want[h].name] = room[h]
    /\ h \in peers[room[h]]
    /\ ~closed[room[h]]
    /\ ip[h] - HostOf(ip[h]) = Address(index[room[h]], 0)

\* An entry of a room's MAC table points to a current member that has this MAC:
\* Forward never resolves a destination to a peer that has left.
MACTableSound ==
  \A r \in RoomIds, m \in MACs :
    macToPeer[r][m] # Null =>
      /\ macToPeer[r][m] \in peers[r]
      /\ mac[macToPeer[r][m]] = m

\* As long as no random draw hits a requested MAC, a MAC that AddPeer granted on
\* request is held by one member of the room only, whoever joins or leaves.
RequestedMACsUnique ==
  RandomMACs \cap RequestMACs = {} =>
    \A h, g \in Joined :
      /\ room[h] = room[g] /\ want[h].mac # Null
      /\ mac[h] = mac[g]
      => h = g

\* A handler that will either join room r or ask for its deletion.
Tends(h, r) == room[h] = r /\ pc[h] \in {"add", "closeLast", "delete"}

\* A room without members is on its way in or out: some handler is about to add
\* its peer or to delete the room.  Otherwise nobody would ever return its /24.
EmptyRoomsAreTended ==
  \A r \in Live : peers[r] = {} => \E h \in Handlers : Tends(h, r)

\* An empty room is joined or deleted in the end (deleteEmptyRoom).
EmptyRoomsEnd ==
  \A n \in Names :
    rooms[n] # Null /\ peers[rooms[n]] = {} ~> rooms[n] = Null \/ peers[rooms[n]] # {}

\* Join's retry loop is endless only while rooms keep dying under it.
JoinEnds ==
  \A h \in Handlers :
    <>[](pc[h] \in {"lookup", "add"}) => []<>(\E g \in Handlers : pc[g] = "delete")
-----------------------------------------------------------------------------
\* What the joined peers hold: the state of AddressPlan.
leases == [h \in Handlers |->
             IF pc[h] = "joined" THEN [name |-> want[h].name, addr |-> ip[h]] ELSE Null]

Plan == INSTANCE AddressPlan WITH Peers <- Handlers, Nobody <- Null, lease <- leases

\* The relay implements AddressPlan: AddPeer takes a lease that is free and in
\* the /24 of its room name, RemovePeer releases it, and no other step of any
\* handler changes what a peer holds.
ImplementsPlan == Plan!PlanSpec
=============================================================================
