----------------------------- MODULE RelayProofs -----------------------------
(***************************************************************************)
(* Proofs about Relay for every set of handlers, names and MACs, every pool *)
(* and every range of host numbers.                                         *)
(***************************************************************************)
EXTENDS Relay, TLAPS

\* Where a handler is in Join or RemovePeer determines what it holds: a name
\* to look up, a pointer to a room of this name that is live or closed, a MAC
\* that was requested or drawn.
HandlersSound ==
  \A h \in Handlers :
    /\ pc[h] \in {"idle", "lookup"} <=> room[h] = Null
    /\ pc[h] # "idle" => want[h].name \in Names
    /\ room[h] # Null => /\ roomName[room[h]] = want[h].name
                         /\ rooms[want[h].name] = room[h] \/ closed[room[h]]
    /\ pc[h] = "joined" => mac[h] \in MACChoices(h) /\ HostOf(ip[h]) \in Hosts

\* The map sends a name to an open room of this name.
MapSound ==
  \A n \in Names : rooms[n] # Null => roomName[rooms[n]] = n /\ ~closed[rooms[n]]

\* A room's members are the handlers that joined it.
PeersSound == \A r \in RoomIds : peers[r] = {h \in Handlers : pc[h] = "joined" /\ room[h] = r}

\* The inductive invariant.
RelayInv ==
  /\ TypeOK /\ HandlersSound /\ MapSound /\ PeersSound
  /\ IndexPartition /\ HostPartition /\ MembersAreLive /\ MACTableSound

USE NullAssumption

\* A host number can be read off an address, and the rest is the room's /24.
LEMMA AddressFacts ==
  ASSUME NEW i \in Nat, NEW k \in Hosts
  PROVE  /\ k \in Nat /\ k < 255
         /\ Address(i, k) \in Nat
         /\ HostOf(Address(i, k)) = k
         /\ Address(i, k) - HostOf(Address(i, k)) = Address(i, 0)
<1>1. k \in Nat /\ k < 255
  BY HostAssumption DEF Hosts
<1>2. PICK N \in Nat : N = PoolNet + i
  BY PoolAssumption
<1>3. Address(i, k) = 256 * N + k /\ Address(i, 0) = 256 * N
  BY <1>1, <1>2, PoolAssumption DEF Address
<1>4. (256 * N + k) % 256 = k
  BY <1>1, <1>2
<1> QED BY <1>1, <1>2, <1>3, <1>4 DEF HostOf

\* A manager without rooms satisfies the invariant.
THEOREM InitRelayInv == Init => RelayInv
<1> SUFFICES ASSUME Init PROVE RelayInv
  OBVIOUS
<1> USE DEF Init
<1>1. TypeOK
  BY PoolAssumption, HostAssumption DEF TypeOK, Indices, Hosts
<1>2. HandlersSound /\ MapSound /\ PeersSound
  BY DEF HandlersSound, MapSound, PeersSound
<1>3. Live = {}
  BY DEF Live
<1>4. IndexPartition
  BY <1>3 DEF IndexPartition, Indices
<1>5. HostPartition /\ MembersAreLive /\ MACTableSound
  BY <1>3 DEF HostPartition, MembersAreLive, Joined, MACTableSound
<1> QED BY <1>1, <1>2, <1>4, <1>5 DEF RelayInv

\* A handler past the lookup holds a room; if this room is open it is live and
\* its index is one of the pool's.
LEMMA HeldRoom ==
  ASSUME RelayInv, NEW h \in Handlers, pc[h] \notin {"idle", "lookup"}
  PROVE  /\ room[h] \in RoomIds /\ want[h].name \in Names
         /\ ~closed[room[h]] => /\ rooms[want[h].name] = room[h]
                                /\ room[h] \in Live
                                /\ index[room[h]] \in Indices
<1>1. room[h] \in RoomIds /\ want[h].name \in Names
  BY DEF RelayInv, TypeOK, HandlersSound
<1>2. ASSUME ~closed[room[h]]
      PROVE  rooms[want[h].name] = room[h] /\ room[h] \in Live
  BY <1>1, <1>2 DEF RelayInv, HandlersSound, Live
<1>3. ASSUME ~closed[room[h]] PROVE index[room[h]] \in Indices
  BY <1>1, <1>2, <1>3, PoolAssumption DEF RelayInv, TypeOK, IndexPartition, Indices
<1> QED BY <1>1, <1>2, <1>3

\* The room that deleteEmptyRoom takes out of the map is live and open.
LEMMA DeletableIsLive ==
  ASSUME RelayInv, NEW h \in Handlers, pc[h] = "delete", Deletable(room[h])
  PROVE  /\ room[h] \in RoomIds /\ ~closed[room[h]] /\ room[h] \in Live
         /\ roomName[room[h]] = want[h].name /\ rooms[want[h].name] = room[h]
         /\ want[h].name \in Names
         /\ index[room[h]] \in Indices
<1>1. room[h] \in RoomIds /\ want[h].name \in Names
  BY HeldRoom
<1>2. roomName[room[h]] = want[h].name /\ rooms[want[h].name] = room[h]
  BY <1>1 DEF RelayInv, HandlersSound, Deletable
<1>3. ~closed[room[h]]
  BY <1>1, <1>2 DEF RelayInv, MapSound
<1> QED BY <1>1, <1>2, <1>3, HeldRoom

\* nextHost, a uint8, does not wrap.
LEMMA NextHostFits ==
  ASSUME NEW k \in FirstHost .. LastHost
  PROVE  (k + 1) % 256 = k + 1 /\ k + 1 \in FirstHost .. LastHost + 1
  BY HostAssumption

\* allocateHostLocked keeps the types of a room's host counters.
LEMMA AllocateHostType ==
  ASSUME nextHost \in [RoomIds -> FirstHost .. LastHost + 1],
         freeHosts \in [RoomIds -> SUBSET Hosts],
         NEW r \in RoomIds, NEW host \in Hosts, AllocateHost(r, host)
  PROVE  /\ nextHost' \in [RoomIds -> FirstHost .. LastHost + 1]
         /\ freeHosts' \in [RoomIds -> SUBSET Hosts]
<1>1. CASE /\ freeHosts' = [freeHosts EXCEPT ![r] = @ \ {host}]
           /\ nextHost' = nextHost
  BY <1>1
<1>2. CASE /\ nextHost[r] <= LastHost
           /\ nextHost' = [nextHost EXCEPT ![r] = (@ + 1) % 256]
           /\ freeHosts' = freeHosts
  <2>1. nextHost[r] \in FirstHost .. LastHost
    BY <1>2, HostAssumption
  <2> QED BY <1>2, <2>1, NextHostFits
<1> QED BY <1>1, <1>2 DEF AllocateHost

\* Every step keeps the types.
LEMMA TypeStep == RelayInv /\ [Next]_vars => TypeOK'
<1> SUFFICES ASSUME RelayInv, [Next]_vars PROVE TypeOK'
  OBVIOUS
<1> USE DEF RelayInv, TypeOK
<1>1. CASE UNCHANGED vars
  BY <1>1 DEF vars, managerVars, roomVars, peerVars
<1>2. ASSUME NEW h \in Handlers, NEW n \in Names, NEW m \in RequestMACs \cup {Null},
             StartJoin(h, n, m)
      PROVE  TypeOK'
  BY <1>2 DEF StartJoin, managerVars, roomVars, peerVars
<1>3. ASSUME NEW h \in Handlers, FindRoom(h) PROVE TypeOK'
  BY <1>3 DEF FindRoom, HandlersSound, managerVars, roomVars, peerVars
<1>4. ASSUME NEW h \in Handlers, CreateRoom(h) PROVE TypeOK'
  <2>1. PICK i \in Indices, r \in RoomIds \ Reachable :
           /\ AllocateRoomIndex(i)
           /\ rooms' = [rooms EXCEPT ![want[h].name] = r]
           /\ roomName' = [roomName EXCEPT ![r] = want[h].name]
           /\ index' = [index EXCEPT ![r] = i]
           /\ peers' = [peers EXCEPT ![r] = {}]
           /\ macToPeer' = [macToPeer EXCEPT ![r] = [m \in MACs |-> Null]]
           /\ nextHost' = [nextHost EXCEPT ![r] = FirstHost]
           /\ freeHosts' = [freeHosts EXCEPT ![r] = {}]
           /\ closed' = [closed EXCEPT ![r] = FALSE]
           /\ room' = [room EXCEPT ![h] = r]
    BY <1>4 DEF CreateRoom
  <2>2. nextRoom' \in 0..MaxRooms /\ freeRoom' \in [Indices -> Nat]
    <3>0. nextRoom \in 0..MaxRooms /\ freeRoom \in [Indices -> Nat]
      OBVIOUS
    <3>1. CASE /\ freeRoom[i] > 0
               /\ freeRoom' = [freeRoom EXCEPT ![i] = @ - 1]
               /\ nextRoom' = nextRoom
      BY <3>0, <3>1
    <3>2. CASE nextRoom < MaxRooms /\ nextRoom' = nextRoom + 1 /\ freeRoom' = freeRoom
      BY <3>0, <3>2, PoolAssumption
    <3> QED BY <2>1, <3>1, <3>2 DEF AllocateRoomIndex
  <2>3. nextHost' \in [RoomIds -> FirstHost .. LastHost + 1]
    BY <2>1, HostAssumption
  <2>4. macToPeer' \in [RoomIds -> [MACs -> Handlers \cup {Null}]]
    BY <2>1
  <2>5. rooms' \in [Names -> RoomIds \cup {Null}] /\ index' \in [RoomIds -> Nat]
    <3>1. i \in Nat
      BY <2>1, PoolAssumption DEF Indices
    <3> QED BY <2>1, <3>1
  <2>6. /\ roomName' \in [RoomIds -> Names \cup {Null}]
        /\ peers' \in [RoomIds -> SUBSET Handlers]
        /\ freeHosts' \in [RoomIds -> SUBSET Hosts]
        /\ closed' \in [RoomIds -> BOOLEAN]
    BY <2>1
  <2>7. room' \in [Handlers -> RoomIds \cup {Null}]
    BY <2>1
  <2> QED BY <1>4, <2>2, <2>3, <2>4, <2>5, <2>6, <2>7 DEF CreateRoom, peerVars
<1>5. ASSUME NEW h \in Handlers, PoolFull(h) PROVE TypeOK'
  BY <1>5 DEF PoolFull, Return, managerVars, roomVars, peerVars
<1>6. ASSUME NEW h \in Handlers, AddPeerClosed(h) PROVE TypeOK'
  BY <1>6 DEF AddPeerClosed, managerVars, roomVars, peerVars
<1>7. ASSUME NEW h \in Handlers, AddPeerRefused(h) PROVE TypeOK'
  BY <1>7 DEF AddPeerRefused, Return, managerVars, roomVars, peerVars
<1>8. ASSUME NEW h \in Handlers, AddPeer(h) PROVE TypeOK'
  <2>1. PICK m \in MACChoices(h), host \in Hosts :
           /\ AllocateHost(room[h], host)
           /\ ip' = [ip EXCEPT ![h] = Address(index[room[h]], host)]
           /\ mac' = [mac EXCEPT ![h] = m]
           /\ macToPeer' = [macToPeer EXCEPT ![room[h]][m] = h]
    BY <1>8 DEF AddPeer
  <2>2. room[h] \in RoomIds /\ index[room[h]] \in Indices
    BY <1>8, HeldRoom DEF AddPeer
  <2>3. m \in MACs
    BY <2>1, MACAssumption DEF MACChoices
  <2>4. ip' \in [Handlers -> Addresses \cup {0}]
    BY <2>1, <2>2 DEF Addresses
  <2>5. mac' \in [Handlers -> MACs \cup {Null}]
    BY <2>1, <2>3
  <2>6. macToPeer' \in [RoomIds -> [MACs -> Handlers \cup {Null}]]
    BY <2>1, <2>2, <2>3
  <2>7. /\ nextHost' \in [RoomIds -> FirstHost .. LastHost + 1]
        /\ freeHosts' \in [RoomIds -> SUBSET Hosts]
    <3>1. /\ nextHost \in [RoomIds -> FirstHost .. LastHost + 1]
          /\ freeHosts \in [RoomIds -> SUBSET Hosts]
      OBVIOUS
    <3> QED BY <2>1, <2>2, <3>1, AllocateHostType
  <2> QED
    BY <1>8, <2>2, <2>4, <2>5, <2>6, <2>7 DEF AddPeer, managerVars
<1>9. ASSUME NEW h \in Handlers, Forward(h) PROVE TypeOK'
  BY <1>9 DEF Forward, managerVars, roomVars, peerVars
<1>10. ASSUME NEW h \in Handlers, RemovePeer(h) PROVE TypeOK'
  <2>1. room[h] \in RoomIds
    BY <1>10, HeldRoom DEF RemovePeer
  <2>2. macToPeer' \in [RoomIds -> [MACs -> Handlers \cup {Null}]]
    BY <1>10, <2>1 DEF RemovePeer
  <2>3. peers' \in [RoomIds -> SUBSET Handlers] /\ freeHosts' \in [RoomIds -> SUBSET Hosts]
    BY <1>10, <2>1 DEF RemovePeer, ReleaseHost
  <2> QED
    BY <1>10, <2>2, <2>3 DEF RemovePeer, managerVars, peerVars
<1>11. ASSUME NEW h \in Handlers, CloseFrames(h) PROVE TypeOK'
  BY <1>11 DEF CloseFrames, Return, managerVars, roomVars, peerVars
<1>12. ASSUME NEW h \in Handlers, CloseFramesLast(h) PROVE TypeOK'
  BY <1>12 DEF CloseFramesLast, managerVars, roomVars, peerVars
<1>13. ASSUME NEW h \in Handlers, DeleteEmptyRoom(h) PROVE TypeOK'
  <2>1. room[h] \in RoomIds
    BY <1>13, HeldRoom DEF DeleteEmptyRoom
  <2>2. /\ closed' \in [RoomIds -> BOOLEAN]
        /\ rooms' \in [Names -> RoomIds \cup {Null}]
    BY <1>13, <2>1 DEF DeleteEmptyRoom
  <2>3. ASSUME Deletable(room[h]) PROVE freeRoom' \in [Indices -> Nat]
    <3>1. index[room[h]] \in Indices
      BY <1>13, <2>1, <2>3, DeletableIsLive DEF DeleteEmptyRoom
    <3>2. freeRoom' \in [Indices -> Nat]
      BY <1>13, <2>3, <3>1 DEF DeleteEmptyRoom
    <3> QED BY <3>2
  <2>4. ASSUME ~Deletable(room[h]) PROVE freeRoom' \in [Indices -> Nat]
    BY <1>13, <2>4 DEF DeleteEmptyRoom
  <2>5. freeRoom' \in [Indices -> Nat]
    BY <2>3, <2>4
  <2> QED
    BY <1>13, <2>2, <2>5 DEF DeleteEmptyRoom, Return
<1> QED
  BY <1>1, <1>2, <1>3, <1>4, <1>5, <1>6, <1>7, <1>8, <1>9, <1>10, <1>11, <1>12, <1>13
     DEF Next, Step

\* A completed AddPeer picked a MAC address it may give and a host of the subnet.
LEMMA AddPeerChoice ==
  ASSUME NEW h \in Handlers, AddPeer(h)
  PROVE  \E m \in MACChoices(h), host \in Hosts :
           /\ ip' = [ip EXCEPT ![h] = Address(index[room[h]], host)]
           /\ mac' = [mac EXCEPT ![h] = m]
  BY DEF AddPeer

\* Every step keeps what a handler holds in agreement with where it stands.
LEMMA HandlersStep == RelayInv /\ [Next]_vars => HandlersSound'
<1> SUFFICES ASSUME RelayInv, [Next]_vars PROVE HandlersSound'
  OBVIOUS
<1> USE DEF HandlersSound, MACChoices, HostOf
<1>0. TypeOK /\ HandlersSound /\ MapSound
  BY DEF RelayInv
<1>1. CASE UNCHANGED vars
  BY <1>0, <1>1 DEF vars, managerVars, roomVars, peerVars
<1>2. ASSUME NEW h \in Handlers, NEW n \in Names, NEW m \in RequestMACs \cup {Null},
             StartJoin(h, n, m)
      PROVE  HandlersSound'
  BY <1>0, <1>2 DEF TypeOK, StartJoin, managerVars, roomVars, peerVars
<1>3. ASSUME NEW h \in Handlers, FindRoom(h) PROVE HandlersSound'
  BY <1>0, <1>3 DEF TypeOK, MapSound, FindRoom, managerVars, roomVars, peerVars
<1>4. ASSUME NEW h \in Handlers, CreateRoom(h) PROVE HandlersSound'
  BY <1>0, <1>4 DEF TypeOK, Reachable, CreateRoom, managerVars, roomVars, peerVars
<1>5. ASSUME NEW h \in Handlers, PoolFull(h) PROVE HandlersSound'
  BY <1>0, <1>5 DEF TypeOK, PoolFull, Return, managerVars, roomVars, peerVars
<1>6. ASSUME NEW h \in Handlers, AddPeerClosed(h) PROVE HandlersSound'
  BY <1>0, <1>6 DEF TypeOK, AddPeerClosed, managerVars, roomVars, peerVars
<1>7. ASSUME NEW h \in Handlers, AddPeerRefused(h) PROVE HandlersSound'
  BY <1>0, <1>7 DEF TypeOK, AddPeerRefused, Return, managerVars, roomVars, peerVars
<1>8. ASSUME NEW h \in Handlers, AddPeer(h) PROVE HandlersSound'
  <2>1. PICK m \in MACChoices(h), host \in Hosts :
           /\ ip' = [ip EXCEPT ![h] = Address(index[room[h]], host)]
           /\ mac' = [mac EXCEPT ![h] = m]
    BY <1>8, AddPeerChoice
  <2>2. room[h] \in RoomIds /\ index[room[h]] \in Nat
    BY <1>0, <1>8, HeldRoom DEF AddPeer, TypeOK
  <2>3. HostOf(Address(index[room[h]], host)) \in Hosts
    BY <2>1, <2>2, AddressFacts DEF HostOf
  <2>4. /\ pc' = [pc EXCEPT ![h] = "joined"] /\ pc[h] = "add"
        /\ UNCHANGED <<rooms, roomName, closed, want, room>>
    BY <1>8 DEF AddPeer, managerVars
  <2>5. /\ pc \in [Handlers -> {"idle", "lookup", "add", "joined",
                               "close", "closeLast", "delete"}]
        /\ ip \in [Handlers -> Addresses \cup {0}]
        /\ mac \in [Handlers -> MACs \cup {Null}]
    BY <1>0 DEF TypeOK
  <2> QED
    BY <1>0, <2>1, <2>3, <2>4, <2>5 DEF MACChoices
<1>9. ASSUME NEW h \in Handlers, Forward(h) PROVE HandlersSound'
  BY <1>0, <1>9 DEF TypeOK, Forward, managerVars, roomVars, peerVars
<1>10. ASSUME NEW h \in Handlers, RemovePeer(h) PROVE HandlersSound'
  BY <1>0, <1>10 DEF TypeOK, RemovePeer, managerVars, roomVars, peerVars
<1>11. ASSUME NEW h \in Handlers, CloseFrames(h) PROVE HandlersSound'
  BY <1>0, <1>11 DEF TypeOK, CloseFrames, Return, managerVars, roomVars, peerVars
<1>12. ASSUME NEW h \in Handlers, CloseFramesLast(h) PROVE HandlersSound'
  BY <1>0, <1>12 DEF TypeOK, CloseFramesLast, managerVars, roomVars, peerVars
<1>13. ASSUME NEW h \in Handlers, DeleteEmptyRoom(h) PROVE HandlersSound'
  BY <1>0, <1>13 DEF TypeOK, DeleteEmptyRoom, Deletable, Return
<1> QED
  BY <1>1, <1>2, <1>3, <1>4, <1>5, <1>6, <1>7, <1>8, <1>9, <1>10, <1>11, <1>12, <1>13
     DEF Next, Step

\* Every step keeps the map and the rooms in agreement.
LEMMA MapStep == RelayInv /\ [Next]_vars => MapSound'
<1> SUFFICES ASSUME RelayInv, [Next]_vars PROVE MapSound'
  OBVIOUS
<1>0. TypeOK /\ HandlersSound /\ MapSound
  BY DEF RelayInv
<1>1. ASSUME UNCHANGED <<rooms, roomName, closed>> PROVE MapSound'
  BY <1>0, <1>1 DEF MapSound
<1>2. ASSUME NEW h \in Handlers, CreateRoom(h) PROVE MapSound'
  BY <1>0, <1>2 DEF MapSound, TypeOK, Reachable, Live, CreateRoom
<1>3. ASSUME NEW h \in Handlers, DeleteEmptyRoom(h), Deletable(room[h]) PROVE MapSound'
  <2>1. /\ room[h] \in RoomIds /\ roomName[room[h]] \in Names
        /\ rooms[roomName[room[h]]] = room[h]
    BY <1>3, DeletableIsLive DEF DeleteEmptyRoom
  <2>2. /\ rooms' = [rooms EXCEPT ![roomName[room[h]]] = Null]
        /\ closed' = [closed EXCEPT ![room[h]] = TRUE]
        /\ roomName' = roomName
    BY <1>3 DEF DeleteEmptyRoom
  <2> QED BY <1>0, <2>1, <2>2 DEF MapSound, TypeOK
<1>4. ASSUME NEW h \in Handlers, DeleteEmptyRoom(h), ~Deletable(room[h]) PROVE MapSound'
  BY <1>1, <1>4 DEF DeleteEmptyRoom
<1> QED
  BY <1>1, <1>2, <1>3, <1>4
     DEF Next, Step, vars, managerVars, roomVars, StartJoin, FindRoom, PoolFull, AddPeerClosed,
         AddPeerRefused, AddPeer, Forward, RemovePeer, CloseFrames, CloseFramesLast

\* Every step keeps memberships and handlers in agreement.
LEMMA PeersStep == RelayInv /\ [Next]_vars => PeersSound'
<1> SUFFICES ASSUME RelayInv, [Next]_vars PROVE PeersSound'
  OBVIOUS
<1>0. TypeOK /\ HandlersSound /\ PeersSound
  BY DEF RelayInv
<1>1. ASSUME UNCHANGED peers, NEW h \in Handlers,
             \A g \in Handlers \ {h} : pc'[g] = pc[g] /\ room'[g] = room[g],
             pc[h] # "joined", pc'[h] # "joined"
      PROVE  PeersSound'
  BY <1>0, <1>1 DEF PeersSound
<1>2. ASSUME NEW h \in Handlers, CreateRoom(h) PROVE PeersSound'
  BY <1>0, <1>2 DEF PeersSound, TypeOK, Reachable, CreateRoom
<1>3. ASSUME NEW h \in Handlers, AddPeer(h) PROVE PeersSound'
  BY <1>0, <1>3 DEF PeersSound, TypeOK, HandlersSound, AddPeer
<1>4. ASSUME NEW h \in Handlers, RemovePeer(h) PROVE PeersSound'
  BY <1>0, <1>4 DEF PeersSound, TypeOK, RemovePeer
<1>5. ASSUME UNCHANGED <<peers, pc, room>> PROVE PeersSound'
  BY <1>0, <1>5 DEF PeersSound
<1>6. ASSUME NEW h \in Handlers,
             \/ \E n \in Names, m \in RequestMACs \cup {Null} : StartJoin(h, n, m)
             \/ FindRoom(h) \/ PoolFull(h) \/ AddPeerClosed(h) \/ AddPeerRefused(h)
             \/ CloseFrames(h) \/ CloseFramesLast(h) \/ DeleteEmptyRoom(h)
      PROVE  PeersSound'
  <2>0. /\ DOMAIN pc = Handlers /\ DOMAIN room = Handlers
        /\ pc = [g \in Handlers |-> pc[g]] /\ room = [g \in Handlers |-> room[g]]
    BY <1>0 DEF TypeOK
  <2>1. ASSUME NEW n \in Names, NEW m \in RequestMACs \cup {Null}, StartJoin(h, n, m)
        PROVE  PeersSound'
    BY <1>1, <2>0, <2>1 DEF StartJoin, roomVars
  <2>2. CASE FindRoom(h) \/ AddPeerClosed(h) \/ CloseFramesLast(h)
    BY <1>1, <2>0, <2>2 DEF FindRoom, AddPeerClosed, CloseFramesLast, roomVars
  <2>3. CASE PoolFull(h) \/ AddPeerRefused(h) \/ CloseFrames(h) \/ DeleteEmptyRoom(h)
    BY <1>1, <2>0, <2>3
       DEF PoolFull, AddPeerRefused, CloseFrames, DeleteEmptyRoom, Return, roomVars
  <2> QED BY <1>6, <2>1, <2>2, <2>3
<1> QED
  BY <1>2, <1>3, <1>4, <1>5, <1>6 DEF Next, Step, vars, roomVars, Forward

\* How the set of live rooms changes.
LEMMA LiveAfterCreate ==
  ASSUME RelayInv, NEW n \in Names, rooms[n] = Null, NEW r \in RoomIds \ Reachable,
         rooms' = [rooms EXCEPT ![n] = r]
  PROVE  Live' = Live \cup {r} /\ r \notin Live
<1>1. rooms \in [Names -> RoomIds \cup {Null}]
  BY DEF RelayInv, TypeOK
<1> QED BY <1>1 DEF Live, Reachable

\* Only the deleted room leaves the set of live rooms.
LEMMA LiveAfterDelete ==
  ASSUME RelayInv, NEW h \in Handlers, DeleteEmptyRoom(h), Deletable(room[h])
  PROVE  Live' = Live \ {room[h]}
<1> DEFINE r == room[h]
           n == want[h].name
<1>1. n \in Names /\ rooms[n] = r /\ roomName[r] = n
  BY DeletableIsLive DEF DeleteEmptyRoom
<1>2. rooms' = [rooms EXCEPT ![n] = Null]
  BY <1>1 DEF DeleteEmptyRoom
<1>3. \A k \in Names : rooms[k] = r => k = n
  BY <1>1 DEF RelayInv, MapSound, HandlersSound, DeleteEmptyRoom
<1>4. rooms \in [Names -> RoomIds \cup {Null}]
  BY DEF RelayInv, TypeOK
<1> QED BY <1>1, <1>2, <1>3, <1>4 DEF Live

\* Every step keeps the partition of the /24s.
LEMMA IndexStep == RelayInv /\ [Next]_vars => IndexPartition'
<1> SUFFICES ASSUME RelayInv, [Next]_vars PROVE IndexPartition'
  OBVIOUS
<1>0. TypeOK /\ IndexPartition /\ Live \subseteq RoomIds
  BY DEF RelayInv, TypeOK, Live
<1>1. ASSUME UNCHANGED <<rooms, index, nextRoom, freeRoom>> PROVE IndexPartition'
  BY <1>0, <1>1 DEF IndexPartition, Live
<1>2. ASSUME NEW h \in Handlers, CreateRoom(h) PROVE IndexPartition'
  <2>1. PICK i \in Indices, r \in RoomIds \ Reachable :
          /\ AllocateRoomIndex(i)
          /\ rooms' = [rooms EXCEPT ![want[h].name] = r]
          /\ index' = [index EXCEPT ![r] = i]
    BY <1>2 DEF CreateRoom
  <2>2. Live' = Live \cup {r} /\ r \notin Live
    BY <1>2, <2>1, LiveAfterCreate DEF CreateRoom, RelayInv, HandlersSound
  <2>3. /\ index'[r] = i
        /\ \A s \in Live : index'[s] = index[s] /\ index[s] \in Nat
    BY <1>0, <2>1, <2>2 DEF TypeOK
  <2>4. CASE /\ freeRoom[i] > 0
             /\ freeRoom' = [freeRoom EXCEPT ![i] = @ - 1]
             /\ UNCHANGED nextRoom
    <3>1. freeRoom[i] = 1 /\ i < nextRoom /\ \A s \in Live : index[s] # i
      BY <1>0, <2>4 DEF IndexPartition, TypeOK
    <3>2. freeRoom'[i] = 0 /\ \A j \in Indices : j # i => freeRoom'[j] = freeRoom[j]
      BY <1>0, <2>4, <3>1 DEF TypeOK
    <3> QED BY <1>0, <2>2, <2>3, <2>4, <3>1, <3>2 DEF IndexPartition
  <2>5. CASE /\ \A j \in Indices : freeRoom[j] = 0
             /\ i = nextRoom
             /\ nextRoom' = nextRoom + 1
             /\ UNCHANGED freeRoom
    <3>1. \A s \in Live : index[s] < i
      BY <1>0, <2>5 DEF IndexPartition
    <3>2. nextRoom \in Nat /\ Indices \subseteq Int
      BY <1>0 DEF TypeOK, Indices
    <3> QED BY <1>0, <2>2, <2>3, <2>5, <3>1, <3>2 DEF IndexPartition
  <2> QED BY <2>1, <2>4, <2>5 DEF AllocateRoomIndex
<1>3. ASSUME NEW h \in Handlers, DeleteEmptyRoom(h), Deletable(room[h])
      PROVE  IndexPartition'
  <2>1. Live' = Live \ {room[h]} /\ room[h] \in Live /\ index[room[h]] \in Indices
    BY <1>3, LiveAfterDelete, DeletableIsLive DEF DeleteEmptyRoom
  <2>2. /\ freeRoom' = [freeRoom EXCEPT ![index[room[h]]] = @ + 1]
        /\ index' = index /\ nextRoom' = nextRoom
    BY <1>3 DEF DeleteEmptyRoom
  <2>3. /\ freeRoom[index[room[h]]] = 0 /\ index[room[h]] < nextRoom
        /\ \A s \in Live' : index[s] # index[room[h]]
    BY <1>0, <2>1 DEF IndexPartition
  <2>4. /\ freeRoom'[index[room[h]]] = 1
        /\ \A j \in Indices : j # index[room[h]] => freeRoom'[j] = freeRoom[j]
    BY <1>0, <2>1, <2>2, <2>3 DEF TypeOK
  <2> QED BY <1>0, <2>1, <2>2, <2>3, <2>4 DEF IndexPartition
<1>4. ASSUME NEW h \in Handlers, DeleteEmptyRoom(h), ~Deletable(room[h])
      PROVE  IndexPartition'
  BY <1>1, <1>4 DEF DeleteEmptyRoom
<1> QED
  BY <1>1, <1>2, <1>3, <1>4
     DEF Next, Step, vars, managerVars, roomVars, StartJoin, FindRoom, PoolFull, AddPeerClosed,
         AddPeerRefused, AddPeer, Forward, RemovePeer, CloseFrames, CloseFramesLast

\* Every step keeps each host number of a live room with one member or on its free list.
LEMMA HostStep == RelayInv /\ [Next]_vars => HostPartition'
<1> SUFFICES ASSUME RelayInv, [Next]_vars PROVE HostPartition'
  OBVIOUS
<1>0. /\ TypeOK /\ HandlersSound /\ PeersSound /\ HostPartition
      /\ Live \subseteq RoomIds
  BY DEF RelayInv, TypeOK, Live
<1>a. ASSUME NEW r \in RoomIds, NEW g \in peers[r]
      PROVE  g \in Handlers /\ pc[g] = "joined" /\ room[g] = r /\ HostOf(ip[g]) \in Hosts
  BY <1>0, <1>a DEF PeersSound, HandlersSound, HostOf
<1>b. Hosts \subseteq Nat /\ \A r \in RoomIds : nextHost[r] \in Nat /\ freeHosts[r] \subseteq Hosts
  BY <1>0, HostAssumption DEF Hosts, TypeOK
<1>1. ASSUME Live' \subseteq Live, UNCHANGED <<peers, nextHost, freeHosts>>,
             \A g \in Handlers : pc[g] = "joined" => ip'[g] = ip[g]
      PROVE  HostPartition'
  <2> SUFFICES ASSUME NEW r \in Live'
               PROVE  /\ \A g \in peers[r] : ip'[g] = ip[g]
                      /\ r \in Live
    BY <1>0, <1>1 DEF HostPartition, HostOf
  <2> QED BY <1>0, <1>1, <1>a
<1>2. ASSUME NEW h \in Handlers, CreateRoom(h) PROVE HostPartition'
  <2>1. PICK r \in RoomIds \ Reachable :
          /\ rooms' = [rooms EXCEPT ![want[h].name] = r]
          /\ peers' = [peers EXCEPT ![r] = {}]
          /\ nextHost' = [nextHost EXCEPT ![r] = FirstHost]
          /\ freeHosts' = [freeHosts EXCEPT ![r] = {}]
          /\ ip' = ip
    BY <1>2 DEF CreateRoom, peerVars
  <2>2. Live' = Live \cup {r} /\ r \notin Live
    BY <1>2, <2>1, LiveAfterCreate DEF CreateRoom, RelayInv, HandlersSound
  <2>3. /\ peers'[r] = {} /\ freeHosts'[r] = {} /\ nextHost'[r] = FirstHost
        /\ \A s \in Live : /\ peers'[s] = peers[s] /\ freeHosts'[s] = freeHosts[s]
                           /\ nextHost'[s] = nextHost[s]
    BY <1>0, <2>1, <2>2 DEF TypeOK
  <2>4. \A k \in Hosts : ~(k < FirstHost)
    BY HostAssumption DEF Hosts
  <2> QED BY <1>0, <2>1, <2>2, <2>3, <2>4 DEF HostPartition, HostOf
<1>3. ASSUME NEW h \in Handlers, AddPeer(h) PROVE HostPartition'
  <2> DEFINE r == room[h]
  <2>1. PICK host \in Hosts : AllocateHost(r, host) /\ ip' = [ip EXCEPT ![h] = Address(index[r], host)]
    BY <1>3 DEF AddPeer
  <2>2. r \in RoomIds /\ r \in Live /\ index[r] \in Nat
    BY <1>0, <1>3, HeldRoom DEF AddPeer, TypeOK
  <2>3. /\ Live' = Live
        /\ peers' = [peers EXCEPT ![r] = @ \cup {h}]
        /\ \A s \in RoomIds : h \notin peers[s]
    BY <1>3, <1>a DEF AddPeer, managerVars, Live
  <2>4. HostOf(ip'[h]) = host /\ \A g \in Handlers : g # h => ip'[g] = ip[g]
    BY <1>0, <2>1, <2>2, AddressFacts DEF TypeOK
  <2>5. /\ \A g \in peers[r] : HostOf(ip[g]) # host
        /\ host < nextHost'[r] /\ nextHost[r] <= nextHost'[r] /\ nextHost'[r] \in Nat
        /\ freeHosts'[r] = freeHosts[r] \ {host}
        /\ \A k \in Hosts : k < nextHost'[r] => k < nextHost[r] \/ k = host
        /\ \A s \in RoomIds : s # r => nextHost'[s] = nextHost[s] /\ freeHosts'[s] = freeHosts[s]
    <3>1. CASE /\ host \in freeHosts[r]
               /\ freeHosts' = [freeHosts EXCEPT ![r] = @ \ {host}]
               /\ UNCHANGED nextHost
      BY <1>0, <1>b, <2>2, <3>1 DEF HostPartition, TypeOK
    <3>2. CASE /\ freeHosts[r] = {} /\ nextHost[r] <= LastHost /\ host = nextHost[r]
               /\ nextHost' = [nextHost EXCEPT ![r] = (@ + 1) % 256]
               /\ UNCHANGED freeHosts
      <4>1. nextHost[r] \in FirstHost .. LastHost
        BY <1>0, <2>2, <3>2, HostAssumption DEF TypeOK
      <4>2. nextHost'[r] = nextHost[r] + 1
        BY <1>0, <2>2, <3>2, <4>1, NextHostFits DEF TypeOK
      <4>3. \A g \in peers[r] : HostOf(ip[g]) < nextHost[r] /\ HostOf(ip[g]) \in Hosts
        BY <1>0, <1>a, <2>2 DEF HostPartition
      <4>4. nextHost[r] \in Nat /\ \A k \in Hosts : k \in Nat
        BY <1>b, <2>2
      <4>5. \A g \in peers[r] : HostOf(ip[g]) # host
        BY <3>2, <4>3, <4>4
      <4>6. freeHosts'[r] = freeHosts[r] \ {host}
        BY <3>2
      <4>7. \A s \in RoomIds : s # r => nextHost'[s] = nextHost[s] /\ freeHosts'[s] = freeHosts[s]
        BY <1>0, <3>2 DEF TypeOK
      <4>8. \A k \in Hosts : k < nextHost'[r] => k < nextHost[r] \/ k = host
        BY <3>2, <4>2, <4>4
      <4> QED BY <3>2, <4>2, <4>4, <4>5, <4>6, <4>7, <4>8
    <3> QED BY <2>1, <3>1, <3>2 DEF AllocateHost
  <2>6. ASSUME NEW s \in Live, s # r
        PROVE  peers'[s] = peers[s] /\ \A g \in peers[s] : g # h /\ ip'[g] = ip[g]
    BY <1>0, <1>a, <2>2, <2>3, <2>4, <2>6 DEF TypeOK
  <2>7. peers'[r] = peers[r] \cup {h} /\ \A g \in peers[r] : g # h /\ ip'[g] = ip[g]
    BY <1>0, <1>a, <2>2, <2>3, <2>4 DEF TypeOK
  <2> HIDE DEF r
  <2>8. ASSUME NEW s \in Live'
        PROVE  /\ \A g \in peers'[s] : /\ HostOf(ip'[g]) < nextHost'[s]
                                       /\ HostOf(ip'[g]) \notin freeHosts'[s]
               /\ \A f, g \in peers'[s] : HostOf(ip'[f]) = HostOf(ip'[g]) => f = g
               /\ \A k \in Hosts : IF k < nextHost'[s]
                     THEN k \in freeHosts'[s] \/ \E g \in peers'[s] : HostOf(ip'[g]) = k
                     ELSE k \notin freeHosts'[s]
    <3>1. CASE s # r
      BY <1>0, <2>2, <2>3, <2>5, <2>6, <3>1 DEF HostPartition
    <3>2. CASE s = r
      <4>1. \A g \in peers[r] : /\ HostOf(ip'[g]) = HostOf(ip[g]) /\ HostOf(ip[g]) \in Nat
                                /\ HostOf(ip[g]) < nextHost[r] /\ HostOf(ip[g]) \notin freeHosts[r]
        BY <1>0, <1>a, <1>b, <2>2, <2>7 DEF HostPartition
      <4>2. \A g \in peers'[r] : /\ HostOf(ip'[g]) < nextHost'[r]
                                 /\ HostOf(ip'[g]) \notin freeHosts'[r]
        BY <1>b, <2>2, <2>4, <2>5, <2>7, <4>1
      <4>3. \A f, g \in peers'[r] : HostOf(ip'[f]) = HostOf(ip'[g]) => f = g
        BY <1>0, <2>2, <2>4, <2>5, <2>7, <4>1 DEF HostPartition
      <4>4. ASSUME NEW k \in Hosts, k < nextHost'[r]
            PROVE  k \in freeHosts'[r] \/ \E g \in peers'[r] : HostOf(ip'[g]) = k
        BY <1>0, <2>2, <2>4, <2>5, <2>7, <4>1, <4>4 DEF HostPartition
      <4>5. ASSUME NEW k \in Hosts, ~(k < nextHost'[r]) PROVE k \notin freeHosts'[r]
        BY <1>0, <1>b, <2>2, <2>5, <4>5 DEF HostPartition
      <4> QED BY <3>2, <4>2, <4>3, <4>4, <4>5
    <3> QED BY <3>1, <3>2
  <2> QED BY <2>8 DEF HostPartition, HostOf
<1>4. ASSUME NEW h \in Handlers, RemovePeer(h) PROVE HostPartition'
  <2> DEFINE r == room[h]
             k0 == HostOf(ip[h])
  <2>1. r \in RoomIds /\ h \in peers[r] /\ k0 \in Hosts
    BY <1>4, <1>a, HeldRoom DEF RemovePeer
  <2>2. /\ Live' = Live /\ ip' = ip /\ nextHost' = nextHost
        /\ peers'[r] = peers[r] \ {h} /\ freeHosts'[r] = freeHosts[r] \cup {k0}
        /\ \A s \in RoomIds : s # r => peers'[s] = peers[s] /\ freeHosts'[s] = freeHosts[s]
    <3>1. /\ Live' = Live /\ ip' = ip /\ nextHost' = nextHost
          /\ peers' = [peers EXCEPT ![r] = @ \ {h}]
          /\ freeHosts' = [freeHosts EXCEPT ![r] = @ \cup {k0}]
      BY <1>4, <2>1 DEF RemovePeer, ReleaseHost, managerVars, peerVars, Live
    <3> QED BY <1>0, <2>1, <3>1 DEF TypeOK
  <2> HIDE DEF r, k0
  <2>3. ASSUME NEW s \in Live, s # r
        PROVE  peers'[s] = peers[s] /\ freeHosts'[s] = freeHosts[s]
    BY <1>0, <2>2, <2>3
  <2>4. ASSUME r \in Live
        PROVE  /\ k0 < nextHost[r]
               /\ \A g \in peers'[r] : HostOf(ip[g]) # k0
    BY <1>0, <2>1, <2>2, <2>4 DEF HostPartition, k0
  <2>5. \A k \in Hosts : \A g \in peers[r] : HostOf(ip[g]) = k => k = k0 \/ g \in peers'[r]
    BY <2>2 DEF k0
  <2>6. ASSUME NEW s \in Live
        PROVE  /\ \A g \in peers'[s] : /\ HostOf(ip[g]) < nextHost[s]
                                       /\ HostOf(ip[g]) \notin freeHosts'[s]
               /\ \A f, g \in peers'[s] : HostOf(ip[f]) = HostOf(ip[g]) => f = g
               /\ \A k \in Hosts : IF k < nextHost[s]
                     THEN k \in freeHosts'[s] \/ \E g \in peers'[s] : HostOf(ip[g]) = k
                     ELSE k \notin freeHosts'[s]
    <3>1. CASE s # r
      BY <2>3, <3>1, <1>0 DEF HostPartition
    <3>2. CASE s = r
      BY <1>0, <2>2, <2>4, <2>5, <3>2 DEF HostPartition
    <3> QED BY <3>1, <3>2
  <2> QED BY <2>2, <2>6 DEF HostPartition, HostOf
<1>5. ASSUME NEW h \in Handlers, DeleteEmptyRoom(h) PROVE HostPartition'
  <2>1. Live' \subseteq Live
    BY <1>5, LiveAfterDelete DEF DeleteEmptyRoom, Live
  <2>2. \A g \in Handlers : pc[g] = "joined" => ip'[g] = ip[g]
    BY <1>0, <1>5 DEF DeleteEmptyRoom, Return, TypeOK
  <2> QED BY <1>1, <1>5, <2>1, <2>2 DEF DeleteEmptyRoom
<1>6. ASSUME NEW h \in Handlers,
             \/ \E n \in Names, m \in RequestMACs \cup {Null} : StartJoin(h, n, m)
             \/ FindRoom(h) \/ PoolFull(h) \/ AddPeerClosed(h) \/ AddPeerRefused(h)
             \/ Forward(h) \/ CloseFrames(h) \/ CloseFramesLast(h)
      PROVE  HostPartition'
  <2>1. Live' = Live /\ UNCHANGED <<peers, nextHost, freeHosts>>
    BY <1>6 DEF StartJoin, FindRoom, PoolFull, AddPeerClosed, AddPeerRefused, Forward,
                CloseFrames, CloseFramesLast, managerVars, roomVars, Live
  <2>2. \A g \in Handlers : pc[g] = "joined" => ip'[g] = ip[g]
    BY <1>0, <1>6 DEF StartJoin, FindRoom, PoolFull, AddPeerClosed, AddPeerRefused, Forward,
                      CloseFrames, CloseFramesLast, Return, peerVars, TypeOK
  <2> QED BY <1>1, <2>1, <2>2
<1>7. CASE UNCHANGED vars
  BY <1>1, <1>7 DEF vars, managerVars, roomVars, peerVars, Live
<1> QED
  BY <1>2, <1>3, <1>4, <1>5, <1>6, <1>7 DEF Next, Step

\* Every step keeps the members' rooms in the map, open and with their addresses.
LEMMA MembersStep == RelayInv /\ [Next]_vars => MembersAreLive'
<1> SUFFICES ASSUME RelayInv, [Next]_vars PROVE MembersAreLive'
  OBVIOUS
<1>0. TypeOK /\ HandlersSound /\ MapSound /\ PeersSound /\ MembersAreLive
  BY DEF RelayInv
<1>1. ASSUME NEW g \in Handlers, pc[g] = "joined"
      PROVE  /\ room[g] \in RoomIds /\ want[g].name \in Names /\ room[g] \in Reachable
             /\ rooms[want[g].name] = room[g] /\ g \in peers[room[g]] /\ ~closed[room[g]]
             /\ ip[g] - HostOf(ip[g]) = Address(index[room[g]], 0)
  BY <1>0, <1>1, HeldRoom DEF MembersAreLive, Joined, Reachable
\* A step keeps a member's guarantee if it keeps the member, its room and its address.
<1>2. ASSUME NEW g \in Handlers, pc[g] = "joined",
             want'[g] = want[g], room'[g] = room[g], ip'[g] = ip[g],
             rooms'[want[g].name] = rooms[want[g].name],
             g \in peers'[room[g]],
             closed'[room[g]] = closed[room[g]], index'[room[g]] = index[room[g]]
      PROVE  /\ rooms'[want'[g].name] = room'[g] /\ g \in peers'[room'[g]]
             /\ ~closed'[room'[g]]
             /\ ip'[g] - HostOf(ip'[g]) = Address(index'[room'[g]], 0)
  BY <1>1, <1>2
<1>3. ASSUME NEW h \in Handlers, AddPeer(h) PROVE MembersAreLive'
  <2>1. PICK host \in Hosts : ip' = [ip EXCEPT ![h] = Address(index[room[h]], host)]
    BY <1>3 DEF AddPeer
  <2>2. /\ room[h] \in RoomIds /\ rooms[want[h].name] = room[h] /\ index[room[h]] \in Nat
        /\ ~closed[room[h]]
    BY <1>0, <1>3, HeldRoom DEF AddPeer, TypeOK
  <2>3. ip'[h] - HostOf(ip'[h]) = Address(index[room[h]], 0)
    BY <1>0, <2>1, <2>2, AddressFacts DEF TypeOK
  <2>4. UNCHANGED <<rooms, want, room, closed, index>>
    BY <1>3 DEF AddPeer, managerVars
  <2>5. \A g \in Handlers : pc'[g] = "joined" /\ g # h => pc[g] = "joined" /\ ip'[g] = ip[g]
    BY <1>0, <1>3, <2>1 DEF AddPeer, TypeOK
  <2>6. h \in peers'[room[h]] /\ \A r \in RoomIds : peers[r] \subseteq peers'[r]
    BY <1>0, <1>3, <2>2 DEF AddPeer, TypeOK
  <2> QED BY <1>1, <2>2, <2>3, <2>4, <2>5, <2>6 DEF MembersAreLive, Joined, HostOf, Address
<1>4. ASSUME NEW h \in Handlers, RemovePeer(h) PROVE MembersAreLive'
  <2>1. UNCHANGED <<rooms, want, room, closed, index, ip>>
    BY <1>4 DEF RemovePeer, managerVars, peerVars
  <2>2. \A g \in Handlers : pc'[g] = "joined" => pc[g] = "joined" /\ g # h
    BY <1>0, <1>4 DEF RemovePeer, TypeOK
  <2>3. \A r \in RoomIds : peers[r] \ {h} \subseteq peers'[r]
    BY <1>0, <1>4 DEF RemovePeer, TypeOK
  <2> QED BY <1>1, <2>1, <2>2, <2>3 DEF MembersAreLive, Joined, HostOf, Address
<1>5. ASSUME NEW h \in Handlers, CreateRoom(h) PROVE MembersAreLive'
  <2>1. PICK r \in RoomIds \ Reachable :
          /\ rooms' = [rooms EXCEPT ![want[h].name] = r]
          /\ \E i \in Indices : index' = [index EXCEPT ![r] = i]
          /\ peers' = [peers EXCEPT ![r] = {}]
          /\ closed' = [closed EXCEPT ![r] = FALSE]
          /\ room' = [room EXCEPT ![h] = r]
    BY <1>5 DEF CreateRoom
  <2>2. /\ want' = want /\ ip' = ip
        /\ \A g \in Handlers : pc'[g] = "joined" => pc[g] = "joined" /\ g # h
        /\ rooms[want[h].name] = Null
    BY <1>0, <1>5 DEF CreateRoom, peerVars, TypeOK
  <2>3. ASSUME NEW g \in Handlers, pc'[g] = "joined"
        PROVE  /\ rooms'[want'[g].name] = room'[g] /\ g \in peers'[room'[g]]
               /\ ~closed'[room'[g]]
               /\ ip'[g] - HostOf(ip'[g]) = Address(index'[room'[g]], 0)
    <3>1. pc[g] = "joined" /\ g # h /\ room[g] # r /\ want[g].name # want[h].name
      BY <1>1, <2>1, <2>2, <2>3
    <3>2. /\ room'[g] = room[g] /\ rooms'[want[g].name] = rooms[want[g].name]
          /\ peers'[room[g]] = peers[room[g]] /\ closed'[room[g]] = closed[room[g]]
          /\ index'[room[g]] = index[room[g]]
      BY <1>0, <1>1, <2>1, <3>1 DEF TypeOK
    <3> QED BY <1>1, <1>2, <2>2, <3>1, <3>2
  <2> QED BY <2>3 DEF MembersAreLive, Joined, HostOf, Address
<1>6. ASSUME NEW h \in Handlers, DeleteEmptyRoom(h) PROVE MembersAreLive'
  <2>1. /\ UNCHANGED <<peers, index>>
        /\ \A g \in Handlers : g # h => /\ pc'[g] = pc[g] /\ want'[g] = want[g]
                                      /\ room'[g] = room[g] /\ ip'[g] = ip[g]
        /\ pc'[h] = "idle"
    BY <1>0, <1>6 DEF DeleteEmptyRoom, Return, TypeOK
  <2>2. ASSUME NEW g \in Handlers, pc[g] = "joined"
        PROVE  rooms'[want[g].name] = rooms[want[g].name] /\ closed'[room[g]] = closed[room[g]]
    <3>1. CASE Deletable(room[h])
      <4>1. /\ rooms' = [rooms EXCEPT ![want[h].name] = Null]
            /\ closed' = [closed EXCEPT ![room[h]] = TRUE]
            /\ rooms[want[h].name] = room[h] /\ peers[room[h]] = {}
        BY <1>6, <3>1, DeletableIsLive DEF DeleteEmptyRoom, Deletable
      <4>2. room[g] # room[h] /\ want[g].name # want[h].name
        BY <1>1, <2>2, <4>1
      <4> QED BY <1>0, <1>1, <2>2, <4>1, <4>2 DEF TypeOK
    <3>2. CASE ~Deletable(room[h])
      BY <1>6, <3>2 DEF DeleteEmptyRoom
    <3> QED BY <3>1, <3>2
  <2> QED BY <1>1, <1>2, <2>1, <2>2 DEF MembersAreLive, Joined, HostOf, Address
<1>7. ASSUME UNCHANGED <<rooms, peers, closed, index>>,
             \A g \in Handlers : pc'[g] = "joined" =>
               pc[g] = "joined" /\ want'[g] = want[g] /\ room'[g] = room[g] /\ ip'[g] = ip[g]
      PROVE  MembersAreLive'
  BY <1>1, <1>7 DEF MembersAreLive, Joined, HostOf, Address
<1>8. ASSUME NEW h \in Handlers,
             \/ \E n \in Names, m \in RequestMACs \cup {Null} : StartJoin(h, n, m)
             \/ FindRoom(h) \/ PoolFull(h) \/ AddPeerClosed(h) \/ AddPeerRefused(h)
             \/ Forward(h) \/ CloseFrames(h) \/ CloseFramesLast(h)
      PROVE  MembersAreLive'
  BY <1>0, <1>7, <1>8
     DEF StartJoin, FindRoom, PoolFull, AddPeerClosed, AddPeerRefused, Forward, CloseFrames,
         CloseFramesLast, Return, managerVars, roomVars, peerVars, TypeOK
<1>9. CASE UNCHANGED vars
  BY <1>7, <1>9 DEF vars, managerVars, roomVars, peerVars
<1> QED
  BY <1>3, <1>4, <1>5, <1>6, <1>8, <1>9 DEF Next, Step

\* Every step keeps the entries of the MAC tables with the members they name.
LEMMA MACStep == RelayInv /\ [Next]_vars => MACTableSound'
<1> SUFFICES ASSUME RelayInv, [Next]_vars PROVE MACTableSound'
  OBVIOUS
<1>0. TypeOK /\ PeersSound /\ MACTableSound
  BY DEF RelayInv
<1>1. ASSUME NEW r \in RoomIds, NEW g \in peers[r]
      PROVE  g \in Handlers /\ pc[g] = "joined" /\ room[g] = r
  BY <1>0, <1>1 DEF PeersSound
<1>2. ASSUME UNCHANGED <<macToPeer, peers>>,
             \A g \in Handlers : pc[g] = "joined" => mac'[g] = mac[g]
      PROVE  MACTableSound'
  BY <1>0, <1>1, <1>2 DEF MACTableSound
<1>3. ASSUME NEW h \in Handlers, CreateRoom(h) PROVE MACTableSound'
  BY <1>0, <1>3 DEF CreateRoom, MACTableSound, TypeOK, peerVars
<1>4. ASSUME NEW h \in Handlers, AddPeer(h) PROVE MACTableSound'
  <2>1. PICK m \in MACChoices(h) :
           /\ mac' = [mac EXCEPT ![h] = m]
           /\ macToPeer' = [macToPeer EXCEPT ![room[h]][m] = h]
    BY <1>4 DEF AddPeer
  <2>2. room[h] \in RoomIds /\ m \in MACs /\ pc[h] # "joined"
    BY <1>0, <1>4, HeldRoom, MACAssumption DEF AddPeer, MACChoices, TypeOK
  <2>3. peers' = [peers EXCEPT ![room[h]] = @ \cup {h}]
    BY <1>4 DEF AddPeer
  <2> QED BY <1>0, <1>1, <2>1, <2>2, <2>3 DEF MACTableSound, TypeOK
<1>5. ASSUME NEW h \in Handlers, Forward(h) PROVE MACTableSound'
  <2>1. room[h] \in RoomIds /\ h \in peers[room[h]] /\ UNCHANGED <<mac, peers>>
    BY <1>5, HeldRoom DEF Forward, peerVars
  <2>2. macToPeer' = [macToPeer EXCEPT ![room[h]][mac[h]] = h]
    BY <1>5 DEF Forward
  <2> QED BY <1>0, <2>1, <2>2 DEF MACTableSound, TypeOK
<1>6. ASSUME NEW h \in Handlers, RemovePeer(h) PROVE MACTableSound'
  <2> DEFINE r == room[h]
  <2>1. r \in RoomIds /\ mac' = mac
    BY <1>6, HeldRoom DEF RemovePeer, peerVars
  <2>2. /\ macToPeer' = [macToPeer EXCEPT ![r] =
                           [m \in MACs |-> IF @[m] = h THEN Null ELSE @[m]]]
        /\ peers' = [peers EXCEPT ![r] = @ \ {h}]
    BY <1>6 DEF RemovePeer
  <2>3. /\ \A m \in MACs : macToPeer'[r][m] = IF macToPeer[r][m] = h THEN Null ELSE macToPeer[r][m]
        /\ peers'[r] = peers[r] \ {h}
        /\ \A s \in RoomIds : s # r => macToPeer'[s] = macToPeer[s] /\ peers'[s] = peers[s]
    BY <1>0, <2>1, <2>2 DEF TypeOK
  <2> HIDE DEF r
  <2> QED BY <1>0, <2>1, <2>3 DEF MACTableSound
<1>7. ASSUME NEW h \in Handlers,
             \/ \E n \in Names, m \in RequestMACs \cup {Null} : StartJoin(h, n, m)
             \/ FindRoom(h) \/ PoolFull(h) \/ AddPeerClosed(h) \/ AddPeerRefused(h)
             \/ CloseFrames(h) \/ CloseFramesLast(h) \/ DeleteEmptyRoom(h)
      PROVE  MACTableSound'
  BY <1>0, <1>2, <1>7
     DEF StartJoin, FindRoom, PoolFull, AddPeerClosed, AddPeerRefused, CloseFrames,
         CloseFramesLast, DeleteEmptyRoom, Return, roomVars, peerVars, TypeOK
<1>8. CASE UNCHANGED vars
  BY <1>2, <1>8 DEF vars, roomVars, peerVars
<1> QED
  BY <1>3, <1>4, <1>5, <1>6, <1>7, <1>8 DEF Next, Step

-----------------------------------------------------------------------------
\* RelayInv holds in every reachable state of the room manager.
THEOREM RelayInvariant == Spec => []RelayInv
<1>1. RelayInv /\ [Next]_vars => RelayInv'
  BY TypeStep, HandlersStep, MapStep, PeersStep, IndexStep, HostStep, MembersStep, MACStep
     DEF RelayInv
<1> QED BY <1>1, InitRelayInv, PTL DEF Spec

\* The manager, the rooms and the handlers of room.go keep their types; in
\* particular nextHost, a uint8, never wraps and nextRoom never leaves the pool.
THEOREM TypeCorrect == Spec => []TypeOK
<1>1. RelayInv => TypeOK
  BY DEF RelayInv
<1> QED BY <1>1, RelayInvariant, PTL

\* allocateRoomIndexLocked and deleteEmptyRoom never lose, share or free twice a
\* /24, whatever the handlers do concurrently.
THEOREM IndicesPartitioned == Spec => []IndexPartition
<1>1. RelayInv => IndexPartition
  BY DEF RelayInv
<1> QED BY <1>1, RelayInvariant, PTL

\* allocateHostLocked and releaseHostLocked never lose or share a host number.
THEOREM HostsPartitioned == Spec => []HostPartition
<1>1. RelayInv => HostPartition
  BY DEF RelayInv
<1> QED BY <1>1, RelayInvariant, PTL

\* Join never leaves a peer behind in a room that deleteEmptyRoom removed.
THEOREM MembersStayLive == Spec => []MembersAreLive
<1>1. RelayInv => MembersAreLive
  BY DEF RelayInv
<1> QED BY <1>1, RelayInvariant, PTL

\* A room's MAC table never points to a peer that has left.
THEOREM MACTablesSound == Spec => []MACTableSound
<1>1. RelayInv => MACTableSound
  BY DEF RelayInv
<1> QED BY <1>1, RelayInvariant, PTL

\* Two peers with one address would be in one /24, hence in one room, hence
\* the same member of it.
LEMMA InvAddressesUnique == RelayInv => AddressesUnique
<1> SUFFICES ASSUME RelayInv, NEW h \in Joined, NEW g \in Joined, ip[h] = ip[g] PROVE h = g
  BY DEF AddressesUnique
<1>1. /\ h \in Handlers /\ g \in Handlers /\ pc[h] = "joined" /\ pc[g] = "joined"
  BY DEF Joined
<1>2. \A f \in {h, g} : /\ room[f] \in RoomIds /\ ~closed[room[f]] /\ f \in peers[room[f]]
                        /\ ip[f] - HostOf(ip[f]) = Address(index[room[f]], 0)
  BY <1>1, HeldRoom DEF RelayInv, MembersAreLive
<1>3. \A f \in {h, g} : room[f] \in Live /\ index[room[f]] \in Nat
  BY <1>1, <1>2, HeldRoom DEF RelayInv, TypeOK
<1>4. Address(index[room[h]], 0) = Address(index[room[g]], 0)
  BY <1>2
<1>5. index[room[h]] = index[room[g]]
  BY <1>3, <1>4, PoolAssumption DEF Address
<1>6. room[h] = room[g]
  BY <1>3, <1>5 DEF RelayInv, IndexPartition
<1> QED BY <1>2, <1>3, <1>6 DEF RelayInv, HostPartition

\* No two peers of the relay ever have the same IPv4 address.
THEOREM NoAddressShared == Spec => []AddressesUnique
  BY InvAddressesUnique, RelayInvariant, PTL
=============================================================================
