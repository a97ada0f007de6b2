---------------------------- MODULE RelayPromises ----------------------------
(***************************************************************************)
(* What the room manager promises to the rest of the relay, proved from the *)
(* inductive invariant of RelayProofs: it implements AddressPlan, a MAC     *)
(* granted on request is held once, no room is forgotten, and a call of     *)
(* Join or RemovePeer comes to its end.                                     *)
(***************************************************************************)
EXTENDS RelayProofs

\* Peers share a /24 exactly when they joined under the same name.
SubnetsFollowNames ==
  \A h, g \in Joined :
    want[h].name = want[g].name <=> Plan!Subnet(ip[h]) = Plan!Subnet(ip[g])

\* Rooms of different names have different /24s.
LEMMA InvSubnets == RelayInv => SubnetsFollowNames
<1> SUFFICES ASSUME RelayInv, NEW h \in Joined, NEW g \in Joined
             PROVE  want[h].name = want[g].name <=> Plan!Subnet(ip[h]) = Plan!Subnet(ip[g])
  BY DEF SubnetsFollowNames
<1>1. h \in Handlers /\ g \in Handlers /\ pc[h] = "joined" /\ pc[g] = "joined"
  BY DEF Joined
<1>2. \A f \in {h, g} : /\ room[f] \in RoomIds /\ want[f].name \in Names
                        /\ ~closed[room[f]] /\ rooms[want[f].name] = room[f]
                        /\ Plan!Subnet(ip[f]) = Address(index[room[f]], 0)
  BY <1>1, HeldRoom DEF RelayInv, MembersAreLive, Plan!Subnet, HostOf
<1>3. \A f \in {h, g} : room[f] \in Live /\ index[room[f]] \in Nat
  BY <1>1, <1>2, HeldRoom DEF RelayInv, TypeOK
<1>4. ASSUME want[h].name = want[g].name PROVE Plan!Subnet(ip[h]) = Plan!Subnet(ip[g])
  BY <1>2, <1>4
<1>5. ASSUME Plan!Subnet(ip[h]) = Plan!Subnet(ip[g]) PROVE want[h].name = want[g].name
  <2>1. Address(index[room[h]], 0) = Address(index[room[g]], 0)
    BY <1>2, <1>5
  <2>2. index[room[h]] = index[room[g]]
    BY <1>3, <2>1, PoolAssumption DEF Address
  <2>3. room[h] = room[g]
    BY <1>3, <2>2 DEF RelayInv, IndexPartition
  <2>4. \A n \in Names : rooms[n] = room[h] => n = roomName[room[h]]
    BY <1>2, NullAssumption DEF RelayInv, MapSound
  <2> QED BY <1>2, <2>3, <2>4
<1> QED BY <1>4, <1>5

\* A step that leaves every peer's membership, name and address alone.
LEMMA LeasesKept ==
  ASSUME \A h \in Handlers :
           /\ pc[h] = "joined" <=> pc'[h] = "joined"
           /\ pc[h] = "joined" => want'[h] = want[h] /\ ip'[h] = ip[h]
  PROVE  leases' = leases
  BY DEF leases

\* Every step of the relay is a step of the plan or changes no lease.
LEMMA PlanStep ==
  ASSUME RelayInv, [Next]_vars, TypeOK', AddressesUnique', SubnetsFollowNames'
  PROVE  [Plan!PlanNext]_leases
<1>0. TypeOK /\ HandlersSound
  BY DEF RelayInv
<1>1. ASSUME NEW h \in Handlers, AddPeer(h) PROVE Plan!PlanNext
  <2> DEFINE n == want[h].name
             a == ip'[h]
  <2>1. /\ pc[h] = "add" /\ pc' = [pc EXCEPT ![h] = "joined"] /\ want' = want
        /\ \E host \in Hosts : ip' = [ip EXCEPT ![h] = Address(index[room[h]], host)]
    BY <1>1 DEF AddPeer
  <2>2. /\ pc'[h] = "joined"
        /\ \A g \in Handlers \ {h} : pc'[g] = pc[g] /\ ip'[g] = ip[g]
    BY <1>0, <2>1 DEF TypeOK
  <2>3. n \in Names /\ index[room[h]] \in Indices
    BY <1>1, <2>1, HeldRoom DEF AddPeer
  <2>4. a \in Addresses
    BY <1>0, <2>1, <2>3 DEF Addresses, TypeOK
  <2>5. leases[h] = Null /\ leases' = [leases EXCEPT ![h] = [name |-> n, addr |-> a]]
    <3>1. ASSUME NEW g \in Handlers
          PROVE  leases'[g] = [leases EXCEPT ![h] = [name |-> n, addr |-> a]][g]
      BY <2>1, <2>2 DEF leases
    <3> QED BY <2>1, <3>1 DEF leases
  <2>6. ASSUME NEW q \in Plan!Leased
        PROVE  /\ leases[q].addr # a
               /\ leases[q].name = n <=> Plan!Subnet(leases[q].addr) = Plan!Subnet(a)
    <3>1. q \in Handlers /\ pc[q] = "joined" /\ q # h
      BY <2>1, <2>6 DEF Plan!Leased, leases
    <3>2. leases[q].name = want[q].name /\ leases[q].addr = ip'[q]
      BY <2>2, <3>1 DEF leases
    <3>3. h \in Joined' /\ q \in Joined'
      BY <2>2, <3>1 DEF Joined
    <3>4. ip'[q] # ip'[h]
      BY <3>1, <3>3 DEF AddressesUnique
    <3>5. want'[q].name = want'[h].name <=> Plan!Subnet(ip'[q]) = Plan!Subnet(ip'[h])
      BY <3>3 DEF SubnetsFollowNames, Plan!Subnet
    <3> QED BY <2>1, <3>2, <3>4, <3>5
  <2>7. Plan!Take(h, n, a)
    BY <2>5, <2>6 DEF Plan!Take
  <2> QED BY <2>3, <2>4, <2>7 DEF Plan!PlanNext
<1>2. ASSUME NEW h \in Handlers, RemovePeer(h) PROVE Plan!PlanNext
  <2>1. /\ pc[h] = "joined" /\ want' = want /\ ip' = ip
        /\ pc'[h] \in {"close", "closeLast"} /\ \A g \in Handlers \ {h} : pc'[g] = pc[g]
    BY <1>0, <1>2 DEF RemovePeer, peerVars, TypeOK
  <2>2. leases' = [leases EXCEPT ![h] = Null]
    BY <2>1 DEF leases
  <2>3. leases[h] # Null
    <3>1. want[h].name \in Names /\ leases[h] = [name |-> want[h].name, addr |-> ip[h]]
      BY <1>0, <2>1 DEF leases, HandlersSound
    <3>2. \A x \in Addresses \cup {0} : x \in Nat
      <4>1. \A i \in Indices, k \in Hosts : Address(i, k) \in Nat
        BY AddressFacts DEF Indices
      <4> QED BY <4>1 DEF Addresses
    <3>3. ip[h] \in Addresses \cup {0}
      BY <1>0 DEF TypeOK
    <3>4. ip[h] \in Nat
      BY <3>2, <3>3
    <3> QED BY <3>1, <3>4, NullIsNoLease
  <2> QED BY <2>2, <2>3 DEF Plan!PlanNext, Plan!Release
<1>3. ASSUME NEW h \in Handlers,
             \/ \E n \in Names, m \in RequestMACs \cup {Null} : StartJoin(h, n, m)
             \/ FindRoom(h) \/ CreateRoom(h) \/ PoolFull(h) \/ AddPeerClosed(h)
             \/ AddPeerRefused(h) \/ Forward(h) \/ CloseFrames(h) \/ CloseFramesLast(h)
             \/ DeleteEmptyRoom(h)
      PROVE  leases' = leases
  BY <1>0, <1>3, LeasesKept
     DEF StartJoin, FindRoom, CreateRoom, PoolFull, AddPeerClosed, AddPeerRefused, Forward,
         CloseFrames, CloseFramesLast, DeleteEmptyRoom, Return, peerVars, TypeOK
<1>4. CASE UNCHANGED vars
  BY <1>4, LeasesKept DEF vars, peerVars
<1> QED
  BY <1>1, <1>2, <1>3, <1>4 DEF Next, Step

\* The room manager implements AddressPlan: an address is leased to one peer at
\* a time, in the /24 of its room name, from AddPeer until RemovePeer.
THEOREM RelayImplementsPlan == Spec => ImplementsPlan
<1>1. Init => Plan!PlanInit
  BY DEF Init, Plan!PlanInit, leases
<1>2. RelayInv' => TypeOK' /\ AddressesUnique' /\ SubnetsFollowNames'
  BY InvAddressesUnique, InvSubnets, PTL DEF RelayInv
<1>3. RelayInv /\ RelayInv' /\ [Next]_vars => [Plan!PlanNext]_leases
  BY <1>2, PlanStep
<1> QED BY <1>1, <1>3, RelayInvariant, PTL DEF Spec, ImplementsPlan, Plan!PlanSpec
-----------------------------------------------------------------------------
\* A handler that gives up on an open room leaves members behind: a MAC in use
\* has an owner, and a full room has a member on its first host.
LEMMA RefusedRoomHasMembers ==
  ASSUME RelayInv, RequestMACs \subseteq ValidMACs, NEW h \in Handlers, AddPeerRefused(h)
  PROVE  peers[room[h]] # {}
<1>0. TypeOK /\ HostPartition /\ MACTableSound
  BY DEF RelayInv
<1>1. room[h] \in RoomIds /\ room[h] \in Live
  BY HeldRoom DEF AddPeerRefused
<1>2. CASE MACRefused(h)
  <2>1. want[h].mac \in RequestMACs
    BY <1>0, <1>2 DEF MACRefused, TypeOK
  <2>2. want[h].mac \in MACs /\ macToPeer[room[h]][want[h].mac] # Null
    BY <1>2, <2>1, MACAssumption DEF MACRefused
  <2> QED BY <1>0, <1>1, <2>2 DEF MACTableSound
<1>3. CASE RoomFull(room[h])
  <2>1. /\ FirstHost \in Hosts /\ freeHosts[room[h]] = {}
        /\ nextHost[room[h]] \in FirstHost .. LastHost + 1 /\ nextHost[room[h]] > LastHost
    BY <1>0, <1>1, <1>3, HostAssumption DEF RoomFull, Hosts, TypeOK
  <2>2. FirstHost < nextHost[room[h]]
    BY <2>1, HostAssumption
  <2> QED BY <1>0, <1>1, <2>1, <2>2 DEF HostPartition
<1> QED BY <1>2, <1>3 DEF AddPeerRefused

\* Every step keeps empty rooms tended, if all requested MACs are valid.
LEMMA TendedStep ==
  ASSUME RelayInv, EmptyRoomsAreTended, [Next]_vars, RequestMACs \subseteq ValidMACs
  PROVE  EmptyRoomsAreTended'
<1>0. TypeOK /\ HandlersSound /\ MapSound /\ PeersSound
  BY DEF RelayInv
<1>1. Live \subseteq RoomIds /\ \A r \in Live : ~closed[r]
  BY <1>0 DEF Live, TypeOK, MapSound
\* It is enough that a step that stops tending a room leaves it non-empty or dead.
<1>2. ASSUME Live' \subseteq Live,
             NEW h \in Handlers,
             \A g \in Handlers \ {h} : pc'[g] = pc[g] /\ room'[g] = room[g],
             \A r \in Live' : peers'[r] = {} =>
                /\ peers[r] = {}
                /\ Tends(h, r) => pc'[h] \in {"add", "closeLast", "delete"} /\ room'[h] = room[h]
      PROVE  EmptyRoomsAreTended'
  BY <1>2 DEF EmptyRoomsAreTended, Tends
<1>3. ASSUME NEW h \in Handlers, CreateRoom(h) PROVE EmptyRoomsAreTended'
  <2>1. PICK r \in RoomIds \ Reachable :
          /\ rooms' = [rooms EXCEPT ![want[h].name] = r]
          /\ peers' = [peers EXCEPT ![r] = {}]
          /\ room' = [room EXCEPT ![h] = r]
    BY <1>3 DEF CreateRoom
  <2>2. Live' = Live \cup {r} /\ r \notin Live
    BY <1>3, <2>1, LiveAfterCreate DEF CreateRoom, RelayInv, HandlersSound
  <2>3. /\ pc[h] = "lookup" /\ pc'[h] = "add" /\ room'[h] = r
        /\ \A g \in Handlers \ {h} : pc'[g] = pc[g] /\ room'[g] = room[g]
        /\ \A s \in Live : peers'[s] = peers[s]
    BY <1>0, <1>1, <1>3, <2>1, <2>2 DEF CreateRoom, TypeOK
  <2> QED BY <2>2, <2>3 DEF EmptyRoomsAreTended, Tends
<1>4. ASSUME NEW h \in Handlers, AddPeer(h) PROVE EmptyRoomsAreTended'
  <2>1. room[h] \in RoomIds
    BY <1>4, HeldRoom DEF AddPeer
  <2>2. /\ Live' = Live /\ room' = room
        /\ \A g \in Handlers \ {h} : pc'[g] = pc[g]
        /\ peers'[room[h]] # {}
        /\ \A r \in RoomIds : r # room[h] => peers'[r] = peers[r]
    BY <1>0, <1>4, <2>1 DEF AddPeer, managerVars, Live, TypeOK
  <2> QED BY <1>1, <1>2, <2>2 DEF Tends
<1>5. ASSUME NEW h \in Handlers, RemovePeer(h) PROVE EmptyRoomsAreTended'
  <2>1. room[h] \in RoomIds
    BY <1>5, HeldRoom DEF RemovePeer
  <2>2. /\ Live' = Live /\ room' = room
        /\ pc[h] = "joined"
        /\ \A g \in Handlers \ {h} : pc'[g] = pc[g]
        /\ peers'[room[h]] = {} => pc'[h] = "closeLast"
        /\ \A r \in RoomIds : r # room[h] => peers'[r] = peers[r]
    BY <1>0, <1>5, <2>1 DEF RemovePeer, managerVars, Live, TypeOK
  <2> QED BY <1>1, <2>2 DEF EmptyRoomsAreTended, Tends
<1>6. ASSUME NEW h \in Handlers, DeleteEmptyRoom(h) PROVE EmptyRoomsAreTended'
  <2>1. /\ peers' = peers /\ \A g \in Handlers \ {h} : pc'[g] = pc[g] /\ room'[g] = room[g]
    BY <1>0, <1>6 DEF DeleteEmptyRoom, Return, TypeOK
  <2>2. Live' \subseteq Live
    BY <1>6, LiveAfterDelete DEF DeleteEmptyRoom, Live
  <2>3. ASSUME peers[room[h]] = {} PROVE room[h] \notin Live'
    <3>1. CASE Deletable(room[h])
      BY <1>6, <3>1, LiveAfterDelete
    <3>2. CASE ~Deletable(room[h])
      <4>1. rooms[roomName[room[h]]] # room[h] /\ Live' = Live
        BY <1>6, <2>3, <3>2 DEF Deletable, DeleteEmptyRoom, Live
      <4>2. room[h] # Null
        BY <1>6, HeldRoom, NullAssumption DEF DeleteEmptyRoom
      <4>3. room[h] \notin Live
        BY <1>0, <4>1, <4>2 DEF MapSound, Live
      <4> QED BY <4>1, <4>3
    <3> QED BY <3>1, <3>2
  <2> QED BY <1>2, <2>1, <2>2, <2>3 DEF Tends
<1>7. ASSUME NEW h \in Handlers, AddPeerRefused(h) PROVE EmptyRoomsAreTended'
  <2>1. /\ Live' = Live /\ peers' = peers
        /\ \A g \in Handlers \ {h} : pc'[g] = pc[g] /\ room'[g] = room[g]
    BY <1>0, <1>7 DEF AddPeerRefused, Return, managerVars, roomVars, Live, TypeOK
  <2>2. peers[room[h]] # {}
    BY <1>7, RefusedRoomHasMembers
  <2> QED BY <1>2, <2>1, <2>2 DEF Tends
<1>8. ASSUME NEW h \in Handlers, AddPeerClosed(h) PROVE EmptyRoomsAreTended'
  <2>1. /\ Live' = Live /\ peers' = peers /\ closed[room[h]]
        /\ \A g \in Handlers \ {h} : pc'[g] = pc[g] /\ room'[g] = room[g]
    BY <1>0, <1>8 DEF AddPeerClosed, managerVars, roomVars, Live, TypeOK
  <2> QED BY <1>1, <1>2, <2>1 DEF Tends
<1>9. ASSUME NEW h \in Handlers,
             \/ \E n \in Names, m \in RequestMACs \cup {Null} : StartJoin(h, n, m)
             \/ FindRoom(h) \/ PoolFull(h) \/ Forward(h) \/ CloseFrames(h) \/ CloseFramesLast(h)
      PROVE  EmptyRoomsAreTended'
  <2>1. Live' = Live /\ peers' = peers
    BY <1>9 DEF StartJoin, FindRoom, PoolFull, Forward, CloseFrames, CloseFramesLast,
                managerVars, roomVars, Live
  <2>2. \A g \in Handlers \ {h} : pc'[g] = pc[g] /\ room'[g] = room[g]
    BY <1>0, <1>9 DEF StartJoin, FindRoom, PoolFull, Forward, CloseFrames, CloseFramesLast,
                      Return, TypeOK
  <2>3. pc[h] \in {"add", "closeLast", "delete"} =>
          pc'[h] \in {"add", "closeLast", "delete"} /\ room'[h] = room[h]
    BY <1>0, <1>9 DEF StartJoin, FindRoom, PoolFull, Forward, CloseFrames, CloseFramesLast,
                      Return, TypeOK
  <2> QED BY <1>2, <2>1, <2>2, <2>3 DEF Tends
<1>10. CASE UNCHANGED vars
  BY <1>10 DEF vars, managerVars, roomVars, EmptyRoomsAreTended, Tends, Live
<1> QED
  BY <1>3, <1>4, <1>5, <1>6, <1>7, <1>8, <1>9, <1>10 DEF Next, Step

\* If clients ask only for MACs that validPeerMAC accepts, an empty room is never
\* forgotten: a handler is about to join it or to delete it.
THEOREM NoRoomForgotten ==
  ASSUME RequestMACs \subseteq ValidMACs
  PROVE  Spec => []EmptyRoomsAreTended
<1>1. Init => EmptyRoomsAreTended
  BY DEF Init, EmptyRoomsAreTended, Live
<1>2. RelayInv /\ EmptyRoomsAreTended /\ [Next]_vars => EmptyRoomsAreTended'
  BY TendedStep
<1> QED BY <1>1, <1>2, RelayInvariant, PTL DEF Spec
-----------------------------------------------------------------------------
\* A member that was granted the MAC it asked for owns its entry of the table.
\* (A member with a drawn MAC need not: a later draw of the same MAC takes it.)
GrantedMACsOwned ==
  \A h \in Joined : want[h].mac # Null => macToPeer[room[h]][mac[h]] = h

\* Every step keeps requested MACs in one hand.
LEMMA GrantedStep ==
  ASSUME RelayInv, GrantedMACsOwned, [Next]_vars, RandomMACs \cap RequestMACs = {}
  PROVE  GrantedMACsOwned'
<1>0. TypeOK /\ HandlersSound /\ PeersSound
  BY DEF RelayInv
<1>1. ASSUME NEW g \in Handlers, pc[g] = "joined", want[g].mac # Null
      PROVE  /\ macToPeer[room[g]][mac[g]] = g
             /\ room[g] \in RoomIds /\ room[g] \in Reachable
             /\ mac[g] = want[g].mac /\ mac[g] \in RequestMACs /\ mac[g] \in MACs
  BY <1>0, <1>1, HeldRoom, MACAssumption
     DEF GrantedMACsOwned, Joined, HandlersSound, MACChoices, TypeOK, Reachable
<1>2. ASSUME UNCHANGED macToPeer,
             \A g \in Handlers : pc'[g] = "joined" =>
               pc[g] = "joined" /\ want'[g] = want[g] /\ room'[g] = room[g] /\ mac'[g] = mac[g]
      PROVE  GrantedMACsOwned'
  BY <1>1, <1>2 DEF GrantedMACsOwned, Joined
<1>3. ASSUME NEW h \in Handlers, CreateRoom(h) PROVE GrantedMACsOwned'
  <2>1. PICK r \in RoomIds \ Reachable :
          /\ macToPeer' = [macToPeer EXCEPT ![r] = [m \in MACs |-> Null]]
          /\ room' = [room EXCEPT ![h] = r]
    BY <1>3 DEF CreateRoom
  <2>2. \A g \in Handlers : pc'[g] = "joined" =>
          pc[g] = "joined" /\ want'[g] = want[g] /\ room'[g] = room[g] /\ mac'[g] = mac[g]
    BY <1>0, <1>3, <2>1 DEF CreateRoom, TypeOK, peerVars
  <2> QED BY <1>0, <1>1, <2>1, <2>2 DEF GrantedMACsOwned, Joined, TypeOK
<1>4. ASSUME NEW h \in Handlers, AddPeer(h) PROVE GrantedMACsOwned'
  <2>1. PICK m \in MACChoices(h) :
           /\ mac' = [mac EXCEPT ![h] = m]
           /\ macToPeer' = [macToPeer EXCEPT ![room[h]][m] = h]
    BY <1>4 DEF AddPeer
  <2>2. room[h] \in RoomIds /\ m \in MACs
    BY <1>0, <1>4, HeldRoom, MACAssumption DEF AddPeer, MACChoices, TypeOK
  <2>3. /\ want' = want /\ room' = room /\ mac'[h] = m
        /\ \A g \in Handlers \ {h} : pc'[g] = pc[g] /\ mac'[g] = mac[g]
        /\ macToPeer'[room[h]][m] = h
        /\ \A r \in RoomIds, k \in MACs :
             r # room[h] \/ k # m => macToPeer'[r][k] = macToPeer[r][k]
    BY <1>0, <1>4, <2>1, <2>2 DEF AddPeer, TypeOK
  <2>4. ASSUME NEW g \in Handlers \ {h}, pc[g] = "joined", want[g].mac # Null
        PROVE  room[g] # room[h] \/ mac[g] # m
    <3>1. CASE want[h].mac = Null
      BY <1>1, <2>1, <2>4, <3>1 DEF MACChoices
    <3>2. CASE want[h].mac # Null
      <4>1. want[h].mac = m /\ macToPeer[room[h]][m] = Null
        BY <1>4, <2>1, <3>2 DEF AddPeer, MACRefused, MACChoices
      <4> QED BY <1>1, <2>4, <4>1, NullAssumption
    <3> QED BY <3>1, <3>2
  <2> QED BY <1>1, <2>3, <2>4 DEF GrantedMACsOwned, Joined
<1>5. ASSUME NEW h \in Handlers, Forward(h) PROVE GrantedMACsOwned'
  <2>1. /\ UNCHANGED <<pc, want, room, mac>>
        /\ macToPeer' = [macToPeer EXCEPT ![room[h]][mac[h]] = h]
        /\ room[h] \in RoomIds /\ mac[h] \in MACChoices(h)
    BY <1>0, <1>5, HeldRoom DEF Forward, peerVars, HandlersSound
  <2>2. ASSUME NEW g \in Handlers \ {h}, pc[g] = "joined", want[g].mac # Null
        PROVE  macToPeer'[room[g]][mac[g]] = g
    <3>1. room[g] # room[h] \/ mac[g] # mac[h]
      <4>1. CASE want[h].mac = Null
        BY <1>1, <2>1, <2>2, <4>1 DEF MACChoices
      <4>2. CASE want[h].mac # Null
        BY <1>1, <1>5, <2>2, <4>2 DEF Forward
      <4> QED BY <4>1, <4>2
    <3> QED BY <1>0, <1>1, <2>1, <2>2, <3>1 DEF TypeOK
  <2>3. ASSUME pc[h] = "joined", want[h].mac # Null PROVE macToPeer'[room[h]][mac[h]] = h
    BY <1>0, <1>1, <2>1, <2>3 DEF TypeOK
  <2> QED BY <2>1, <2>2, <2>3 DEF GrantedMACsOwned, Joined
<1>6. ASSUME NEW h \in Handlers, RemovePeer(h) PROVE GrantedMACsOwned'
  <2>1. /\ room[h] \in RoomIds /\ UNCHANGED <<want, room, mac>>
        /\ \A g \in Handlers : pc'[g] = "joined" => pc[g] = "joined" /\ g # h
        /\ \A r \in RoomIds, m \in MACs : macToPeer[r][m] # h => macToPeer'[r][m] = macToPeer[r][m]
    BY <1>0, <1>6, HeldRoom DEF RemovePeer, peerVars, TypeOK
  <2> QED BY <1>1, <2>1 DEF GrantedMACsOwned, Joined
<1>7. ASSUME NEW h \in Handlers,
             \/ \E n \in Names, m \in RequestMACs \cup {Null} : StartJoin(h, n, m)
             \/ FindRoom(h) \/ PoolFull(h) \/ AddPeerClosed(h) \/ AddPeerRefused(h)
             \/ CloseFrames(h) \/ CloseFramesLast(h) \/ DeleteEmptyRoom(h)
      PROVE  GrantedMACsOwned'
  BY <1>0, <1>2, <1>7
     DEF StartJoin, FindRoom, PoolFull, AddPeerClosed, AddPeerRefused, CloseFrames,
         CloseFramesLast, DeleteEmptyRoom, Return, roomVars, peerVars, TypeOK
<1>8. CASE UNCHANGED vars
  BY <1>2, <1>8 DEF vars, roomVars, peerVars
<1> QED
  BY <1>3, <1>4, <1>5, <1>6, <1>7, <1>8 DEF Next, Step

\* As long as no draw of randomMAC hits a requested MAC, a MAC that AddPeer granted
\* on request belongs to one member of the room only.
THEOREM RequestedMACsHeldOnce == Spec => []RequestedMACsUnique
<1>1. CASE RandomMACs \cap RequestMACs = {}
  <2>1. Init => GrantedMACsOwned
    BY DEF Init, GrantedMACsOwned, Joined
  <2>2. RelayInv /\ GrantedMACsOwned /\ [Next]_vars => GrantedMACsOwned'
    BY <1>1, GrantedStep
  <2>3. RelayInv /\ GrantedMACsOwned => RequestedMACsUnique
    <3> SUFFICES ASSUME RelayInv, GrantedMACsOwned, NEW h \in Joined, NEW g \in Joined,
                        room[h] = room[g], want[h].mac # Null, mac[h] = mac[g]
                 PROVE  h = g
      BY DEF RequestedMACsUnique
    <3>1. mac[h] \in RequestMACs
      BY DEF RelayInv, HandlersSound, MACChoices, Joined, TypeOK
    <3>2. want[g].mac # Null
      BY <1>1, <3>1 DEF RelayInv, HandlersSound, MACChoices, Joined
    <3> QED BY <3>2 DEF GrantedMACsOwned
  <2> QED BY <2>1, <2>2, <2>3, RelayInvariant, PTL DEF Spec
<1>2. CASE RandomMACs \cap RequestMACs # {}
  <2>1. RequestedMACsUnique
    BY <1>2 DEF RequestedMACsUnique
  <2> QED BY <2>1, PTL
<1> QED BY <1>1, <1>2
-----------------------------------------------------------------------------
(* Liveness.  The fairness of Relay is written with the enabling condition of *)
(* Step in place of ENABLED, which the provers do not reason about.           *)

\* A new *Room can be allocated, and randomMAC can draw.
Allocates == RoomIds \ Reachable # {} /\ RandomMACs # {}

\* The places of Join and RemovePeer: a handler there waits for a mutex at most.
StepPlaces == {"lookup", "add", "close", "closeLast", "delete"}

\* A call of Join or RemovePeer that has begun runs on: WF_vars(Step(h)), as
\* Step(h) is enabled wherever a handler is inside a call.
JoinRuns(h) == []<>~(pc[h] \in StepPlaces /\ Allocates) \/ []<><<Step(h)>>_vars

\* Some handler is about to delete the room it saw empty.
Deleting == \E g \in Handlers : pc[g] = "delete"

\* The places of Join's loop: before the lookup, and before AddPeer on a room that
\* is open, or that has been closed meanwhile.
InJoin(h)    == pc[h] \in {"lookup", "add"}
AtLookup(h)  == pc[h] = "lookup"
AtOpen(h)    == pc[h] = "add" /\ ~closed[room[h]]
AtClosed(h)  == pc[h] = "add" /\ closed[room[h]]

\* What a handler's own step makes of its place: the lookup finds or makes an open
\* room, AddPeer on an open room ends the loop, on a closed one it starts it again.
LEMMA JoinMoves ==
  ASSUME RelayInv, NEW h \in Handlers, Step(h)
  PROVE  /\ AtLookup(h) => AtOpen(h)' \/ ~InJoin(h)'
         /\ AtOpen(h) => ~InJoin(h)'
         /\ AtClosed(h) => AtLookup(h)'
<1>0. TypeOK /\ HandlersSound /\ MapSound
  BY DEF RelayInv
<1> USE DEF AtLookup, AtOpen, AtClosed, InJoin
<1>1. CASE FindRoom(h)
  BY <1>0, <1>1 DEF FindRoom, TypeOK, HandlersSound, MapSound, roomVars
<1>2. CASE CreateRoom(h)
  BY <1>0, <1>2 DEF CreateRoom, TypeOK
<1>3. CASE AddPeerClosed(h)
  BY <1>0, <1>3 DEF AddPeerClosed, TypeOK
<1>4. CASE \/ PoolFull(h) \/ AddPeerRefused(h) \/ AddPeer(h) \/ CloseFrames(h)
           \/ CloseFramesLast(h) \/ DeleteEmptyRoom(h)
  BY <1>0, <1>4 DEF PoolFull, AddPeerRefused, AddPeer, CloseFrames, CloseFramesLast,
                    DeleteEmptyRoom, Return, TypeOK
<1> QED BY <1>1, <1>2, <1>3, <1>4 DEF Step

\* No other handler's step moves a handler in Join, nor opens a closed room that it
\* holds; only deleteEmptyRoom closes an open one.
LEMMA JoinStays ==
  ASSUME RelayInv, NEW h \in Handlers, InJoin(h), [Next]_vars, ~Step(h)
  PROVE  /\ pc'[h] = pc[h] /\ room'[h] = room[h]
         /\ AtClosed(h) => AtClosed(h)'
         /\ AtOpen(h) /\ ~Deleting => AtOpen(h)'
<1>0. TypeOK /\ HandlersSound
  BY DEF RelayInv
<1>1. pc[h] = "add" => room[h] \in RoomIds /\ room[h] \in Reachable
  BY HeldRoom DEF Reachable
<1> USE DEF AtClosed, AtOpen, InJoin
<1>2. ASSUME pc'[h] = pc[h], room'[h] = room[h],
             pc[h] = "add" => closed'[room[h]] = closed[room[h]]
      PROVE  /\ pc'[h] = pc[h] /\ room'[h] = room[h]
             /\ AtClosed(h) => AtClosed(h)'
             /\ AtOpen(h) /\ ~Deleting => AtOpen(h)'
  BY <1>2
<1>3. CASE UNCHANGED vars
  BY <1>2, <1>3 DEF vars, roomVars
<1>4. ASSUME NEW g \in Handlers,
             \/ \E n \in Names, m \in RequestMACs \cup {Null} : StartJoin(g, n, m)
             \/ Forward(g) \/ RemovePeer(g)
      PROVE  pc'[h] = pc[h] /\ room'[h] = room[h] /\ closed' = closed
  BY <1>0, <1>4 DEF StartJoin, Forward, RemovePeer, roomVars, TypeOK
<1>5. ASSUME NEW g \in Handlers \ {h}, CreateRoom(g)
      PROVE  pc'[h] = pc[h] /\ room'[h] = room[h]
             /\ (pc[h] = "add" => closed'[room[h]] = closed[room[h]])
  <2>1. PICK r \in RoomIds \ Reachable : /\ pc' = [pc EXCEPT ![g] = "add"]
                                         /\ room' = [room EXCEPT ![g] = r]
                                         /\ closed' = [closed EXCEPT ![r] = FALSE]
    BY <1>5 DEF CreateRoom
  <2>2. pc = [k \in Handlers |-> pc[k]] /\ room = [k \in Handlers |-> room[k]]
        /\ closed = [k \in RoomIds |-> closed[k]]
    BY <1>0 DEF TypeOK
  <2> QED BY <2>1, <2>2, <1>1
<1>6. ASSUME NEW g \in Handlers \ {h},
             \/ FindRoom(g) \/ PoolFull(g) \/ AddPeerClosed(g) \/ AddPeerRefused(g)
             \/ AddPeer(g) \/ CloseFrames(g) \/ CloseFramesLast(g)
      PROVE  pc'[h] = pc[h] /\ room'[h] = room[h] /\ closed' = closed
  BY <1>0, <1>6 DEF FindRoom, PoolFull, AddPeerClosed, AddPeerRefused, AddPeer, CloseFrames,
                    CloseFramesLast, Return, roomVars, TypeOK
<1>7. ASSUME NEW g \in Handlers \ {h}, DeleteEmptyRoom(g)
      PROVE  /\ pc'[h] = pc[h] /\ room'[h] = room[h]
             /\ AtClosed(h) => AtClosed(h)'
             /\ AtOpen(h) /\ ~Deleting => AtOpen(h)'
  <2>1. Deleting
    BY <1>7 DEF Deleting, DeleteEmptyRoom
  <2>2. pc'[h] = pc[h] /\ room'[h] = room[h]
    BY <1>0, <1>7 DEF DeleteEmptyRoom, Return, TypeOK
  <2>3. pc[h] = "add" /\ closed[room[h]] => closed'[room[h]]
    BY <1>0, <1>1, <1>7 DEF DeleteEmptyRoom, TypeOK
  <2> QED BY <2>1, <2>2, <2>3
<1> QED BY <1>2, <1>3, <1>4, <1>5, <1>6, <1>7 DEF Next, Step

\* JoinEnds for one handler.
JoinEndsFor(h) == <>[]InJoin(h) => []<>Deleting

\* Join's retry loop goes round for ever only if rooms are deleted for ever: its
\* lookup always ends at an open room, and AddPeer on an open room is the last step.
THEOREM JoinsEnd ==
  Spec /\ []Allocates /\ (\A h \in Handlers : JoinRuns(h)) => JoinEnds
<1> SUFFICES ASSUME NEW h \in Handlers
             PROVE  Spec /\ []Allocates /\ (\A g \in Handlers : JoinRuns(g)) => JoinEndsFor(h)
  BY DEF JoinEnds, JoinEndsFor, InJoin, Deleting
<1>1. (\A g \in Handlers : JoinRuns(g)) => JoinRuns(h)
  OBVIOUS
<1>2. /\ InJoin(h) => AtLookup(h) \/ AtOpen(h) \/ AtClosed(h)
      /\ InJoin(h) => pc[h] \in StepPlaces
  BY DEF InJoin, AtLookup, AtOpen, AtClosed, StepPlaces
<1>3. RelayInv /\ Step(h) => /\ AtLookup(h) => AtOpen(h)' \/ ~InJoin(h)'
                             /\ AtOpen(h) => ~InJoin(h)'
                             /\ AtClosed(h) => AtLookup(h)'
  BY JoinMoves
<1>4. RelayInv /\ InJoin(h) /\ [Next]_vars /\ ~Step(h)
        => /\ AtLookup(h) => AtLookup(h)'
           /\ AtClosed(h) => AtClosed(h)'
           /\ AtOpen(h) /\ ~Deleting => AtOpen(h)'
  BY JoinStays DEF AtLookup
<1> QED BY <1>1, <1>2, <1>3, <1>4, RelayInvariant, PTL DEF Spec, JoinRuns, JoinEndsFor
-----------------------------------------------------------------------------
\* The room of name n has no members, and handler h is about to join or delete it.
Empty(n)         == rooms[n] # Null /\ peers[rooms[n]] = {}
EmptyFor(h, n, l) == Empty(n) /\ room[h] = rooms[n] /\ pc[h] = l
Settled(n)       == rooms[n] = Null \/ peers[rooms[n]] # {}

\* A handler's own step joins or deletes the empty room it tends, or takes it to
\* deleteEmptyRoom.
LEMMA TendMoves ==
  ASSUME RelayInv, RequestMACs \subseteq ValidMACs, NEW h \in Handlers, NEW n \in Names, Step(h)
  PROVE  /\ EmptyFor(h, n, "add") => Settled(n)'
         /\ EmptyFor(h, n, "closeLast") => EmptyFor(h, n, "delete")'
         /\ EmptyFor(h, n, "delete") => Settled(n)'
<1>0. TypeOK /\ HandlersSound /\ MapSound
  BY DEF RelayInv
<1> USE DEF EmptyFor, Empty, Settled
<1>1. ASSUME EmptyFor(h, n, "add") PROVE Settled(n)'
  <2>1. room[h] \in RoomIds /\ ~closed[room[h]]
    BY <1>0, <1>1, HeldRoom DEF MapSound
  <2>2. ~AddPeerRefused(h)
    BY <1>1, RefusedRoomHasMembers
  <2>3. AddPeer(h)
    BY <1>1, <2>1, <2>2 DEF Step, FindRoom, CreateRoom, PoolFull, AddPeerClosed, CloseFrames,
                            CloseFramesLast, DeleteEmptyRoom
  <2> QED BY <1>0, <1>1, <2>1, <2>3 DEF AddPeer, managerVars, TypeOK
<1>2. ASSUME EmptyFor(h, n, "closeLast") PROVE EmptyFor(h, n, "delete")'
  <2>1. CloseFramesLast(h)
    BY <1>2 DEF Step, FindRoom, CreateRoom, PoolFull, AddPeerClosed, AddPeerRefused, AddPeer,
                CloseFrames, CloseFramesLast, DeleteEmptyRoom
  <2> QED BY <1>0, <1>2, <2>1 DEF CloseFramesLast, managerVars, roomVars, TypeOK
<1>3. ASSUME EmptyFor(h, n, "delete") PROVE Settled(n)'
  <2>1. DeleteEmptyRoom(h)
    BY <1>3 DEF Step, FindRoom, CreateRoom, PoolFull, AddPeerClosed, AddPeerRefused, AddPeer,
                CloseFrames, CloseFramesLast, DeleteEmptyRoom
  <2>2. roomName[room[h]] = n /\ Deletable(room[h])
    BY <1>0, <1>3 DEF MapSound, Deletable
  <2> QED BY <1>0, <1>3, <2>1, <2>2 DEF DeleteEmptyRoom, TypeOK
<1> QED BY <1>1, <1>2, <1>3

\* Until h moves, the room stays empty and in the map, or somebody else has joined
\* or deleted it.
LEMMA TendStays ==
  ASSUME RelayInv, NEW h \in Handlers, NEW n \in Names, NEW l, l \in {"add", "closeLast", "delete"},
         EmptyFor(h, n, l), [Next]_vars, ~Step(h)
  PROVE  EmptyFor(h, n, l)' \/ Settled(n)'
<1>0. TypeOK /\ HandlersSound
  BY DEF RelayInv
<1>1. room[h] \in RoomIds /\ room[h] \in Reachable
  BY HeldRoom DEF Reachable, EmptyFor
<1> USE DEF EmptyFor, Empty, Settled
<1>2. CASE UNCHANGED vars
  BY <1>2 DEF vars, managerVars, roomVars
<1>3. ASSUME NEW g \in Handlers,
             \/ \E k \in Names, m \in RequestMACs \cup {Null} : StartJoin(g, k, m)
             \/ Forward(g) \/ RemovePeer(g)
      PROVE  EmptyFor(h, n, l)' \/ Settled(n)'
  BY <1>0, <1>3 DEF StartJoin, Forward, RemovePeer, managerVars, roomVars, TypeOK
<1>4. ASSUME NEW g \in Handlers \ {h}, CreateRoom(g) PROVE EmptyFor(h, n, l)' \/ Settled(n)'
  <2>1. want[g].name # n
    BY <1>4 DEF CreateRoom
  <2> QED BY <1>0, <1>1, <1>4, <2>1 DEF CreateRoom, TypeOK
<1>5. ASSUME NEW g \in Handlers \ {h},
             \/ FindRoom(g) \/ PoolFull(g) \/ AddPeerClosed(g) \/ AddPeerRefused(g)
             \/ AddPeer(g) \/ CloseFrames(g) \/ CloseFramesLast(g)
      PROVE  EmptyFor(h, n, l)' \/ Settled(n)'
  <2>1. room'[h] = room[h] /\ pc'[h] = pc[h] /\ rooms' = rooms
    BY <1>0, <1>5 DEF FindRoom, PoolFull, AddPeerClosed, AddPeerRefused, AddPeer, CloseFrames,
                      CloseFramesLast, Return, managerVars, TypeOK
  <2> QED BY <2>1
<1>6. ASSUME NEW g \in Handlers \ {h}, DeleteEmptyRoom(g)
      PROVE  EmptyFor(h, n, l)' \/ Settled(n)'
  <2>1. room'[h] = room[h] /\ pc'[h] = pc[h] /\ peers' = peers
    BY <1>0, <1>6 DEF DeleteEmptyRoom, Return, TypeOK
  <2>2. rooms'[n] = rooms[n] \/ rooms'[n] = Null
    BY <1>0, <1>6 DEF DeleteEmptyRoom, TypeOK
  <2> QED BY <2>1, <2>2
<1> QED BY <1>2, <1>3, <1>4, <1>5, <1>6 DEF Next, Step

\* Some handler is about to join or delete the empty room of name n, or to close
\* its queue before it deletes it.
Deciding(n) == \E h \in Handlers : EmptyFor(h, n, "add") \/ EmptyFor(h, n, "delete")
Closing(n)  == \E h \in Handlers : EmptyFor(h, n, "closeLast")

\* A step of one of these handlers.
DecideStep(n) == \E h \in Handlers : /\ room[h] = rooms[n] /\ pc[h] \in {"add", "delete"}
                                     /\ Step(h)
CloseStep(n)  == \E h \in Handlers : /\ room[h] = rooms[n] /\ pc[h] = "closeLast"
                                     /\ Step(h)

\* Of the handlers that tend a room one gets on.  This follows from JoinRuns for
\* each of them, as a handler tends a room until its own next step.
TendersRun(n) ==
  /\ []<>~(Deciding(n) /\ Allocates) \/ []<><<DecideStep(n)>>_vars
  /\ []<>~(Closing(n) /\ Allocates) \/ []<><<CloseStep(n)>>_vars

\* The ways of an empty room: it is decided on at once, or after a queue is closed.
LEMMA TendedWays ==
  ASSUME RelayInv, RequestMACs \subseteq ValidMACs, [Next]_vars, NEW n \in Names
  PROVE  /\ Deciding(n) /\ DecideStep(n) => Settled(n)'
         /\ Deciding(n) /\ ~DecideStep(n) => Deciding(n)' \/ Settled(n)'
         /\ Closing(n) /\ CloseStep(n) => Deciding(n)'
         /\ Closing(n) /\ ~CloseStep(n) => Closing(n)' \/ Settled(n)'
<1>1. ASSUME Deciding(n), DecideStep(n) PROVE Settled(n)'
  <2>1. PICK h \in Handlers : room[h] = rooms[n] /\ pc[h] \in {"add", "delete"} /\ Step(h)
    BY <1>1 DEF DecideStep
  <2>2. EmptyFor(h, n, "add") \/ EmptyFor(h, n, "delete")
    BY <1>1, <2>1 DEF Deciding, EmptyFor
  <2> QED BY <2>1, <2>2, TendMoves
<1>2. ASSUME Deciding(n), ~DecideStep(n) PROVE Deciding(n)' \/ Settled(n)'
  <2>1. PICK h \in Handlers : EmptyFor(h, n, "add") \/ EmptyFor(h, n, "delete")
    BY <1>2 DEF Deciding
  <2>2. ~Step(h)
    BY <1>2, <2>1 DEF DecideStep, EmptyFor
  <2>3. (EmptyFor(h, n, "add") \/ EmptyFor(h, n, "delete"))' \/ Settled(n)'
    BY <2>1, <2>2, TendStays
  <2> QED BY <2>3 DEF Deciding
<1>3. ASSUME Closing(n), CloseStep(n) PROVE Deciding(n)'
  <2>1. PICK h \in Handlers : room[h] = rooms[n] /\ pc[h] = "closeLast" /\ Step(h)
    BY <1>3 DEF CloseStep
  <2>2. EmptyFor(h, n, "closeLast")
    BY <1>3, <2>1 DEF Closing, EmptyFor
  <2>3. EmptyFor(h, n, "delete")'
    BY <2>1, <2>2, TendMoves
  <2> QED BY <2>3 DEF Deciding
<1>4. ASSUME Closing(n), ~CloseStep(n) PROVE Closing(n)' \/ Settled(n)'
  <2>1. PICK h \in Handlers : EmptyFor(h, n, "closeLast")
    BY <1>4 DEF Closing
  <2>2. ~Step(h)
    BY <1>4, <2>1 DEF CloseStep, EmptyFor
  <2>3. EmptyFor(h, n, "closeLast")' \/ Settled(n)'
    BY <2>1, <2>2, TendStays
  <2> QED BY <2>3 DEF Closing
<1> QED BY <1>1, <1>2, <1>3, <1>4

\* EmptyRoomsEnd for one name.
EmptyEnds(n) == Empty(n) ~> Settled(n)

\* If clients ask only for MACs that validPeerMAC accepts, every empty room is joined
\* or deleted in the end, and its /24 is not lost: somebody tends it, an AddPeer on
\* it succeeds, and deleteEmptyRoom finds it empty and in the map.
THEOREM EmptyRoomsSettle ==
  ASSUME RequestMACs \subseteq ValidMACs
  PROVE  Spec /\ []Allocates /\ (\A n \in Names : TendersRun(n)) => EmptyRoomsEnd
<1> SUFFICES ASSUME NEW n \in Names
             PROVE  Spec /\ []Allocates /\ (\A k \in Names : TendersRun(k)) => EmptyEnds(n)
  BY DEF EmptyRoomsEnd, EmptyEnds, Empty, Settled
<1>1. (\A k \in Names : TendersRun(k)) => TendersRun(n)
  OBVIOUS
<1>2. RelayInv /\ EmptyRoomsAreTended /\ Empty(n) => Deciding(n) \/ Closing(n)
  <2> SUFFICES ASSUME RelayInv, EmptyRoomsAreTended, Empty(n) PROVE Deciding(n) \/ Closing(n)
    OBVIOUS
  <2>1. PICK h \in Handlers : Tends(h, rooms[n])
    BY DEF EmptyRoomsAreTended, Empty, Live
  <2> QED BY <2>1 DEF Deciding, Closing, EmptyFor, Tends
<1>3. RelayInv /\ [Next]_vars
        => /\ Deciding(n) /\ DecideStep(n) => Settled(n)'
           /\ Deciding(n) /\ ~DecideStep(n) => Deciding(n)' \/ Settled(n)'
           /\ Closing(n) /\ CloseStep(n) => Deciding(n)'
           /\ Closing(n) /\ ~CloseStep(n) => Closing(n)' \/ Settled(n)'
  BY TendedWays
<1>4. Spec => []EmptyRoomsAreTended
  BY NoRoomForgotten
<1> QED BY <1>1, <1>2, <1>3, <1>4, RelayInvariant, PTL DEF Spec, TendersRun, EmptyEnds
=============================================================================
