---------------------------- MODULE PeerListProofs ----------------------------
(***************************************************************************)
(* Proofs about PeerList for any number of connections, any capacity of the *)
(* notify channels and any limits on what fits into a control message: the  *)
(* broadcasts keep their types, a room at rest can always be listed, and    *)
(* membership changes that take turns leave every client informed.          *)
(***************************************************************************)
EXTENDS PeerList, SequenceTheorems, FiniteSetTheorems, TLAPS

Messages == Lists \cup {Ping, Empty}

\* The handlers that own a peer in Room.peers.
InRoom == {"snap", "accept", "open", "gather", "send", "serve"}

\* The types, with those of the sequences.
ListType ==
  /\ pc \in [Peers -> InRoom \cup {"out", "delete", "count", "snapLeft", "gatherLeft",
                                   "sendLeft", "gone"}]
  /\ created \in Nat /\ current \in 0..created
  /\ members \in Seq(Lists) /\ Len(members) = created
  /\ roomOf \in [Peers -> 0..created]
  /\ \A p \in Peers : pc[p] # "out" => roomOf[p] # 0
  /\ acceptMax \in 0..Cardinality(Peers) /\ listMax \in acceptMax..Cardinality(Peers)
  /\ lost \subseteq Peers
  /\ list \in [Peers -> Lists] /\ view \in [Peers -> Lists] /\ targets \in [Peers -> Lists]
  /\ notify \in [Peers -> Seq(Messages)]
  /\ \A p \in Peers : Len(notify[p]) <= NotifyCap
  /\ notifier \in [Peers -> {"none", "run", "exited"}]
  /\ pings \in 0..MaxPings /\ overlap \in BOOLEAN /\ dropped \in BOOLEAN

\* A room's members are the handlers between their Join and their Exit.
MembersTrue ==
  \A r \in Rooms : members[r] = {p \in Peers : roomOf[p] = r /\ pc[p] \in InRoom}

\* Whoever has been accepted had a list that fits into a JoinAccept.
AcceptedFits ==
  \A p \in Peers : pc[p] \in {"open", "gather", "send", "serve"}
                     => Cardinality(list[p]) <= acceptMax

\* Of any members of a room, one saw all of them in its snapshot or has yet to
\* take it: the last one to do so.
LastSeesAll ==
  \A r \in Rooms : \A S \in SUBSET members[r] :
    S # {} => \E q \in S : pc[q] = "snap" \/ S \subseteq list[q]

\* The messages s, applied to list v, give list l.
Conveys(s, v, l) ==
  \/ /\ \A i \in 1..Len(s) : s[i] \in {Ping, Empty}
     /\ v = l
  \/ \E i \in 1..Len(s) :
       /\ s[i] = l
       /\ \A j \in 1..Len(s) : j > i => s[j] \in {Ping, Empty}

\* Handler q is between a change of p's room and telling p of it.
WillTell(q, p) ==
  /\ q # p /\ Busy(q) /\ roomOf[q] = roomOf[p]
  /\ pc[q] \in {"send", "sendLeft"} => p \in targets[q]

\* One change at a time: its handler's snapshot is the membership, and every
\* member that stays knows it or will be told.
OneChange == \A p, q \in Peers : Busy(p) /\ Busy(q) => p = q
QuietQueues ==
  \A p \in Peers : pc[p] \in {"out", "snap", "accept"}
                     => \A i \in 1..Len(notify[p]) : notify[p][i] = Ping
SnapshotsTrue ==
  \A q \in Peers :
    /\ pc[q] \in {"accept", "open", "gather", "send", "gatherLeft", "sendLeft"}
         => list[q] = members[roomOf[q]]
    /\ pc[q] \in {"send", "sendLeft"} => targets[q] \subseteq members[roomOf[q]] \ {q}
AllTold ==
  \A p \in Peers : p \notin lost /\ pc[p] \in {"open", "gather", "send", "serve"}
    => \/ Conveys(notify[p], view[p], members[roomOf[p]])
       \/ \E q \in Peers : WillTell(q, p)

SerialInv == ~overlap /\ ~dropped => OneChange /\ QuietQueues /\ SnapshotsTrue /\ AllTold

\* The inductive invariant of the rooms.
ListInv == ListType /\ MembersTrue /\ AcceptedFits /\ LastSeesAll
-----------------------------------------------------------------------------
(* Types.                                                                    *)

\* Limits are numbers.
LEMMA Limits == Cardinality(Peers) \in Nat /\ Ping \notin Lists /\ Empty \notin Lists /\ Ping # Empty
BY ListAssumption, FS_CardinalityType DEF Lists

\* An empty server satisfies the invariants.
LEMMA ListInit == Init => ListInv /\ SerialInv
<1> SUFFICES ASSUME Init PROVE ListInv /\ SerialInv
  OBVIOUS
<1> USE DEF Init
<1>1. members \in Seq(Lists) /\ Len(members) = 0 /\ << >> \in Seq(Messages) /\ Len(<< >>) = 0
  BY EmptySeq
<1>2. acceptMax \in 0..Cardinality(Peers) /\ listMax \in acceptMax..Cardinality(Peers)
  BY Limits, ListAssumption
<1>3. ListType
  <2>1. /\ notify \in [Peers -> Seq(Messages)]
        /\ \A p \in Peers : Len(notify[p]) <= NotifyCap
    BY <1>1, ListAssumption
  <2>2. {} \in Lists
    BY DEF Lists
  <2>3. 0 \in 0..MaxPings
    BY ListAssumption
  <2>4. /\ list \in [Peers -> Lists] /\ view \in [Peers -> Lists]
        /\ targets \in [Peers -> Lists] /\ roomOf \in [Peers -> 0..0]
    BY <2>2
  <2>5. /\ pc \in [Peers -> InRoom \cup {"out", "delete", "count", "snapLeft",
                                         "gatherLeft", "sendLeft", "gone"}]
        /\ \A p \in Peers : pc[p] = "out"
        /\ notifier \in [Peers -> {"none", "run", "exited"}]
    OBVIOUS
  <2>6. created \in Nat /\ current \in 0..created /\ roomOf \in [Peers -> 0..created]
    BY <2>4
  <2>7. lost \subseteq Peers /\ pings \in 0..MaxPings /\ overlap \in BOOLEAN /\ dropped \in BOOLEAN
    BY <2>3
  <2>8. Len(members) = created
    BY <1>1
  <2> HIDE DEF Init
  <2> QED BY <1>1, <1>2, <2>1, <2>4, <2>5, <2>6, <2>7, <2>8 DEF ListType
<1>4. Rooms = {}
  BY DEF Rooms
<1>5. MembersTrue /\ LastSeesAll /\ AcceptedFits
  BY <1>4 DEF MembersTrue, LastSeesAll, AcceptedFits
<1>6. SerialInv
  BY <1>1 DEF SerialInv, OneChange, QuietQueues, SnapshotsTrue, AllTold, Busy
<1> QED BY <1>3, <1>5, <1>6 DEF ListInv

\* A handler with a peer has a room, and the room is a set of peers.
LEMMA RoomOfPeer ==
  ASSUME ListType, NEW p \in Peers, pc[p] # "out"
  PROVE  roomOf[p] \in Rooms /\ roomOf[p] \in 1..Len(members) /\ members[roomOf[p]] \in Lists
<1>1. roomOf[p] \in 1..Len(members) /\ roomOf[p] \in Rooms
  BY DEF ListType, Rooms
<1> QED BY <1>1, ElementOfSeq DEF ListType

\* What Offer does to a channel.
LEMMA OfferEffect ==
  ASSUME ListType, NEW q \in Peers, NEW msg \in Messages, Offer(q, msg)
  PROVE  /\ notify' \in [Peers -> Seq(Messages)]
         /\ \A p \in Peers : Len(notify'[p]) <= NotifyCap
         /\ dropped' \in BOOLEAN
         /\ \A p \in Peers : p # q => notify'[p] = notify[p]
         /\ \/ notify'[q] = Append(notify[q], msg) /\ dropped' = dropped
            \/ notify'[q] = notify[q] /\ (msg # Ping => dropped')
<1> USE DEF ListType
<1>1. /\ Append(notify[q], msg) \in Seq(Messages)
      /\ Len(Append(notify[q], msg)) = Len(notify[q]) + 1
      /\ Len(notify[q]) \in Nat
  BY AppendProperties, LenProperties
<1>2. CASE Len(notify[q]) < NotifyCap
  <2>1. notify' = [notify EXCEPT ![q] = Append(notify[q], msg)] /\ dropped' = dropped
    BY <1>2 DEF Offer
  <2>2. Len(notify[q]) + 1 <= NotifyCap
    BY <1>1, <1>2, ListAssumption
  <2> QED BY <1>1, <2>1, <2>2
<1>3. CASE ~(Len(notify[q]) < NotifyCap)
  BY <1>3 DEF Offer
<1> QED BY <1>2, <1>3

\* A channel loses its head.
LEMMA TakeEffect ==
  ASSUME ListType, NEW p \in Peers, notify[p] # << >>,
         notify' = [notify EXCEPT ![p] = Tail(@)]
  PROVE  /\ notify' \in [Peers -> Seq(Messages)]
         /\ \A q \in Peers : Len(notify'[q]) <= NotifyCap
         /\ Head(notify[p]) \in Messages
<1> USE DEF ListType
<1>1. /\ Tail(notify[p]) \in Seq(Messages) /\ Len(Tail(notify[p])) = Len(notify[p]) - 1
      /\ Head(notify[p]) \in Messages /\ Len(notify[p]) \in Nat
  BY HeadTailProperties, LenProperties
<1>2. notify' \in [Peers -> Seq(Messages)]
  BY <1>1
<1>3. NotifyCap \in Nat
  BY ListAssumption
<1> QED BY <1>1, <1>2, <1>3

\* The message of a broadcast is a list or nothing.
LEMMA BuiltMessage == ASSUME NEW l \in Lists PROVE buildPeerListMsg(l) \in Messages
BY DEF buildPeerListMsg, Messages

\* Every step keeps the types.
LEMMA ListTypeStep == ListType /\ [Next]_vars => ListType'
<1> SUFFICES ASSUME ListType, [Next]_vars PROVE ListType'
  OBVIOUS
<1> USE DEF ListType, roomVars, chanVars, limits, Goto, InRoom
<1>1. ASSUME NEW p \in Peers, Join(p) PROVE ListType'
  <2> USE <1>1 DEF Join, NoteOverlap
  <2>1. CASE current = 0
    <3>1. {p} \in Lists
      BY DEF Lists
    <3>2. members' \in Seq(Lists) /\ Len(members') = created' /\ created' = created + 1
      <4>1. members' = Append(members, {p}) /\ created' = created + 1
        BY <2>1
      <4> QED BY <3>1, <4>1, AppendProperties
    <3>3. roomOf' = [roomOf EXCEPT ![p] = created + 1] /\ current' = created + 1
      BY <2>1
    <3>4. /\ roomOf' \in [Peers -> 0..created'] /\ current' \in 0..created'
          /\ \A q \in Peers : pc'[q] # "out" => roomOf'[q] # 0
      BY <3>2, <3>3
    <3> QED BY <2>1, <3>2, <3>4
  <2>2. CASE current # 0
    <3>1. members[current] \in Lists /\ current \in 1..Len(members)
      BY <2>2, ElementOfSeq
    <3>2. members[current] \cup {p} \in Lists
      BY <3>1 DEF Lists
    <3>3. members' \in Seq(Lists) /\ Len(members') = created
      <4>1. members' = [members EXCEPT ![current] = members[current] \cup {p}]
        BY <2>2
      <4> QED BY <3>1, <3>2, <4>1, ExceptSeq
    <3>4. roomOf' = [roomOf EXCEPT ![p] = current] /\ created' = created /\ current' = current
      BY <2>2
    <3>5. /\ roomOf' \in [Peers -> 0..created'] /\ current' \in 0..created'
          /\ \A q \in Peers : pc'[q] # "out" => roomOf'[q] # 0
      BY <2>2, <3>4
    <3> QED BY <2>2, <3>3, <3>4, <3>5
  <2> QED BY <2>1, <2>2
<1>2. ASSUME NEW p \in Peers, Snapshot(p) PROVE ListType'
  <2>1. members[roomOf[p]] \in Lists
    BY <1>2, RoomOfPeer DEF Snapshot
  <2> QED BY <1>2, <2>1 DEF Snapshot
<1>3. ASSUME NEW p \in Peers, Accept(p) PROVE ListType'
  BY <1>3 DEF Accept
<1>4. ASSUME NEW p \in Peers, OpenData(p) PROVE ListType'
  BY <1>4 DEF OpenData
<1>5. ASSUME NEW p \in Peers, Gather(p) PROVE ListType'
  <2>1. members[roomOf[p]] \ {p} \in Lists
    BY <1>5, RoomOfPeer DEF Gather, Lists
  <2> QED BY <1>5, <2>1 DEF Gather
<1>6. ASSUME NEW p \in Peers, NEW q \in Peers, Send(p, q) PROVE ListType'
  <2>1. /\ notify' \in [Peers -> Seq(Messages)] /\ dropped' \in BOOLEAN
        /\ \A k \in Peers : Len(notify'[k]) <= NotifyCap
    BY <1>6, BuiltMessage, OfferEffect DEF Send
  <2>2. targets' \in [Peers -> Lists]
    BY <1>6 DEF Send, Lists
  <2> QED BY <1>6, <2>1, <2>2 DEF Send
<1>7. ASSUME NEW p \in Peers, Sent(p) PROVE ListType'
  BY <1>7 DEF Sent
<1>8. ASSUME NEW p \in Peers, Lose(p) PROVE ListType'
  BY <1>8 DEF Lose
<1>9. ASSUME NEW p \in Peers, Exit(p) PROVE ListType'
  <2>1. /\ roomOf[p] \in 1..Len(members) /\ members[roomOf[p]] \ {p} \in Lists
    BY <1>9, RoomOfPeer DEF Exit, Lists
  <2>2. members' \in Seq(Lists) /\ Len(members') = created
    BY <1>9, <2>1, ExceptSeq DEF Exit
  <2> QED BY <1>9, <2>2 DEF Exit, NoteOverlap
<1>10. ASSUME NEW p \in Peers, DeleteEmptyRoom(p) PROVE ListType'
  BY <1>10 DEF DeleteEmptyRoom
<1>11. ASSUME NEW p \in Peers, Count(p) PROVE ListType'
  BY <1>11 DEF Count
<1>12. ASSUME NEW p \in Peers, NEW q \in Peers, ForwardPing(p, q) PROVE ListType'
  <2>1. /\ notify' \in [Peers -> Seq(Messages)] /\ dropped' \in BOOLEAN
        /\ \A k \in Peers : Len(notify'[k]) <= NotifyCap
    BY <1>12, OfferEffect DEF ForwardPing, Messages
  <2>2. pings' \in 0..MaxPings
    BY <1>12, ListAssumption DEF ForwardPing
  <2> QED BY <1>12, <2>1, <2>2 DEF ForwardPing
<1>13. ASSUME NEW p \in Peers, Notify(p) PROVE ListType'
  <2>1. /\ notify' \in [Peers -> Seq(Messages)] /\ Head(notify[p]) \in Messages
        /\ \A k \in Peers : Len(notify'[k]) <= NotifyCap
    BY <1>13, TakeEffect DEF Notify
  <2>2. view' \in [Peers -> Lists]
    BY <1>13, <2>1 DEF Notify, Messages
  <2> QED BY <1>13, <2>1, <2>2 DEF Notify
<1>14. ASSUME NEW p \in Peers, NotifyFails(p) PROVE ListType'
  <2>1. /\ notify' \in [Peers -> Seq(Messages)]
        /\ \A k \in Peers : Len(notify'[k]) <= NotifyCap
    BY <1>14, TakeEffect DEF NotifyFails
  <2> QED BY <1>14, <2>1 DEF NotifyFails
<1>15. CASE UNCHANGED vars
  BY <1>15 DEF vars
<1> QED
  BY <1>1, <1>2, <1>3, <1>4, <1>5, <1>6, <1>7, <1>8, <1>9, <1>10, <1>11, <1>12, <1>13,
     <1>14, <1>15 DEF Next, HandlerStep, NotifierStep
-----------------------------------------------------------------------------
(* Rooms.                                                                    *)

\* Join adds p to one room, which may be new.
LEMMA JoinEffect ==
  ASSUME ListType, NEW p \in Peers, Join(p)
  PROVE  /\ current' \in Nat \ {0} /\ Rooms' = Rooms \cup {current'}
         /\ \A r \in Rooms : members'[r] = IF r = current' THEN members[r] \cup {p}
                                                           ELSE members[r]
         /\ current' \notin Rooms => members'[current'] = {p}
         /\ roomOf' = [roomOf EXCEPT ![p] = current']
<1> USE DEF ListType, Join
<1>1. CASE current = 0
  <2>1. members' = Append(members, {p}) /\ created' = created + 1 /\ current' = created + 1
    BY <1>1
  <2>2. {p} \in Lists
    BY DEF Lists
  <2>3. Rooms = 1..Len(members) /\ Rooms' = Rooms \cup {created + 1} /\ created + 1 \notin Rooms
    BY <2>1 DEF Rooms
  <2>4. /\ \A r \in 1..Len(members) : members'[r] = members[r]
        /\ members'[created + 1] = {p}
    BY <2>1, <2>2, AppendProperties
  <2> QED BY <2>1, <2>3, <2>4
<1>2. CASE current # 0
  <2>1. members' = [members EXCEPT ![current] = members[current] \cup {p}]
    BY <1>2
  <2>2. current \in 1..Len(members) /\ created' = created /\ current' = current
    BY <1>2
  <2>3. members[current] \cup {p} \in Lists
    BY <2>2, ElementOfSeq DEF Lists
  <2>4. \A r \in 1..Len(members) : members'[r] = IF r = current THEN members[current] \cup {p}
                                                               ELSE members[r]
    BY <2>1, <2>2, <2>3, ExceptSeq
  <2>5. Rooms = 1..Len(members) /\ Rooms' = Rooms
    BY <2>2 DEF Rooms
  <2>6. /\ current \in Nat \ {0} /\ current \in Rooms /\ Rooms' = Rooms \cup {current'}
        /\ roomOf' = [roomOf EXCEPT ![p] = current']
    BY <2>2, <2>5
  <2>7. \A r \in Rooms : members'[r] = IF r = current' THEN members[r] \cup {p} ELSE members[r]
    BY <2>2, <2>4, <2>5
  <2> QED BY <2>2, <2>6, <2>7
<1> QED BY <1>1, <1>2

\* Exit takes p out of its room.
LEMMA ExitEffect ==
  ASSUME ListType, NEW p \in Peers, Exit(p)
  PROVE  /\ roomOf[p] \in Rooms /\ Rooms' = Rooms
         /\ \A r \in Rooms : members'[r] = IF r = roomOf[p] THEN members[r] \ {p} ELSE members[r]
         /\ pc' = [pc EXCEPT ![p] = IF members[roomOf[p]] = {p} THEN "delete" ELSE "count"]
<1>1. /\ roomOf[p] \in Rooms /\ Rooms = 1..Len(members) /\ Rooms' = Rooms
      /\ members[roomOf[p]] \ {p} \in Lists
  BY RoomOfPeer DEF Exit, ListType, Rooms, Lists
<1>2. members' = [members EXCEPT ![roomOf[p]] = members[roomOf[p]] \ {p}]
  BY DEF Exit
<1>3. \A r \in Rooms : members'[r] = IF r = roomOf[p] THEN members[r] \ {p} ELSE members[r]
  <2>1. members \in Seq(Lists) /\ roomOf[p] \in 1..Len(members)
    BY <1>1 DEF ListType
  <2>2. \A r \in 1..Len(members) :
          members'[r] = IF r = roomOf[p] THEN members[roomOf[p]] \ {p} ELSE members[r]
    BY <1>1, <1>2, <2>1, ExceptSeq
  <2> QED BY <1>1, <2>2
<1> QED BY <1>1, <1>3 DEF Exit, Goto

\* Every step keeps the members' bookkeeping.
LEMMA RoomStep ==
  ListInv /\ [Next]_vars => MembersTrue' /\ AcceptedFits' /\ LastSeesAll'
<1> DEFINE Good == MembersTrue /\ AcceptedFits /\ LastSeesAll
<1> SUFFICES ASSUME ListInv, [Next]_vars PROVE Good'
  OBVIOUS
<1>a. ListType /\ MembersTrue /\ AcceptedFits /\ LastSeesAll
  BY DEF ListInv
<1>b. pc \in [Peers -> InRoom \cup {"out", "delete", "count", "snapLeft", "gatherLeft",
                                    "sendLeft", "gone"}]
  BY <1>a DEF ListType
\* Steps that leave the rooms alone.
<1>c. ASSUME UNCHANGED <<roomVars, limits>>,
             \A q \in Peers : /\ pc'[q] \in InRoom <=> pc[q] \in InRoom
                              /\ pc[q] = "snap" => pc'[q] = "snap"
                              /\ pc'[q] \in {"open", "gather", "send", "serve"}
                                   => Cardinality(list'[q]) <= acceptMax
                              /\ pc[q] \in InRoom => list'[q] = list[q]
      PROVE  Good'
  <2>1. Rooms' = Rooms /\ members' = members /\ roomOf' = roomOf /\ acceptMax' = acceptMax
    BY <1>c DEF roomVars, limits, Rooms
  <2>2. MembersTrue' /\ AcceptedFits'
    BY <1>a, <1>c, <2>1 DEF MembersTrue, AcceptedFits
  <2>3. ASSUME NEW r \in Rooms, NEW q \in members[r] PROVE q \in Peers /\ pc[q] \in InRoom
    BY <1>a, <2>3 DEF MembersTrue
  <2>4. ASSUME NEW r \in Rooms, NEW S \in SUBSET members[r], S # {}
        PROVE  \E q \in S : pc'[q] = "snap" \/ S \subseteq list'[q]
    BY <1>a, <1>c, <2>3, <2>4 DEF LastSeesAll
  <2> QED BY <2>1, <2>2, <2>4 DEF LastSeesAll
<1>1. ASSUME NEW p \in Peers, Join(p) PROVE Good'
  <2>1. /\ pc[p] = "out" /\ pc' = [pc EXCEPT ![p] = "snap"]
        /\ UNCHANGED <<list, acceptMax>>
    BY <1>1 DEF Join, Goto, limits
  <2> DEFINE c == current'
  <2>2. /\ Rooms' = Rooms \cup {c}
        /\ \A r \in Rooms : members'[r] = IF r = c THEN members[r] \cup {p} ELSE members[r]
        /\ c \notin Rooms => members'[c] = {p}
        /\ roomOf' = [roomOf EXCEPT ![p] = c]
    BY <1>1, <1>a, JoinEffect
  <2>3. \A q \in Peers : pc[q] \in InRoom => roomOf[q] \in Rooms
    BY <1>a, RoomOfPeer DEF InRoom
  <2>4. "snap" \in InRoom /\ "out" \notin InRoom
    BY DEF InRoom
  <2>5. /\ \A q \in Peers : q # p => pc'[q] = pc[q] /\ roomOf'[q] = roomOf[q]
        /\ pc'[p] = "snap" /\ roomOf'[p] = c
    BY <1>a, <2>1, <2>2 DEF ListType
  <2> HIDE DEF c
  <2>6. ASSUME NEW r \in Rooms'
        PROVE  members'[r] = {q \in Peers : roomOf'[q] = r /\ pc'[q] \in InRoom}
    <3>1. CASE r \in Rooms
      <4>1. members[r] = {q \in Peers : roomOf[q] = r /\ pc[q] \in InRoom}
        BY <1>a, <3>1 DEF MembersTrue
      <4>2. CASE r = c
        <5>1. members'[r] = members[r] \cup {p}
          BY <2>2, <3>1, <4>2
        <5> QED BY <2>1, <2>4, <2>5, <4>1, <4>2, <5>1
      <4>3. CASE r # c
        <5>1. members'[r] = members[r]
          BY <2>2, <3>1, <4>3
        <5> QED BY <2>1, <2>4, <2>5, <4>1, <4>3, <5>1
      <4> QED BY <4>2, <4>3
    <3>2. CASE r \notin Rooms
      <4>1. r = c /\ members'[r] = {p}
        BY <2>2, <3>2
      <4> QED BY <2>3, <2>4, <2>5, <3>2, <4>1
    <3> QED BY <3>1, <3>2
  <2>7. AcceptedFits'
    BY <1>a, <2>1, <2>5 DEF AcceptedFits
  <2>8. ASSUME NEW r \in Rooms', NEW S \in SUBSET members'[r], S # {}
        PROVE  \E q \in S : pc'[q] = "snap" \/ S \subseteq list[q]
    <3>1. CASE p \in S
      BY <2>5, <3>1
    <3>2. CASE p \notin S
      <4>1. r \in Rooms /\ S \subseteq members[r] /\ S \subseteq Peers
        BY <1>a, <2>2, <2>8, <3>2 DEF MembersTrue
      <4>2. \E q \in S : pc[q] = "snap" \/ S \subseteq list[q]
        BY <1>a, <2>8, <4>1 DEF LastSeesAll
      <4> QED BY <2>5, <3>2, <4>1, <4>2
    <3> QED BY <3>1, <3>2
  <2> QED BY <2>1, <2>6, <2>7, <2>8 DEF MembersTrue, LastSeesAll
<1>2. ASSUME NEW p \in Peers, Snapshot(p) PROVE Good'
  <2>1. /\ pc[p] \in {"snap", "snapLeft"}
        /\ pc' = [pc EXCEPT ![p] = IF pc[p] = "snap" THEN "accept" ELSE "gatherLeft"]
        /\ list' = [list EXCEPT ![p] = members[roomOf[p]]]
        /\ UNCHANGED <<members, roomOf, created, acceptMax>> /\ Rooms' = Rooms
    BY <1>2 DEF Snapshot, Goto, roomVars, limits, Rooms
  <2>2. /\ \A q \in Peers : q # p => pc'[q] = pc[q] /\ list'[q] = list[q]
        /\ pc'[p] \in {"accept", "gatherLeft"} /\ pc'[p] = "accept" <=> pc[p] = "snap"
        /\ list'[p] = members[roomOf[p]]
    BY <1>a, <1>b, <2>1 DEF ListType
  <2>3. \A q \in Peers : pc'[q] \in InRoom <=> pc[q] \in InRoom
    BY <2>1, <2>2 DEF InRoom
  <2>4. MembersTrue' /\ AcceptedFits'
    BY <1>a, <2>1, <2>2, <2>3 DEF MembersTrue, AcceptedFits
  <2>5. ASSUME NEW r \in Rooms, NEW S \in SUBSET members[r], S # {}
        PROVE  \E q \in S : pc'[q] = "snap" \/ S \subseteq list'[q]
    <3>1. ASSUME NEW q \in S PROVE q \in Peers /\ roomOf[q] = r /\ pc[q] \in InRoom
      BY <1>a, <3>1 DEF MembersTrue
    <3>2. CASE p \in S
      BY <2>2, <2>5, <3>1, <3>2
    <3>3. CASE p \notin S
      BY <1>a, <2>2, <2>5, <3>1, <3>3 DEF LastSeesAll
    <3> QED BY <3>2, <3>3
  <2> QED BY <2>1, <2>4, <2>5 DEF LastSeesAll
<1>3. ASSUME NEW p \in Peers, Accept(p) PROVE Good'
  <2>1. /\ pc[p] = "accept" /\ Cardinality(list[p]) <= acceptMax
        /\ pc' = [pc EXCEPT ![p] = "open"] /\ UNCHANGED <<roomVars, limits, list>>
    BY <1>3 DEF Accept, Goto
  <2> QED BY <1>a, <1>b, <1>c, <2>1 DEF InRoom, AcceptedFits
<1>4. ASSUME NEW p \in Peers, OpenData(p) \/ Gather(p) \/ Sent(p) PROVE Good'
  <2>1. /\ UNCHANGED <<roomVars, limits, list>>
        /\ \/ pc[p] = "open" /\ pc' = [pc EXCEPT ![p] = "gather"]
           \/ pc[p] = "gather" /\ pc' = [pc EXCEPT ![p] = "send"]
           \/ pc[p] = "gatherLeft" /\ pc' = [pc EXCEPT ![p] = "sendLeft"]
           \/ pc[p] = "send" /\ pc' = [pc EXCEPT ![p] = "serve"]
           \/ pc[p] = "sendLeft" /\ pc' = [pc EXCEPT ![p] = "gone"]
    BY <1>4 DEF OpenData, Gather, Sent, Goto
  <2> QED BY <1>a, <1>b, <1>c, <2>1 DEF InRoom, AcceptedFits
<1>5. ASSUME NEW p \in Peers, Exit(p) PROVE Good'
  <2>1. UNCHANGED <<roomOf, acceptMax, list>> /\ pc[p] \in {"accept", "open", "serve"}
    BY <1>5 DEF Exit, limits
  <2>2. /\ roomOf[p] \in Rooms /\ Rooms' = Rooms
        /\ \A r \in Rooms : members'[r] = IF r = roomOf[p] THEN members[r] \ {p} ELSE members[r]
        /\ pc' = [pc EXCEPT ![p] = IF members[roomOf[p]] = {p} THEN "delete" ELSE "count"]
    BY <1>5, <1>a, ExitEffect
  <2>3. /\ \A q \in Peers : q # p => pc'[q] = pc[q]
        /\ pc'[p] \in {"delete", "count"}
    BY <1>b, <2>2
  <2>4. pc'[p] \notin InRoom
    BY <2>3 DEF InRoom
  <2>5. MembersTrue'
    <3> SUFFICES ASSUME NEW r \in Rooms
                 PROVE  members'[r] = {q \in Peers : roomOf[q] = r /\ pc'[q] \in InRoom}
      BY <2>1, <2>2 DEF MembersTrue
    <3>1. members[r] = {q \in Peers : roomOf[q] = r /\ pc[q] \in InRoom}
      BY <1>a DEF MembersTrue
    <3> QED BY <2>2, <2>3, <2>4, <3>1
  <2>6. AcceptedFits'
    BY <1>a, <2>1, <2>3 DEF AcceptedFits
  <2>7. ASSUME NEW r \in Rooms, NEW S \in SUBSET members'[r], S # {}
        PROVE  \E q \in S : pc'[q] = "snap" \/ S \subseteq list[q]
    <3>1. S \subseteq members[r] /\ S \subseteq Peers
      BY <1>a, <2>2, <2>7 DEF MembersTrue
    <3>2. \E q \in S : pc[q] = "snap" \/ S \subseteq list[q]
      BY <1>a, <2>7, <3>1 DEF LastSeesAll
    <3> QED BY <2>1, <2>3, <3>1, <3>2
  <2> QED BY <2>1, <2>2, <2>5, <2>6, <2>7 DEF LastSeesAll
<1>6. ASSUME NEW p \in Peers, DeleteEmptyRoom(p) PROVE Good'
  <2>1. /\ pc[p] = "delete" /\ pc' = [pc EXCEPT ![p] = "count"]
        /\ UNCHANGED <<roomOf, members, created, acceptMax, list>> /\ Rooms' = Rooms
    BY <1>6 DEF DeleteEmptyRoom, Goto, limits, Rooms
  <2>2. \A q \in Peers : /\ pc'[q] \in InRoom <=> pc[q] \in InRoom
                         /\ pc'[q] # pc[q] => pc'[q] = "count" /\ pc[q] = "delete"
    BY <1>b, <2>1 DEF InRoom
  <2>3. MembersTrue' /\ AcceptedFits'
    BY <1>a, <2>1, <2>2 DEF MembersTrue, AcceptedFits
  <2>4. \A r \in Rooms : members[r] \subseteq Peers
    BY <1>a DEF MembersTrue
  <2>5. LastSeesAll'
    BY <1>a, <2>1, <2>2, <2>4 DEF LastSeesAll
  <2> QED BY <2>3, <2>5
<1>7. ASSUME NEW p \in Peers, Count(p) PROVE Good'
  <2>1. /\ pc[p] = "count" /\ UNCHANGED <<roomVars, limits, list>>
        /\ pc' = [pc EXCEPT ![p] = IF members[roomOf[p]] = {} THEN "gone" ELSE "snapLeft"]
    BY <1>7 DEF Count, Goto
  <2> QED BY <1>a, <1>b, <1>c, <2>1 DEF InRoom, AcceptedFits
<1>8. CASE \/ UNCHANGED vars
           \/ \E p \in Peers : \/ Lose(p) \/ Notify(p) \/ NotifyFails(p)
                               \/ \E q \in Peers : Send(p, q) \/ ForwardPing(p, q)
  <2>1. UNCHANGED <<pc, roomVars, limits, list>>
    BY <1>8 DEF vars, Lose, Notify, NotifyFails, Send, ForwardPing
  <2> QED BY <1>a, <1>c, <2>1 DEF AcceptedFits
<1> QED
  BY <1>1, <1>2, <1>3, <1>4, <1>5, <1>6, <1>7, <1>8 DEF Next, HandlerStep, NotifierStep
\* A room whose members have all been accepted is no larger than the last list
\* that fitted into a JoinAccept.
LEMMA RoomFits ==
  ASSUME ListInv, NEW r \in Rooms, \A q \in members[r] : pc[q] \notin {"snap", "accept"}
  PROVE  Cardinality(members[r]) <= acceptMax /\ acceptMax <= listMax
<1> USE DEF ListInv
<1>1. acceptMax \in Nat /\ listMax \in Nat /\ acceptMax <= listMax
  BY Limits DEF ListType
<1>2. CASE members[r] = {}
  BY <1>1, <1>2, FS_EmptySet
<1>3. CASE members[r] # {}
  <2>1. PICK q \in members[r] : pc[q] = "snap" \/ members[r] \subseteq list[q]
    BY <1>3 DEF LastSeesAll
  <2>2. q \in Peers /\ pc[q] \in {"open", "gather", "send", "serve"}
    BY DEF MembersTrue, InRoom
  <2>3. members[r] \subseteq list[q] /\ Cardinality(list[q]) <= acceptMax
    BY <2>1, <2>2 DEF AcceptedFits
  <2>4. IsFiniteSet(list[q])
    BY <2>2, ListAssumption, FS_Subset DEF ListType, Lists
  <2>5. Cardinality(members[r]) <= Cardinality(list[q])
    BY <2>3, <2>4, FS_Subset
  <2>6. Cardinality(members[r]) \in Nat /\ Cardinality(list[q]) \in Nat
    BY <2>3, <2>4, FS_Subset, FS_CardinalityType
  <2> QED BY <1>1, <2>3, <2>5, <2>6
<1> QED BY <1>2, <1>3

-----------------------------------------------------------------------------
(* What a client will know.                                                  *)

\* A message at the end of a channel.
LEMMA ConveysAppend ==
  ASSUME NEW s \in Seq(Messages), NEW m \in Messages, NEW v, NEW l
  PROVE  /\ m \in {Ping, Empty} /\ Conveys(s, v, l) => Conveys(Append(s, m), v, l)
         /\ m = l => Conveys(Append(s, m), v, l)
<1> DEFINE t == Append(s, m)
<1>1. /\ Len(t) = Len(s) + 1 /\ Len(s) \in Nat
      /\ \A i \in 1..Len(s) : t[i] = s[i]
      /\ t[Len(s) + 1] = m
  BY AppendProperties, LenProperties
<1> HIDE DEF t
<1>2. ASSUME m \in {Ping, Empty}, Conveys(s, v, l) PROVE Conveys(t, v, l)
  <2>1. \A j \in 1..Len(t) : j \in 1..Len(s) \/ j = Len(s) + 1
    BY <1>1
  <2>2. CASE (\A i \in 1..Len(s) : s[i] \in {Ping, Empty}) /\ v = l
    BY <1>1, <1>2, <2>1, <2>2 DEF Conveys
  <2>3. ASSUME NEW i \in 1..Len(s), s[i] = l,
               \A j \in 1..Len(s) : j > i => s[j] \in {Ping, Empty}
        PROVE  Conveys(t, v, l)
    <3>1. i \in 1..Len(t) /\ t[i] = l
      BY <1>1, <2>3
    <3>2. \A j \in 1..Len(t) : j > i => t[j] \in {Ping, Empty}
      BY <1>1, <1>2, <2>1, <2>3
    <3> QED BY <3>1, <3>2 DEF Conveys
  <2> QED BY <1>2, <2>2, <2>3 DEF Conveys
<1>3. ASSUME m = l PROVE Conveys(t, v, l)
  <2>1. Len(s) + 1 \in 1..Len(t) /\ t[Len(s) + 1] = l
    BY <1>1, <1>3
  <2>2. \A j \in 1..Len(t) : ~(j > Len(s) + 1)
    BY <1>1
  <2> QED BY <2>1, <2>2 DEF Conveys
<1> QED BY <1>2, <1>3 DEF t

\* A message taken from the head of a channel.
LEMMA ConveysTake ==
  ASSUME NEW s \in Seq(Messages), s # << >>, NEW v, NEW l \in Lists, Conveys(s, v, l)
  PROVE  Conveys(Tail(s), IF Head(s) \in {Ping, Empty} THEN v ELSE Head(s), l)
<1> DEFINE t == Tail(s)
           w == IF Head(s) \in {Ping, Empty} THEN v ELSE Head(s)
<1>1. /\ Len(s) \in Nat \ {0} /\ Len(t) = Len(s) - 1 /\ Head(s) = s[1]
      /\ \A i \in 1..Len(t) : t[i] = s[i + 1]
  BY HeadTailProperties, EmptySeq, LenProperties
<1> HIDE DEF t
<1>2. \A i \in 1..Len(t) : i + 1 \in 1..Len(s)
  BY <1>1
<1>3. CASE (\A i \in 1..Len(s) : s[i] \in {Ping, Empty}) /\ v = l
  <2>1. Head(s) \in {Ping, Empty} /\ \A i \in 1..Len(t) : t[i] \in {Ping, Empty}
    BY <1>1, <1>2, <1>3
  <2> QED BY <1>3, <2>1 DEF Conveys, t
<1>4. ASSUME NEW i \in 1..Len(s), s[i] = l, \A j \in 1..Len(s) : j > i => s[j] \in {Ping, Empty}
      PROVE  Conveys(t, w, l)
  <2>1. CASE i = 1
    <3>1. \A j \in 1..Len(t) : t[j] \in {Ping, Empty}
      BY <1>1, <1>2, <1>4, <2>1
    <3>2. Head(s) = l /\ l \notin {Ping, Empty}
      BY <1>1, <1>4, <2>1, Limits
    <3> QED BY <3>1, <3>2 DEF Conveys
  <2>2. CASE i # 1
    <3>1. i - 1 \in 1..Len(t) /\ (i - 1) + 1 = i
      BY <1>1, <2>2
    <3>2. t[i - 1] = l
      BY <1>1, <1>4, <3>1
    <3>3. \A j \in 1..Len(t) : j > i - 1 => t[j] \in {Ping, Empty}
      BY <1>1, <1>2, <1>4, <3>1
    <3> QED BY <3>1, <3>2, <3>3 DEF Conveys
  <2> QED BY <2>1, <2>2
<1> QED BY <1>3, <1>4 DEF Conveys, t
-----------------------------------------------------------------------------
(* Changes that take turns.                                                  *)

\* What a broadcaster offers, while one change is made at a time, is a list.
LEMMA BroadcastFits ==
  ASSUME ListInv, OneChange, SnapshotsTrue,
         NEW p \in Peers, pc[p] \in {"send", "sendLeft"}
  PROVE  buildPeerListMsg(list[p]) = list[p] /\ list[p] = members[roomOf[p]]
<1>1. roomOf[p] \in Rooms /\ list[p] = members[roomOf[p]]
  BY RoomOfPeer DEF ListInv, SnapshotsTrue
<1>2. ASSUME NEW q \in members[roomOf[p]] PROVE pc[q] \notin {"snap", "accept"}
  <2>1. q \in Peers /\ (pc[q] \in {"snap", "accept"} => q = p)
    BY <1>1 DEF ListInv, MembersTrue, OneChange, Busy
  <2> QED BY <2>1
<1>3. Cardinality(list[p]) <= acceptMax /\ acceptMax <= listMax
  BY <1>1, <1>2, RoomFits
<1>4. Cardinality(list[p]) \in Nat /\ acceptMax \in Nat /\ listMax \in Nat
  <2>1. list[p] \in SUBSET Peers
    BY DEF ListInv, ListType, Lists
  <2>2. IsFiniteSet(list[p])
    BY <2>1, ListAssumption, FS_Subset
  <2> QED BY <2>2, FS_CardinalityType, Limits DEF ListInv, ListType
<1> QED BY <1>1, <1>3, <1>4 DEF buildPeerListMsg

\* What a step of membership has to establish for the clients that stay.
Told(p) == \/ Conveys(notify[p], view[p], members[roomOf[p]])
           \/ \E q \in Peers : WillTell(q, p)
Staying(p) == p \notin lost /\ pc[p] \in {"open", "gather", "send", "serve"}

\* The steps of one handler, while it is the only one that is busy.
LEMMA SerialHandlerStep ==
  ASSUME ListInv, SerialInv, ~overlap', ~dropped', NEW p \in Peers, HandlerStep(p) \/ Join(p)
  PROVE  OneChange' /\ QuietQueues' /\ SnapshotsTrue' /\ AllTold'
<1> DEFINE Good == OneChange /\ QuietQueues /\ SnapshotsTrue /\ AllTold
<1>a. ListType /\ MembersTrue
  BY DEF ListInv
<1>t. /\ pc \in [Peers -> InRoom \cup {"out", "delete", "count", "snapLeft", "gatherLeft",
                                       "sendLeft", "gone"}]
      /\ list \in [Peers -> Lists] /\ view \in [Peers -> Lists]
      /\ targets \in [Peers -> Lists] /\ notify \in [Peers -> Seq(Messages)]
  BY <1>a DEF ListType
<1>b. ~overlap /\ ~dropped
  <2> USE <1>a DEF ListType, chanVars
  <2>1. CASE Join(p) \/ Exit(p)
    BY <2>1 DEF Join, Exit, NoteOverlap
  <2>2. ASSUME NEW q \in Peers, Send(p, q) PROVE ~overlap /\ ~dropped
    BY <2>2 DEF Send, Offer
  <2>3. CASE Snapshot(p) \/ Accept(p) \/ OpenData(p) \/ Gather(p) \/ Sent(p)
             \/ DeleteEmptyRoom(p) \/ Count(p)
    BY <2>3 DEF Snapshot, Accept, OpenData, Gather, Sent, DeleteEmptyRoom, Count
  <2> QED BY <2>1, <2>2, <2>3 DEF HandlerStep
<1>c. OneChange /\ QuietQueues /\ SnapshotsTrue /\ AllTold
  BY <1>b DEF SerialInv
<1>d. \A q \in Peers : Staying(q) => Told(q)
  BY <1>c DEF AllTold, Staying, Told
<1>e. ASSUME NEW q \in Peers, q # p PROVE ~Busy(q)
  <2>1. CASE Busy(p)
    BY <1>c, <1>e, <2>1 DEF OneChange
  <2>2. CASE ~Busy(p)
    BY <1>e, <2>2 DEF Busy, Join, HandlerStep, Snapshot, Accept, OpenData, Gather, Send, Sent,
                      Exit, NoteOverlap, DeleteEmptyRoom, Count
  <2> QED BY <2>1, <2>2
\* The others serve, are gone or have not come yet.
<1>f. ASSUME NEW q \in Peers, q # p
      PROVE  /\ pc[q] \in {"out", "serve", "gone"}
             /\ Staying(q) => \/ Conveys(notify[q], view[q], members[roomOf[q]])
                              \/ WillTell(p, q)
  BY <1>d, <1>e, <1>f DEF Busy, Told, WillTell
<1>g. ASSUME \A q \in Peers : q # p => pc'[q] = pc[q] PROVE OneChange'
  <2>1. \A q \in Peers : q # p => ~Busy(q)'
    BY <1>e, <1>g DEF Busy
  <2> QED BY <2>1 DEF OneChange
\* A step that leaves the channels and the views of the others alone keeps what
\* they know, or p will tell them.
<1>h. ASSUME \A q \in Peers : q # p => pc'[q] = pc[q], lost' = lost,
             \A q \in Peers : Staying(q)' => Told(q)'
      PROVE  AllTold'
  BY <1>h DEF AllTold, Staying, Told
<1>1. CASE Join(p)
  <2>1. /\ pc[p] = "out" /\ pc' = [pc EXCEPT ![p] = "snap"]
        /\ UNCHANGED <<list, targets, notify, view, lost>>
    BY <1>1 DEF Join, Goto, chanVars
  <2>2. /\ \A q \in Peers : q # p => pc'[q] = pc[q]
        /\ pc'[p] = "snap"
    BY <1>t, <2>1
  <2>3. /\ \A r \in Rooms : members'[r] = IF r = current' THEN members[r] \cup {p} ELSE members[r]
        /\ roomOf' = [roomOf EXCEPT ![p] = current']
    BY <1>1, <1>a, JoinEffect
  <2>4. /\ \A q \in Peers : q # p => roomOf'[q] = roomOf[q]
        /\ roomOf'[p] = current'
    BY <1>a, <2>3 DEF ListType
  <2>5. OneChange' /\ QuietQueues'
    BY <1>c, <1>g, <2>1, <2>2 DEF QuietQueues
  <2>6. SnapshotsTrue'
    BY <1>f, <2>1, <2>2 DEF SnapshotsTrue
  <2>7. ASSUME NEW q \in Peers, Staying(q)' PROVE Told(q)'
    <3>1. q # p /\ Staying(q) /\ roomOf[q] \in Rooms
      BY <1>a, <2>1, <2>2, <2>7, RoomOfPeer DEF Staying
    <3>2. CASE roomOf[q] = current'
      <4>1. WillTell(p, q)'
        BY <2>2, <2>4, <3>1, <3>2 DEF WillTell, Busy
      <4> QED BY <4>1 DEF Told
    <3>3. CASE roomOf[q] # current'
      <4>1. members'[roomOf'[q]] = members[roomOf[q]]
        BY <2>3, <2>4, <3>1, <3>3
      <4>2. ~WillTell(p, q)
        BY <2>1 DEF WillTell, Busy
      <4> QED BY <1>f, <2>1, <3>1, <4>1, <4>2 DEF Told
    <3> QED BY <3>2, <3>3
  <2> QED BY <1>h, <2>1, <2>2, <2>5, <2>6, <2>7
<1>2. CASE Snapshot(p)
  <2>1. /\ pc[p] \in {"snap", "snapLeft"}
        /\ pc' = [pc EXCEPT ![p] = IF pc[p] = "snap" THEN "accept" ELSE "gatherLeft"]
        /\ list' = [list EXCEPT ![p] = members[roomOf[p]]]
        /\ UNCHANGED <<roomOf, members, targets, notify, view, lost>>
    BY <1>2 DEF Snapshot, Goto, roomVars, chanVars
  <2>2. /\ \A q \in Peers : q # p => pc'[q] = pc[q] /\ list'[q] = list[q]
        /\ pc'[p] \in {"accept", "gatherLeft"} /\ (pc'[p] = "accept" => pc[p] = "snap")
        /\ list'[p] = members[roomOf[p]]
    BY <1>t, <2>1
  <2>3. OneChange' /\ QuietQueues' /\ SnapshotsTrue'
    BY <1>c, <1>g, <2>1, <2>2 DEF QuietQueues, SnapshotsTrue
  <2>4. ASSUME NEW q \in Peers, Staying(q)' PROVE Told(q)'
    <3>1. q # p /\ Staying(q)
      BY <2>1, <2>2, <2>4 DEF Staying
    <3>2. WillTell(p, q) => WillTell(p, q)'
      BY <2>1, <2>2 DEF WillTell, Busy
    <3> QED BY <1>f, <2>1, <3>1, <3>2 DEF Told
  <2> QED BY <1>h, <2>1, <2>2, <2>3, <2>4
<1>3. CASE Accept(p)
  <2>1. /\ pc[p] = "accept" /\ pc' = [pc EXCEPT ![p] = "open"]
        /\ view' = [view EXCEPT ![p] = IF p \in lost THEN @ ELSE list[p]]
        /\ UNCHANGED <<roomOf, members, list, targets, notify, lost>>
    BY <1>3 DEF Accept, Goto, roomVars, chanVars
  <2>2. /\ \A q \in Peers : q # p => pc'[q] = pc[q] /\ view'[q] = view[q]
        /\ pc'[p] = "open" /\ (p \notin lost => view'[p] = list[p])
    BY <1>t, <2>1
  <2>3. OneChange' /\ QuietQueues' /\ SnapshotsTrue'
    BY <1>c, <1>g, <2>1, <2>2 DEF QuietQueues, SnapshotsTrue
  <2>4. ASSUME NEW q \in Peers, Staying(q)' PROVE Told(q)'
    <3>1. CASE q = p
      <4>1. \A i \in 1..Len(notify[p]) : notify[p][i] \in {Ping, Empty}
        BY <1>c, <2>1 DEF QuietQueues
      <4>2. view'[p] = members[roomOf[p]]
        BY <1>c, <2>1, <2>2, <2>4, <3>1 DEF SnapshotsTrue, Staying
      <4> QED BY <2>1, <3>1, <4>1, <4>2 DEF Told, Conveys
    <3>2. CASE q # p
      <4>1. Staying(q)
        BY <2>1, <2>2, <2>4, <3>2 DEF Staying
      <4>2. WillTell(p, q) => WillTell(p, q)'
        BY <2>1, <2>2 DEF WillTell, Busy
      <4> QED BY <1>f, <2>1, <2>2, <3>2, <4>1, <4>2 DEF Told
    <3> QED BY <3>1, <3>2
  <2> QED BY <1>h, <2>1, <2>2, <2>3, <2>4
<1>4. CASE OpenData(p) \/ DeleteEmptyRoom(p)
  <2>1. /\ \/ pc[p] = "open" /\ pc' = [pc EXCEPT ![p] = "gather"]
           \/ pc[p] = "delete" /\ pc' = [pc EXCEPT ![p] = "count"]
        /\ UNCHANGED <<roomOf, members, list, targets, notify, view, lost>>
    BY <1>4 DEF OpenData, DeleteEmptyRoom, Goto, roomVars, chanVars
  <2>2. /\ \A q \in Peers : q # p => pc'[q] = pc[q]
        /\ \/ pc[p] = "open" /\ pc'[p] = "gather"
           \/ pc[p] = "delete" /\ pc'[p] = "count"
    BY <1>t, <2>1
  <2>3. OneChange' /\ QuietQueues' /\ SnapshotsTrue'
    BY <1>c, <1>g, <2>1, <2>2 DEF QuietQueues, SnapshotsTrue
  <2>4. ASSUME NEW q \in Peers, Staying(q)' PROVE Told(q)'
    <3>1. Staying(q) /\ ~WillTell(q, q)
      BY <2>1, <2>2, <2>4 DEF Staying, WillTell
    <3>2. WillTell(p, q) => WillTell(p, q)'
      BY <2>1, <2>2 DEF WillTell, Busy
    <3>3. Conveys(notify[q], view[q], members[roomOf[q]]) \/ WillTell(p, q)
      BY <1>d, <1>e, <3>1 DEF Told, WillTell
    <3> QED BY <2>1, <3>2, <3>3 DEF Told
  <2> QED BY <1>h, <2>1, <2>2, <2>3, <2>4
<1>5. CASE Gather(p)
  <2>1. /\ pc[p] \in {"gather", "gatherLeft"}
        /\ pc' = [pc EXCEPT ![p] = IF pc[p] = "gather" THEN "send" ELSE "sendLeft"]
        /\ targets' = [targets EXCEPT ![p] = members[roomOf[p]] \ {p}]
        /\ UNCHANGED <<roomOf, members, list, notify, view, lost>>
    BY <1>5 DEF Gather, Goto, roomVars, chanVars
  <2>2. /\ \A q \in Peers : q # p => pc'[q] = pc[q] /\ targets'[q] = targets[q]
        /\ \/ pc[p] = "gather" /\ pc'[p] = "send"
           \/ pc[p] = "gatherLeft" /\ pc'[p] = "sendLeft"
        /\ targets'[p] = members[roomOf[p]] \ {p}
    BY <1>t, <2>1
  <2>3. OneChange' /\ QuietQueues' /\ SnapshotsTrue'
    BY <1>c, <1>g, <2>1, <2>2 DEF QuietQueues, SnapshotsTrue
  <2>4. ASSUME NEW q \in Peers, Staying(q)' PROVE Told(q)'
    <3>1. Staying(q)
      BY <2>1, <2>2, <2>4 DEF Staying
    <3>2. Conveys(notify[q], view[q], members[roomOf[q]]) \/ WillTell(p, q)
      BY <1>d, <1>e, <3>1 DEF Told, WillTell
    <3>3. ASSUME WillTell(p, q) PROVE WillTell(p, q)'
      <4>1. q # p /\ roomOf[q] = roomOf[p] /\ roomOf[q] \in Rooms /\ pc[q] \in InRoom
        BY <1>a, <3>1, <3>3, RoomOfPeer DEF WillTell, Staying, InRoom
      <4>2. q \in members[roomOf[p]] \ {p}
        BY <1>a, <4>1 DEF MembersTrue
      <4> QED BY <2>1, <2>2, <4>1, <4>2 DEF WillTell, Busy
    <3> QED BY <2>1, <3>2, <3>3 DEF Told
  <2> QED BY <1>h, <2>1, <2>2, <2>3, <2>4
<1>6. ASSUME NEW q \in Peers, Send(p, q) PROVE Good'
  <2>1. /\ pc[p] \in {"send", "sendLeft"} /\ q \in targets[p]
        /\ Offer(q, buildPeerListMsg(list[p]))
        /\ targets' = [targets EXCEPT ![p] = @ \ {q}]
        /\ UNCHANGED <<pc, roomOf, members, list, view, lost>>
    BY <1>6 DEF Send, roomVars
  <2>2. /\ \A k \in Peers : k # p => targets'[k] = targets[k]
        /\ targets'[p] = targets[p] \ {q}
    BY <1>t, <2>1
  <2>3. /\ buildPeerListMsg(list[p]) = list[p] /\ list[p] = members[roomOf[p]]
        /\ list[p] \in Messages /\ list[p] # Ping
    BY <1>c, <1>t, <2>1, BroadcastFits, Limits DEF Messages
  <2>4. /\ notify'[q] = Append(notify[q], list[p])
        /\ \A k \in Peers : k # q => notify'[k] = notify[k]
    BY <1>a, <2>1, <2>3, OfferEffect
  <2>5. q # p /\ roomOf[q] = roomOf[p] /\ pc[q] = "serve"
    <3>1. q \in members[roomOf[p]] /\ q # p /\ roomOf[p] \in Rooms
      BY <1>a, <1>c, <2>1, RoomOfPeer DEF SnapshotsTrue
    <3>2. roomOf[q] = roomOf[p] /\ pc[q] \in InRoom
      BY <1>a, <3>1 DEF MembersTrue
    <3> QED BY <1>f, <3>1, <3>2 DEF InRoom
  <2>6. OneChange' /\ SnapshotsTrue'
    BY <1>c, <1>g, <2>1, <2>2 DEF SnapshotsTrue
  <2>7. QuietQueues'
    BY <1>c, <2>1, <2>4, <2>5 DEF QuietQueues
  <2>8. ASSUME NEW k \in Peers, Staying(k)' PROVE Told(k)'
    <3>1. Staying(k)
      BY <2>1, <2>8 DEF Staying
    <3>2. CASE k = q
      <4>1. Conveys(notify'[q], view[q], members[roomOf[q]])
        BY <1>t, <2>3, <2>4, <2>5, ConveysAppend
      <4> QED BY <2>1, <3>2, <4>1 DEF Told
    <3>3. CASE k # q
      <4>1. Conveys(notify[k], view[k], members[roomOf[k]]) \/ WillTell(p, k)
        BY <1>d, <1>e, <3>1 DEF Told, WillTell
      <4>2. WillTell(p, k) => WillTell(p, k)'
        BY <2>1, <2>2, <3>3 DEF WillTell, Busy
      <4> QED BY <2>1, <2>4, <3>3, <4>1, <4>2 DEF Told
    <3> QED BY <3>2, <3>3
  <2> QED BY <1>h, <2>1, <2>6, <2>7, <2>8
<1>7. CASE Sent(p)
  <2>1. /\ targets[p] = {}
        /\ \/ pc[p] = "send" /\ pc' = [pc EXCEPT ![p] = "serve"]
           \/ pc[p] = "sendLeft" /\ pc' = [pc EXCEPT ![p] = "gone"]
        /\ UNCHANGED <<roomOf, members, list, targets, notify, view, lost>>
    BY <1>7 DEF Sent, Goto, roomVars, chanVars
  <2>2. /\ \A q \in Peers : q # p => pc'[q] = pc[q]
        /\ \/ pc[p] = "send" /\ pc'[p] = "serve"
           \/ pc[p] = "sendLeft" /\ pc'[p] = "gone"
    BY <1>t, <2>1
  <2>3. OneChange' /\ QuietQueues' /\ SnapshotsTrue'
    BY <1>c, <1>g, <2>1, <2>2 DEF QuietQueues, SnapshotsTrue
  <2>4. ASSUME NEW q \in Peers, Staying(q)' PROVE Told(q)'
    <3>1. Staying(q)
      BY <2>1, <2>2, <2>4 DEF Staying
    <3>2. ~WillTell(p, q)
      BY <2>1, <2>2 DEF WillTell
    <3>3. Conveys(notify[q], view[q], members[roomOf[q]])
      BY <1>d, <1>e, <3>1, <3>2 DEF Told, WillTell
    <3> QED BY <2>1, <3>3 DEF Told
  <2> QED BY <1>h, <2>1, <2>2, <2>3, <2>4
<1>8. CASE Exit(p)
  <2>1. /\ pc[p] \in {"accept", "open", "serve"}
        /\ UNCHANGED <<roomOf, list, targets, notify, view, lost>>
    BY <1>8 DEF Exit, chanVars
  <2>2. /\ roomOf[p] \in Rooms
        /\ \A r \in Rooms : members'[r] = IF r = roomOf[p] THEN members[r] \ {p} ELSE members[r]
        /\ pc' = [pc EXCEPT ![p] = IF members[roomOf[p]] = {p} THEN "delete" ELSE "count"]
    BY <1>8, <1>a, ExitEffect
  <2>3. /\ \A q \in Peers : q # p => pc'[q] = pc[q]
        /\ pc'[p] \in {"delete", "count"}
    BY <1>t, <2>2
  <2>4. OneChange' /\ QuietQueues'
    BY <1>c, <1>g, <2>1, <2>3 DEF QuietQueues
  <2>5. SnapshotsTrue'
    BY <1>f, <2>3 DEF SnapshotsTrue
  <2>6. ASSUME NEW q \in Peers, Staying(q)' PROVE Told(q)'
    <3>1. q # p /\ Staying(q) /\ roomOf[q] \in Rooms
      BY <1>a, <2>1, <2>3, <2>6, RoomOfPeer DEF Staying
    <3>2. CASE roomOf[q] = roomOf[p]
      <4>1. WillTell(p, q)'
        BY <2>1, <2>3, <3>1, <3>2 DEF WillTell, Busy
      <4> QED BY <4>1 DEF Told
    <3>3. CASE roomOf[q] # roomOf[p]
      <4>1. members'[roomOf'[q]] = members[roomOf[q]] /\ ~WillTell(p, q)
        BY <2>1, <2>2, <3>1, <3>3 DEF WillTell
      <4> QED BY <1>f, <2>1, <3>1, <4>1 DEF Told
    <3> QED BY <3>2, <3>3
  <2> QED BY <1>h, <2>1, <2>3, <2>4, <2>5, <2>6
<1>9. CASE Count(p)
  <2>1. /\ pc[p] = "count"
        /\ pc' = [pc EXCEPT ![p] = IF members[roomOf[p]] = {} THEN "gone" ELSE "snapLeft"]
        /\ UNCHANGED <<roomOf, members, list, targets, notify, view, lost>>
    BY <1>9 DEF Count, Goto, roomVars, chanVars
  <2>2. /\ \A q \in Peers : q # p => pc'[q] = pc[q]
        /\ pc'[p] = "snapLeft" \/ (pc'[p] = "gone" /\ members[roomOf[p]] = {})
    BY <1>t, <2>1
  <2>3. OneChange' /\ QuietQueues' /\ SnapshotsTrue'
    BY <1>c, <1>g, <2>1, <2>2 DEF QuietQueues, SnapshotsTrue
  <2>4. ASSUME NEW q \in Peers, Staying(q)' PROVE Told(q)'
    <3>1. q # p /\ Staying(q) /\ pc[q] \in InRoom
      BY <2>1, <2>2, <2>4 DEF Staying, InRoom
    <3>2. ASSUME WillTell(p, q) PROVE WillTell(p, q)'
      <4>1. roomOf[q] = roomOf[p] /\ roomOf[q] \in Rooms
        BY <1>a, <2>1, <3>2, RoomOfPeer DEF WillTell
      <4>2. q \in members[roomOf[p]]
        BY <1>a, <3>1, <4>1 DEF MembersTrue
      <4> QED BY <2>1, <2>2, <3>1, <4>1, <4>2 DEF WillTell, Busy
    <3> QED BY <1>f, <2>1, <3>1, <3>2 DEF Told
  <2> QED BY <1>h, <2>1, <2>2, <2>3, <2>4
<1> QED
  BY <1>1, <1>2, <1>3, <1>4, <1>5, <1>6, <1>7, <1>8, <1>9 DEF HandlerStep

\* The clients, their notifiers and the pings between peers.
LEMMA SerialOtherStep ==
  ASSUME ListInv, SerialInv, ~overlap', ~dropped', NEW p \in Peers,
         \/ Lose(p) \/ NotifierStep(p)
         \/ \E q \in Peers : ForwardPing(p, q)
  PROVE  OneChange' /\ QuietQueues' /\ SnapshotsTrue' /\ AllTold'
<1> DEFINE Good == OneChange /\ QuietQueues /\ SnapshotsTrue /\ AllTold
<1>a. ListType
  BY DEF ListInv
<1>t. /\ view \in [Peers -> Lists] /\ notify \in [Peers -> Seq(Messages)]
      /\ members \in Seq(Lists)
  BY <1>a DEF ListType
<1>b. ~overlap /\ ~dropped
  <2> USE <1>a DEF ListType, chanVars
  <2>1. CASE Lose(p) \/ NotifierStep(p)
    BY <2>1 DEF Lose, NotifierStep, Notify, NotifyFails
  <2>2. ASSUME NEW q \in Peers, ForwardPing(p, q) PROVE ~overlap /\ ~dropped
    BY <2>2 DEF ForwardPing, Offer
  <2> QED BY <2>1, <2>2
<1>c. OneChange /\ QuietQueues /\ SnapshotsTrue /\ AllTold
  BY <1>b DEF SerialInv
<1>d. \A q \in Peers : Staying(q) => Told(q)
  BY <1>c DEF AllTold, Staying, Told
<1>1. UNCHANGED <<pc, roomOf, members, list, targets>>
  BY DEF Lose, NotifierStep, Notify, NotifyFails, ForwardPing, roomVars
<1>2. OneChange' /\ SnapshotsTrue'
  BY <1>c, <1>1 DEF OneChange, SnapshotsTrue, Busy
<1>3. \A q, k \in Peers : WillTell(q, k) => WillTell(q, k)'
  BY <1>1 DEF WillTell, Busy
\* What a peer is to know is kept if its channel and its view are.
<1>4. ASSUME \A q \in Peers : Staying(q)' =>
               /\ Staying(q)
               /\ Conveys(notify[q], view[q], members[roomOf[q]])
                    => Conveys(notify'[q], view'[q], members[roomOf[q]])
      PROVE  AllTold'
  <2>1. \A q \in Peers : Staying(q)' => Told(q)'
    BY <1>d, <1>1, <1>3, <1>4 DEF Told
  <2> QED BY <2>1 DEF AllTold, Staying, Told
<1>5. CASE Lose(p)
  <2>1. UNCHANGED <<notify, view>> /\ lost' = lost \cup {p}
    BY <1>5 DEF Lose, chanVars
  <2> QED BY <1>1, <1>2, <1>4, <1>c, <2>1 DEF QuietQueues, Staying
<1>6. ASSUME NEW q \in Peers, ForwardPing(p, q) PROVE Good'
  <2>1. UNCHANGED <<view, lost>> /\ Offer(q, Ping)
    BY <1>6 DEF ForwardPing
  <2>2. Ping \in Messages
    BY DEF Messages
  <2>3. /\ \A k \in Peers : k # q => notify'[k] = notify[k]
        /\ notify'[q] = Append(notify[q], Ping) \/ notify'[q] = notify[q]
    BY <1>a, <2>1, <2>2, OfferEffect
  <2>4. ASSUME NEW l
        PROVE  Conveys(notify[q], view[q], l) => Conveys(notify'[q], view'[q], l)
    BY <1>t, <2>1, <2>2, <2>3, ConveysAppend
  <2>5. AllTold'
    BY <1>1, <1>4, <2>1, <2>3, <2>4 DEF Staying
  <2>6. QuietQueues'
    <3>1. /\ Len(Append(notify[q], Ping)) = Len(notify[q]) + 1 /\ Len(notify[q]) \in Nat
          /\ \A i \in 1..Len(notify[q]) : Append(notify[q], Ping)[i] = notify[q][i]
          /\ Append(notify[q], Ping)[Len(notify[q]) + 1] = Ping
      BY <1>t, <2>2, AppendProperties, LenProperties
    <3>2. (\A i \in 1..Len(notify[q]) : notify[q][i] = Ping)
            => \A i \in 1..Len(notify'[q]) : notify'[q][i] = Ping
      BY <2>3, <3>1
    <3> QED BY <1>c, <1>1, <2>3, <3>2 DEF QuietQueues
  <2> QED BY <1>2, <2>5, <2>6
<1>7. CASE NotifierStep(p)
  <2>1. /\ notify[p] # << >> /\ notify' = [notify EXCEPT ![p] = Tail(@)] /\ lost' = lost
        /\ \A q \in Peers : q # p => view'[q] = view[q]
        /\ p \notin lost =>
             view'[p] = IF Head(notify[p]) \in {Ping, Empty} THEN view[p] ELSE Head(notify[p])
    BY <1>7, <1>t DEF NotifierStep, Notify, NotifyFails
  <2>2. /\ \A q \in Peers : q # p => notify'[q] = notify[q]
        /\ notify'[p] = Tail(notify[p])
    BY <1>t, <2>1
  <2>3. ASSUME Staying(p)
        PROVE  Conveys(notify[p], view[p], members[roomOf[p]])
                 => Conveys(notify'[p], view'[p], members[roomOf[p]])
    <3>1. members[roomOf[p]] \in Lists /\ p \notin lost
      BY <1>a, <2>3, RoomOfPeer DEF Staying
    <3> QED BY <1>t, <2>1, <2>2, <3>1, ConveysTake
  <2>4. AllTold'
    BY <1>1, <1>4, <2>1, <2>2, <2>3 DEF Staying
  <2>5. QuietQueues'
    <3>1. /\ Len(Tail(notify[p])) = Len(notify[p]) - 1 /\ Len(notify[p]) \in Nat
          /\ \A i \in 1..Len(Tail(notify[p])) : Tail(notify[p])[i] = notify[p][i + 1]
      BY <1>t, <2>1, HeadTailProperties, LenProperties
    <3>2. (\A i \in 1..Len(notify[p]) : notify[p][i] = Ping)
            => \A i \in 1..Len(notify'[p]) : notify'[p][i] = Ping
      BY <2>2, <3>1
    <3> QED BY <1>c, <1>1, <2>2, <3>2 DEF QuietQueues
  <2> QED BY <1>2, <2>4, <2>5
<1> QED BY <1>5, <1>6, <1>7

\* Every step keeps the promise of serial changes.
LEMMA SerialStep == ListInv /\ SerialInv /\ [Next]_vars => SerialInv'
<1> SUFFICES ASSUME ListInv, SerialInv, [Next]_vars, ~overlap', ~dropped'
             PROVE  OneChange' /\ QuietQueues' /\ SnapshotsTrue' /\ AllTold'
  BY DEF SerialInv
<1>1. CASE UNCHANGED vars
  BY <1>1 DEF SerialInv, OneChange, QuietQueues, SnapshotsTrue, AllTold, WillTell, Conveys, Busy,
              vars, roomVars, chanVars
<1>2. CASE Next
  BY <1>2, SerialHandlerStep, SerialOtherStep DEF Next
<1> QED BY <1>1, <1>2

-----------------------------------------------------------------------------
\* The invariants of the rooms and of the broadcasts hold in every reachable
\* state.
THEOREM ListInvariant == Spec => [](ListInv /\ SerialInv)
<1>1. ListInv /\ SerialInv /\ [Next]_vars => (ListInv /\ SerialInv)'
  BY ListTypeStep, RoomStep, SerialStep DEF ListInv
<1> QED BY <1>1, ListInit, PTL DEF Spec

\* The handlers, the channels and the clients' lists keep their types, and no
\* channel ever holds more than its capacity.
THEOREM PeerListTypes == Spec => []TypeOK
<1>1. ListInv => TypeOK
  <2> SUFFICES ASSUME ListInv PROVE TypeOK
    OBVIOUS
  <2> USE DEF ListInv
  <2>1. \A r \in Rooms : members[r] \subseteq Peers
    BY DEF MembersTrue
  <2>2. ASSUME NEW p \in Peers
        PROVE  \A i \in 1..Len(notify[p]) : notify[p][i] \in Lists \cup {Ping, Empty}
    BY ElementOfSeq DEF ListType, Messages
  <2>3. created \in 0..Len(members)
    BY DEF ListType
  <2> QED BY <2>1, <2>2, <2>3 DEF ListType, TypeOK, InRoom
<1> QED BY <1>1, ListInvariant, PTL

\* When no handler is busy a room's peer list fits into one message, whatever the names of its
\* members: the last one to be accepted had all of them in its JoinAccept.
THEOREM RoomsListable == Spec => []RoomsStayListable
<1>1. ListInv => RoomsStayListable
  <2> SUFFICES ASSUME ListInv, \A p \in Peers : ~Busy(p), NEW r \in Rooms
               PROVE  Cardinality(members[r]) <= listMax
    BY DEF RoomsStayListable
  <2>1. ASSUME NEW q \in members[r] PROVE pc[q] \notin {"snap", "accept"}
    BY DEF ListInv, MembersTrue, Busy
  <2>2. Cardinality(members[r]) <= acceptMax /\ acceptMax <= listMax
    BY <2>1, RoomFits
  <2>3. Cardinality(members[r]) \in Nat /\ acceptMax \in Nat /\ listMax \in Nat
    <3>1. members[r] \in SUBSET Peers
      BY DEF ListInv, MembersTrue
    <3> QED BY <3>1, ListAssumption, FS_Subset, FS_CardinalityType, Limits DEF ListInv, ListType
  <2> QED BY <2>2, <2>3
<1> QED BY <1>1, ListInvariant, PTL

\* Joins and departures that take turns leave every client with the list of the
\* members of its room, however slow the notifiers are, unless a list is lost to
\* a full channel.
THEOREM SerialChangesInform == Spec => []SerialChangesAgree
<1>1. ListInv /\ SerialInv => SerialChangesAgree
  <2> SUFFICES ASSUME ListInv, SerialInv, Quiet, ~overlap, ~dropped, NEW p \in Peers,
                      pc[p] = "serve"
               PROVE  view[p] = members[roomOf[p]]
    BY DEF SerialChangesAgree, Misinformed
  <2>1. notify[p] = << >> /\ p \notin lost /\ \A q \in Peers : ~Busy(q)
    BY DEF Quiet
  <2>2. Conveys(<< >>, view[p], members[roomOf[p]])
    BY <2>1 DEF SerialInv, AllTold, WillTell
  <2> QED BY <2>2 DEF Conveys
<1> QED BY <1>1, ListInvariant, PTL
=============================================================================
