---------------------------- MODULE DataPathProofs ----------------------------
(***************************************************************************)
(* The data path, for any clients, frames and scenarios: the capture        *)
(* recorder, the clients' data streams and the rate limit, each with an     *)
(* inductive invariant over its own variables, of which a step of DataPath  *)
(* is a step or which it leaves alone; and the way of every frame from the  *)
(* client that sends it to the hosts it is for.                             *)
(***************************************************************************)
EXTENDS DataPath, SequenceTheorems, TLAPS

-----------------------------------------------------------------------------
(* The recorder.                                                             *)

Events == [seq : Nat, by : Recorders]

RecType ==
  /\ enabled \in BOOLEAN
  /\ nextSeq \in Nat
  /\ events \in Seq(Events)
  /\ begun \subseteq Recorders
  /\ late \in [Recorders -> Nat]

RecInv == RecType /\ RingIsTail /\ DisableIsPrompt

RecNext ==
  \/ Enable \/ Disable
  \/ \E g \in Recorders : BeginRecord(g) \/ AddEvent(g)

\* The ring starts empty and the recorder switched off.
LEMMA RecInitInv == RecInit => RecInv
<1> SUFFICES ASSUME RecInit PROVE RecInv
  OBVIOUS
<1> USE DEF RecInit
<1>1. RecType
  BY EmptySeq DEF RecType
<1>2. DisableIsPrompt
  <2>1. ASSUME NEW g \in Recorders PROVE late[g] = 0 /\ g \notin begun
    OBVIOUS
  <2> QED BY <2>1 DEF DisableIsPrompt
<1>3. RingIsTail
  BY LimitAssumption, EmptySeq DEF RingIsTail
<1> QED BY <1>1, <1>2, <1>3 DEF RecInv

\* Keep adds an event and drops the oldest one of a full ring.
LEMMA KeepProperties ==
  ASSUME NEW ring \in Seq(Events), NEW e \in Events, Len(ring) <= Limit
  PROVE  LET kept == Keep(ring, e)
             drop == IF Len(ring) >= Limit THEN 1 ELSE 0 IN
         /\ kept \in Seq(Events)
         /\ Len(kept) = Len(ring) + 1 - drop
         /\ \A i \in 1..Len(kept) - 1 : kept[i] = ring[i + drop]
         /\ kept[Len(kept)] = e
<1>1. CASE Len(ring) >= Limit
  <2>1. ring # << >>
    BY <1>1, LimitAssumption
  <2>2. /\ Tail(ring) \in Seq(Events)
        /\ Len(Tail(ring)) = Len(ring) - 1
        /\ \A i \in 1..Len(Tail(ring)) : Tail(ring)[i] = ring[i + 1]
    BY <2>1, HeadTailProperties
  <2> QED BY <1>1, <2>2 DEF Keep
<1>2. CASE ~(Len(ring) >= Limit)
  BY <1>2, LimitAssumption DEF Keep
<1> QED BY <1>1, <1>2

\* Every step of the recorder keeps its invariant.
LEMMA RecStep == RecInv /\ [RecNext]_recVars => RecInv'
<1> SUFFICES ASSUME RecInv, [RecNext]_recVars PROVE RecInv'
  OBVIOUS
<1> USE LimitAssumption DEF RecInv, RecType, DisableIsPrompt
<1>1. CASE UNCHANGED recVars
  BY <1>1 DEF recVars, RingIsTail
<1>2. CASE Enable
  BY <1>2 DEF Enable, RingIsTail
<1>3. CASE Disable
  <2>1. ASSUME NEW g \in Recorders PROVE late'[g] + (IF g \in begun' THEN 1 ELSE 0) <= 1
    <3>1. late'[g] = 0
      BY <1>3 DEF Disable
    <3> QED BY <3>1
  <2> QED BY <1>3, <2>1 DEF Disable, RingIsTail
<1>4. ASSUME NEW g \in Recorders, BeginRecord(g) PROVE RecInv'
  BY <1>4 DEF BeginRecord, RingIsTail
<1>5. ASSUME NEW g \in Recorders, AddEvent(g) PROVE RecInv'
  <2> DEFINE e == [seq |-> nextSeq + 1, by |-> g]
  <2>1. e \in Events /\ Len(events) <= Limit /\ Len(events) \in Nat
    BY DEF Events, RingIsTail
  <2>2. events' = Keep(events, e) /\ nextSeq' = nextSeq + 1
    BY <1>5 DEF AddEvent
  <2>3. RingIsTail' /\ events' \in Seq(Events)
    <3> DEFINE drop == IF Len(events) >= Limit THEN 1 ELSE 0
    <3>1. /\ events' \in Seq(Events)
          /\ Len(events') = Len(events) + 1 - drop
          /\ \A i \in 1..Len(events') - 1 : events'[i] = events[i + drop]
          /\ events'[Len(events')] = e
      BY <2>1, <2>2, KeepProperties
    <3>2. Len(events') = IF nextSeq' < Limit THEN nextSeq' ELSE Limit
      BY <3>1, <2>2 DEF RingIsTail
    <3>3. ASSUME NEW i \in 1..Len(events') PROVE events'[i].seq = nextSeq' - Len(events') + i
      <4>1. CASE i = Len(events')
        BY <4>1, <3>1, <2>2
      <4>2. CASE i < Len(events')
        <5>1. events'[i] = events[i + drop] /\ i + drop \in 1..Len(events)
          BY <4>2, <3>1, <2>1
        <5>2. \A j \in 1..Len(events) : events[j].seq = nextSeq - Len(events) + j
          BY DEF RingIsTail
        <5>3. events[i + drop].seq = nextSeq - Len(events) + (i + drop)
          BY <5>1, <5>2
        <5> QED BY <5>1, <5>3, <3>1, <2>1, <2>2
      <4> QED BY <4>1, <4>2, <3>1, <2>1
    <3> QED BY <3>1, <3>2, <3>3 DEF RingIsTail
  <2>4. DisableIsPrompt' /\ RecType'
    BY <1>5, <2>2, <2>3 DEF AddEvent
  <2> QED BY <2>3, <2>4
<1> QED BY <1>1, <1>2, <1>4, <1>5, <1>3 DEF RecNext

\* A step of the data path is a step of the recorder or does not touch it.
LEMMA RecSteps == [Next]_vars => [RecNext]_recVars
<1> SUFFICES ASSUME [Next]_vars PROVE [RecNext]_recVars
  OBVIOUS
<1>1. CASE UNCHANGED vars
  BY <1>1 DEF vars
<1>2. CASE TimePasses \/ Switch
  BY <1>2 DEF TimePasses, Switch, RecNext
<1>3. ASSUME NEW p \in Peers, ReadFrame(p) \/ Record(p) PROVE RecNext
  BY <1>3, DataPathAssumption DEF ReadFrame, Record, RecNext
<1>4. ASSUME NEW p \in Peers,
             \/ \E i \in IPs \cup {Group}, s \in left.sizes :
                  \/ ReadIPAsEthernet(p, i, s)
                  \/ \E m \in MACs \cup {BroadcastMAC} : ReadTAPPacket(p, i, m, s)
             \/ \E i \in IPs : ReadTAP(p, i)
             \/ \E g \in Goroutines : WriteStep(p, g)
             \/ WriteTAP(p) \/ WriteEthernetAsIP(p) \/ arpReply(p) \/ UpdatePeers(p)
             \/ RelayFrame(p) \/ RemovePeer(p)
             \/ \E i \in IPs, m \in MACs : AddPeer(p, i, m)
      PROVE  UNCHANGED recVars
  BY <1>4 DEF ReadIPAsEthernet, ReadTAPPacket, ReadTAP, WriteStep, WriteTAP, WriteEthernetAsIP, Deliver,
     arpReply, UpdatePeers, RelayFrame, RemovePeer, AddPeer
<1> QED BY <1>1, <1>2, <1>3, <1>4 DEF Next

\* The recorder's invariant holds in every reachable state of the data path.
THEOREM RecorderCorrect == Spec => []RecInv
<1>1. Init => RecInv
  BY RecInitInv DEF Init
<1> QED BY <1>1, RecStep, RecSteps, PTL DEF Spec

\* The page always shows the newest events, numbered without a gap, for any
\* limit and any number of recording goroutines.
THEOREM RingShowsTail == Spec => []RingIsTail
<1>1. RecInv => RingIsTail
  BY DEF RecInv
<1> QED BY <1>1, RecorderCorrect, PTL

\* After Disable each goroutine adds at most the event it had begun.
THEOREM DisableEndsRecording == Spec => []DisableIsPrompt
<1>1. RecInv => DisableIsPrompt
  BY DEF RecInv
<1> QED BY <1>1, RecorderCorrect, PTL

-----------------------------------------------------------------------------
(* The clients' data streams.                                                *)

Kinds == {"ip", "arp", "reply"}
Frames == [n : Nat, kind : Kinds, src : MACs, dst : MACs \cup {BroadcastMAC},
           to : IPs \cup {Group}, size : Nat]
Pieces == [part : {"header", "payload"}, frame : Frames]

WireType ==
  /\ up \in [Clients -> Seq(Pieces)]
  /\ mu \in [Clients -> Goroutines \cup {Nobody}]
  /\ writing \in [Clients -> [Goroutines -> Frames \cup {Nobody}]]
  /\ ended \subseteq Clients

\* Headers and payloads alternate, each payload after its header; the last piece
\* is a header while a goroutine holds the mutex, and is that of its frame.
Alternating(s) ==
  /\ Len(s) > 0 => s[1].part = "header"
  /\ \A k \in 1..Len(s) - 1 :
       IF s[k].part = "header" THEN s[k + 1] = Piece("payload", s[k].frame)
                               ELSE s[k + 1].part = "header"

EndsWith(s, holder, frames) ==
  IF holder = Nobody THEN Len(s) > 0 => s[Len(s)].part = "payload"
  ELSE /\ frames[holder] # Nobody
       /\ Len(s) > 0 /\ s[Len(s)] = Piece("header", frames[holder])

WireInv ==
  /\ WireType
  /\ \A c \in Clients : Alternating(up[c]) /\ EndsWith(up[c], mu[c], writing[c])

WireNext ==
  \E c \in Clients :
    \/ \E g \in Goroutines, f \in Frames :
         writing[c][g] = Nobody /\ CallWriteFrame(c, g, f) /\ UNCHANGED <<up, mu, ended>>
    \/ \E g \in Goroutines : WriteHeader(c, g) \/ WritePayload(c, g) \/ WriteTooLarge(c, g)
    \/ ReadMessage(c)
    \/ ResetWire(c)

\* The streams start empty and nobody writes.
LEMMA WireInitInv == WireInit => WireInv
<1> SUFFICES ASSUME WireInit PROVE WireInv
  OBVIOUS
<1> USE DEF WireInit
<1>1. WireType
  BY EmptySeq DEF WireType, NoWrites
<1>2. ASSUME NEW c \in Clients PROVE Alternating(up[c]) /\ EndsWith(up[c], mu[c], writing[c])
  <2>1. Len(up[c]) = 0 /\ mu[c] = Nobody
    BY EmptySeq
  <2> QED BY <2>1 DEF Alternating, EndsWith
<1> QED BY <1>1, <1>2 DEF WireInv

\* A header after a payload, or the payload after its header, keeps a stream in order.
LEMMA AppendPiece ==
  ASSUME NEW s \in Seq(Pieces), Alternating(s), NEW e \in Pieces,
         Len(s) = 0 => e.part = "header",
         Len(s) > 0 => IF s[Len(s)].part = "header" THEN e = Piece("payload", s[Len(s)].frame)
                                                    ELSE e.part = "header"
  PROVE  Append(s, e) \in Seq(Pieces) /\ Alternating(Append(s, e))
<1>1. /\ Append(s, e) \in Seq(Pieces) /\ Len(Append(s, e)) = Len(s) + 1 /\ Len(s) \in Nat
      /\ \A k \in 1..Len(s) : Append(s, e)[k] = s[k]
      /\ Append(s, e)[Len(s) + 1] = e
  OBVIOUS
<1>2. Append(s, e)[1].part = "header"
  BY <1>1 DEF Alternating
<1>3. ASSUME NEW k \in 1..Len(s)
      PROVE  IF Append(s, e)[k].part = "header"
             THEN Append(s, e)[k + 1] = Piece("payload", Append(s, e)[k].frame)
             ELSE Append(s, e)[k + 1].part = "header"
  <2>1. CASE k = Len(s)
    BY <1>1, <2>1
  <2>2. CASE k \in 1..Len(s) - 1
    BY <1>1, <2>2 DEF Alternating
  <2> QED BY <1>1, <2>1, <2>2
<1> QED BY <1>1, <1>2, <1>3 DEF Alternating

\* Taking a whole message off a stream keeps it in order.
LEMMA DropMessage ==
  ASSUME NEW s \in Seq(Pieces), Alternating(s), Len(s) >= 2
  PROVE  LET t == Tail(Tail(s)) IN
         /\ t \in Seq(Pieces) /\ Alternating(t)
         /\ Len(t) = Len(s) - 2
         /\ Len(t) > 0 => t[Len(t)] = s[Len(s)]
<1> DEFINE t == Tail(Tail(s))
<1>1. /\ Tail(s) \in Seq(Pieces) /\ Len(Tail(s)) = Len(s) - 1
      /\ \A k \in 1..Len(Tail(s)) : Tail(s)[k] = s[k + 1]
  BY HeadTailProperties
<1>2. /\ t \in Seq(Pieces) /\ Len(t) = Len(s) - 2
      /\ \A k \in 1..Len(t) : t[k] = Tail(s)[k + 1]
  <2> DEFINE u == Tail(s)
  <2>1. u \in Seq(Pieces) /\ Len(u) >= 1
    BY <1>1
  <2> HIDE DEF u
  <2>2. u # << >>
    BY <2>1
  <2>3. /\ Tail(u) \in Seq(Pieces) /\ Len(Tail(u)) = Len(u) - 1
        /\ \A k \in 1..Len(Tail(u)) : Tail(u)[k] = u[k + 1]
    BY <2>1, <2>2, HeadTailProperties
  <2> QED BY <1>1, <2>3 DEF u
<1>3. \A k \in 1..Len(t) : t[k] = s[k + 2]
  BY <1>1, <1>2
<1> HIDE DEF t
<1>4. Len(t) > 0 => t[1].part = "header"
  <2>1. s[1].part = "header" /\ s[2] = Piece("payload", s[1].frame)
    BY DEF Alternating
  <2>2. s[2].part # "header"
    BY <2>1 DEF Piece
  <2>3. Len(s) > 2 => s[2 + 1].part = "header"
    <3>1. \A k \in 1..Len(s) - 1 : s[k].part # "header" => s[k + 1].part = "header"
      BY DEF Alternating
    <3> QED BY <2>2, <3>1
  <2> QED BY <1>2, <1>3, <2>3
<1>5. Alternating(t)
  BY <1>2, <1>3, <1>4 DEF Alternating
<1> QED BY <1>2, <1>3, <1>5 DEF t

\* Every step of the streams keeps their invariant.
LEMMA WireStep == WireInv /\ [WireNext]_wireVars => WireInv'
<1> SUFFICES ASSUME WireInv, [WireNext]_wireVars PROVE WireInv'
  OBVIOUS
<1> DEFINE Good(d) == Alternating(up[d]) /\ EndsWith(up[d], mu[d], writing[d])
<1>0. WireType /\ \A d \in Clients : Good(d)
  BY DEF WireInv
<1>1. CASE UNCHANGED wireVars
  BY <1>0, <1>1 DEF WireInv, WireType, wireVars
<1>2. ASSUME NEW c \in Clients, NEW g \in Goroutines, NEW f \in Frames,
             writing[c][g] = Nobody, CallWriteFrame(c, g, f), UNCHANGED <<up, mu, ended>>
      PROVE  WireInv'
  <2>1. WireType'
    BY <1>0, <1>2 DEF WireType, CallWriteFrame
  <2>2. ASSUME NEW d \in Clients PROVE Good(d)'
    <3>1. mu[d] # Nobody => writing'[d][mu[d]] = writing[d][mu[d]]
      BY <1>0, <1>2 DEF WireType, CallWriteFrame, EndsWith
    <3> QED BY <1>0, <1>2, <3>1 DEF EndsWith
  <2> QED BY <2>1, <2>2 DEF WireInv
<1>3. ASSUME NEW c \in Clients, NEW g \in Goroutines, WriteHeader(c, g) PROVE WireInv'
  <2> DEFINE e == Piece("header", writing[c][g])
  <2>1. e \in Pieces /\ e.part = "header" /\ up[c] \in Seq(Pieces)
    <3>1. writing[c][g] \in Frames /\ up[c] \in Seq(Pieces)
      BY <1>0, <1>3 DEF WriteHeader, WireType
    <3> QED BY <3>1 DEF Pieces, Piece
  <2>2. Len(up[c]) > 0 => up[c][Len(up[c])].part # "header"
    BY <1>0, <1>3 DEF WriteHeader, EndsWith
  <2>3. Append(up[c], e) \in Seq(Pieces) /\ Alternating(Append(up[c], e))
    BY <1>0, <2>1, <2>2, AppendPiece
  <2>4. EndsWith(Append(up[c], e), g, writing[c])
    BY <1>3, <2>1, WireAssumption DEF EndsWith, WriteHeader
  <2>5. up' = [up EXCEPT ![c] = Append(up[c], e)] /\ mu' = [mu EXCEPT ![c] = g]
    BY <1>3 DEF WriteHeader
  <2>6. writing' = writing /\ ended' = ended
    BY <1>3 DEF WriteHeader
  <2> HIDE DEF e
  <2>7. WireType'
    BY <1>0, <2>3, <2>5, <2>6 DEF WireType
  <2>8. ASSUME NEW d \in Clients PROVE Good(d)'
    BY <1>0, <2>3, <2>4, <2>5, <2>6 DEF WireType
  <2> QED BY <2>7, <2>8 DEF WireInv
<1>4. ASSUME NEW c \in Clients, NEW g \in Goroutines, WritePayload(c, g) PROVE WireInv'
  <2> DEFINE e == Piece("payload", writing[c][g])
  <2>1. e \in Pieces /\ e.part = "payload" /\ up[c] \in Seq(Pieces)
    <3>1. writing[c][g] \in Frames /\ up[c] \in Seq(Pieces)
      BY <1>0, <1>4 DEF WritePayload, WireType
    <3> QED BY <3>1 DEF Pieces, Piece
  <2>2. Len(up[c]) > 0 /\ up[c][Len(up[c])] = Piece("header", writing[c][g])
    BY <1>0, <1>4, WireAssumption DEF WritePayload, EndsWith
  <2>3. Append(up[c], e) \in Seq(Pieces) /\ Alternating(Append(up[c], e))
    <3>1. up[c][Len(up[c])].part = "header" /\ up[c][Len(up[c])].frame = writing[c][g]
      BY <2>2 DEF Piece
    <3> QED BY <1>0, <2>1, <2>2, <3>1, AppendPiece
  <2>4. EndsWith(Append(up[c], e), Nobody, writing'[c])
    BY <2>1 DEF EndsWith
  <2>5. up' = [up EXCEPT ![c] = Append(up[c], e)] /\ mu' = [mu EXCEPT ![c] = Nobody]
    BY <1>4 DEF WritePayload
  <2>6. writing' = [writing EXCEPT ![c][g] = Nobody] /\ ended' = ended
    BY <1>4 DEF WritePayload
  <2> HIDE DEF e
  <2>7. WireType'
    BY <1>0, <2>3, <2>5, <2>6 DEF WireType
  <2>8. ASSUME NEW d \in Clients PROVE Good(d)'
    BY <1>0, <2>3, <2>4, <2>5, <2>6 DEF WireType
  <2> QED BY <2>7, <2>8 DEF WireInv
<1>5. ASSUME NEW c \in Clients, NEW g \in Goroutines, WriteTooLarge(c, g) PROVE WireInv'
  <2>1. WireType'
    BY <1>0, <1>5 DEF WireType, WriteTooLarge
  <2>2. ASSUME NEW d \in Clients PROVE Good(d)'
    <3>1. mu[d] # Nobody => writing'[d] = writing[d]
      BY <1>0, <1>5 DEF WireType, WriteTooLarge
    <3> QED BY <1>0, <1>5, <3>1 DEF EndsWith, WriteTooLarge
  <2> QED BY <2>1, <2>2 DEF WireInv
<1>6. ASSUME NEW c \in Clients, ReadMessage(c) PROVE WireInv'
  <2> DEFINE t == Tail(Tail(up[c]))
  <2>1. up[c] \in Seq(Pieces) /\ Len(up[c]) >= 2 /\ Alternating(up[c])
    BY <1>0, <1>6 DEF ReadMessage, Readable, WireType
  <2>2. /\ t \in Seq(Pieces) /\ Alternating(t)
        /\ Len(t) = Len(up[c]) - 2
        /\ Len(t) > 0 => t[Len(t)] = up[c][Len(up[c])]
    BY <2>1, DropMessage
  <2>3. up' = [up EXCEPT ![c] = t] /\ UNCHANGED <<mu, writing, ended>>
    BY <1>6 DEF ReadMessage
  <2> HIDE DEF t
  <2>4. EndsWith(t, mu[c], writing[c])
    <3>1. CASE mu[c] = Nobody
      BY <1>0, <2>1, <2>2, <3>1 DEF EndsWith
    <3>2. CASE mu[c] # Nobody
      <4>1. writing[c][mu[c]] # Nobody /\ up[c][Len(up[c])] = Piece("header", writing[c][mu[c]])
        BY <1>0, <3>2 DEF EndsWith
      <4>2. up[c][1 + 1] = Piece("payload", up[c][1].frame)
        BY <2>1 DEF Alternating
      <4>3. up[c][Len(up[c])].part = "header" /\ up[c][2].part = "payload"
        BY <4>1, <4>2 DEF Piece
      <4>4. Len(up[c]) # 2 /\ Len(up[c]) \in Nat
        BY <2>1, <4>3, LenProperties
      <4>5. Len(t) > 0
        <5>1. \A k \in Nat : k >= 2 /\ k # 2 => k - 2 > 0
          OBVIOUS
        <5> QED BY <2>1, <2>2, <4>4, <5>1
      <4> QED BY <2>2, <3>2, <4>1, <4>5 DEF EndsWith
    <3> QED BY <3>1, <3>2
  <2>5. WireType'
    BY <1>0, <2>2, <2>3 DEF WireType
  <2>6. ASSUME NEW d \in Clients PROVE Good(d)'
    BY <1>0, <2>2, <2>3, <2>4 DEF WireType
  <2> QED BY <2>5, <2>6 DEF WireInv
<1>7. ASSUME NEW c \in Clients, ResetWire(c) PROVE WireInv'
  <2>1. WireType'
    BY <1>0, <1>7, EmptySeq DEF WireType, ResetWire, NoWrites
  <2>2. ASSUME NEW d \in Clients PROVE Good(d)'
    <3>1. CASE d = c
      <4>1. up'[d] = << >> /\ mu'[d] = Nobody
        BY <1>0, <1>7, <3>1 DEF WireType, ResetWire
      <4>2. Len(<< >>) = 0
        BY EmptySeq
      <4> QED BY <4>1, <4>2 DEF Alternating, EndsWith
    <3>2. CASE d # c
      BY <1>0, <1>7, <3>2 DEF WireType, ResetWire
    <3> QED BY <3>1, <3>2
  <2> QED BY <2>1, <2>2 DEF WireInv
<1> QED BY <1>1, <1>2, <1>3, <1>4, <1>5, <1>6, <1>7 DEF WireNext

\* In a stream in order, a reader finds whole messages.
LEMMA WireFraming == WireInv => FramingIntact
<1> SUFFICES ASSUME WireInv, NEW c \in Clients, Readable(c) PROVE Whole(c)
  BY DEF FramingIntact
<1>1. up[c] \in Seq(Pieces) /\ Len(up[c]) >= 2 /\ Alternating(up[c])
  BY DEF WireInv, WireType, Readable
<1>2. up[c][1].part = "header" /\ up[c][1 + 1] = Piece("payload", up[c][1].frame)
  BY <1>1 DEF Alternating
<1> QED BY <1>2 DEF Whole

-----------------------------------------------------------------------------
(* The data path around them.                                                *)

Notes == [kind : Kinds, at : SUBSET Peers]

DataType ==
  /\ members \subseteq Peers
  /\ ip \in [Peers -> IPs]
  /\ mac \in [Peers -> MACs]
  /\ view \in [Peers -> [IPs -> MACs \cup {Nobody}]]
  /\ handling \in [Peers -> Frames \cup {Nobody}]
  /\ down \in [Peers -> Seq(Frames)]
  /\ due \in Seq(Notes)
  /\ left \in Plans

\* A frame that is being written is small enough, or was a packet of a size that
\* the MTU should not let through.
SizesKnown ==
  \A c \in Clients, g \in Goroutines :
    writing[c][g] # Nobody =>
      \/ writing[c][g].size <= MaxFrameSize
      \/ \E s \in left.sizes : writing[c][g].size = s + HeaderSize

DataInv == WireInv /\ DataType /\ SizesKnown /\ FramesFit

\* A peer list has the MACs of members.
LEMMA ListingType ==
  ASSUME DataType, NEW S \in SUBSET Peers
  PROVE  Listing(S) \in [IPs -> MACs \cup {Nobody}]
<1> SUFFICES ASSUME NEW i \in IPs, \E p \in S : ip[p] = i
             PROVE  mac[CHOOSE p \in S : ip[p] = i] \in MACs
  BY DEF Listing
<1>1. (CHOOSE p \in S : ip[p] = i) \in Peers
  OBVIOUS
<1> QED BY <1>1 DEF DataType

\* Spending from the scenario leaves its sizes alone.
LEMMA SpendType ==
  ASSUME left \in Plans,
         NEW what \in {"packets", "requests", "moves", "ticks", "switches"}, Spend(what)
  PROVE  left' \in Plans /\ left'.sizes = left.sizes
<1>1. CASE what = "packets"
  BY <1>1 DEF Spend, Plans
<1>2. CASE what = "requests"
  BY <1>2 DEF Spend, Plans
<1>3. CASE what = "moves"
  BY <1>3 DEF Spend, Plans
<1>4. CASE what = "ticks"
  BY <1>4 DEF Spend, Plans
<1>5. CASE what = "switches"
  BY <1>5 DEF Spend, Plans
<1> QED BY <1>1, <1>2, <1>3, <1>4, <1>5

\* Changing one frame's note keeps the type of the notes.
LEMMA NotesType ==
  ASSUME NEW d \in Seq(Notes), NEW n, NEW S \in SUBSET Peers
  PROVE  [d EXCEPT ![n].at = S] \in Seq(Notes)
<1>1. CASE n \in 1..Len(d)
  <2>1. d[n] \in Notes
    BY <1>1, ElementOfSeq
  <2>2. [d[n] EXCEPT !.at = S] \in Notes
    BY <2>1 DEF Notes
  <2> QED BY <1>1, <2>2, ExceptSeq
<1>2. CASE n \notin 1..Len(d)
  <2>1. d \in [1..Len(d) -> Notes]
    BY LenProperties
  <2>2. [d EXCEPT ![n].at = S] = d
    BY <1>2, <2>1
  <2> QED BY <2>2
<1> QED BY <1>1, <1>2

\* So does striking a client off one frame's note.
LEMMA NotesShrink ==
  ASSUME NEW d \in Seq(Notes), NEW n, NEW p
  PROVE  [d EXCEPT ![n].at = @ \ {p}] \in Seq(Notes)
<1> DEFINE S == d[n].at \ {p}
<1>1. CASE n \in 1..Len(d)
  <2>1. d[n] \in Notes
    BY <1>1, ElementOfSeq
  <2>2. S \in SUBSET Peers
    BY <2>1 DEF Notes
  <2> QED BY <2>2, NotesType
<1>2. CASE n \notin 1..Len(d)
  <2>1. d \in [1..Len(d) -> Notes]
    BY LenProperties
  <2>2. [d EXCEPT ![n].at = S] = d
    BY <1>2, <2>1
  <2> QED BY <2>2
<1> QED BY <1>1, <1>2

\* The data path starts with all clients in and nothing under way.
LEMMA DataInitInv == Init => DataInv
<1> SUFFICES ASSUME Init PROVE DataInv
  OBVIOUS
<1> USE DataPathAssumption DEF Init
<1>1. WireInv
  BY WireInitInv
<1>2. DataType
  <2>1. /\ members \subseteq Peers /\ ip \in [Peers -> IPs] /\ mac \in [Peers -> MACs]
        /\ left \in Plans /\ due \in Seq(Notes)
    BY EmptySeq
  <2>2. view \in [Peers -> [IPs -> MACs \cup {Nobody}]]
    <3> SUFFICES ASSUME NEW i \in IPs, \E p \in Peers : ip[p] = i
                 PROVE  mac[CHOOSE p \in Peers : ip[p] = i] \in MACs
      BY DEF Listing
    <3>1. (CHOOSE p \in Peers : ip[p] = i) \in Peers
      OBVIOUS
    <3> QED BY <2>1, <3>1
  <2>3. handling \in [Peers -> Frames \cup {Nobody}] /\ down \in [Peers -> Seq(Frames)]
    BY EmptySeq
  <2> QED BY <2>1, <2>2, <2>3 DEF DataType
<1>3. SizesKnown /\ FramesFit
  BY DEF WireInit, NoWrites, SizesKnown, FramesFit
<1> QED BY <1>1, <1>2, <1>3 DEF DataInv

\* The sizes stay known when no goroutine starts to write.
LEMMA SizesStay ==
  ASSUME DataInv, left'.sizes = left.sizes, ended' \subseteq ended,
         \A c \in Clients, g \in Goroutines : writing'[c][g] \in {writing[c][g], Nobody}
  PROVE  SizesKnown' /\ FramesFit'
BY DEF DataInv, SizesKnown, FramesFit

\* They stay known when one starts to write a frame of a known size.
LEMMA SizesCall ==
  ASSUME DataInv, left'.sizes = left.sizes, ended' = ended,
         NEW c \in Clients, NEW g \in Goroutines, NEW f \in Frames, CallWriteFrame(c, g, f),
         f.size <= MaxFrameSize \/ \E s \in left.sizes : f.size = s + HeaderSize
  PROVE  SizesKnown' /\ FramesFit'
<1>1. ASSUME NEW d \in Clients, NEW h \in Goroutines
      PROVE  writing'[d][h] = IF d = c /\ h = g THEN f ELSE writing[d][h]
  BY DEF DataInv, WireInv, WireType, CallWriteFrame
<1> QED BY <1>1 DEF DataInv, SizesKnown, FramesFit

\* A new frame is a frame, and calling WriteFrame with it a step of the streams.
LEMMA SendStep ==
  ASSUME DataInv, NEW p \in Peers, NEW kind \in Kinds, NEW src \in MACs,
         NEW dst \in MACs \cup {BroadcastMAC}, NEW to \in IPs \cup {Group}, NEW size \in Nat,
         NEW g \in Goroutines, writing[p][g] = Nobody,
         CallWriteFrame(p, g, Frame(kind, src, dst, to, size)), UNCHANGED <<up, mu, ended>>,
         size <= MaxFrameSize \/ \E s \in left.sizes : size = s + HeaderSize,
         left'.sizes = left.sizes
  PROVE  WireNext /\ SizesKnown' /\ FramesFit'
<1> DEFINE f == Frame(kind, src, dst, to, size)
<1>1. f \in Frames /\ f.size = size
  <2>1. Len(due) \in Nat
    BY LenProperties DEF DataInv, DataType
  <2> QED BY <2>1 DEF Frame, Frames
<1> HIDE DEF f
<1>2. CallWriteFrame(p, g, f) /\ p \in Clients
  BY DataPathAssumption DEF f
<1>3. WireNext
  BY <1>1, <1>2 DEF WireNext
<1>4. SizesKnown' /\ FramesFit'
  BY <1>1, <1>2, SizesCall
<1> QED BY <1>3, <1>4

\* A step that leaves the streams and the scenario's sizes alone keeps the sizes known.
LEMMA QuietStep ==
  ASSUME DataInv, UNCHANGED wireVars, left'.sizes = left.sizes
  PROVE  [WireNext]_wireVars /\ SizesKnown' /\ FramesFit'
BY DEF wireVars, DataInv, SizesKnown, FramesFit

\* Every step of the data path keeps its types and the sizes, and is a step of
\* the streams or leaves them alone.
LEMMA DataStep ==
  DataInv /\ [Next]_vars => DataType' /\ SizesKnown' /\ FramesFit' /\ [WireNext]_wireVars
<1> SUFFICES ASSUME DataInv, [Next]_vars
             PROVE  DataType' /\ SizesKnown' /\ FramesFit' /\ [WireNext]_wireVars
  OBVIOUS
<1> DEFINE Goal == DataType' /\ SizesKnown' /\ FramesFit' /\ [WireNext]_wireVars
<1>0. WireType /\ DataType /\ Clients = Peers
  BY DataPathAssumption DEF DataInv, WireInv
<1>1. CASE UNCHANGED vars
  <2>1. UNCHANGED <<wireVars, roomVars, view, handling, down, history, left>>
    BY <1>1 DEF vars
  <2>2. DataType'
    BY <1>0, <2>1 DEF DataType, roomVars, history
  <2> QED BY <2>1, <2>2, QuietStep
<1>2. CASE TimePasses \/ Switch
  <2>1. UNCHANGED <<wireVars, roomVars, view, handling, down, history>>
    BY <1>2 DEF TimePasses, Switch
  <2>2. left' \in Plans /\ left'.sizes = left.sizes
    BY <1>0, <1>2, SpendType DEF TimePasses, Switch, DataType
  <2>3. DataType'
    BY <1>0, <2>1, <2>2 DEF DataType, roomVars, history
  <2> QED BY <2>1, <2>2, <2>3, QuietStep
<1>3. ASSUME NEW p \in Peers, NEW i \in IPs \cup {Group}, NEW s \in left.sizes,
             ReadIPAsEthernet(p, i, s)
      PROVE  Goal
  <2> DEFINE dst == DestinationMAC(p, i)
  <2>1. left' \in Plans /\ left'.sizes = left.sizes
    BY <1>0, <1>3, SpendType DEF ReadIPAsEthernet, DataType
  <2>2. /\ CallWriteFrame(p, "tx", Frame("ip", mac[p], dst, i, s + HeaderSize))
        /\ writing[p]["tx"] = Nobody
        /\ UNCHANGED <<up, mu, ended, roomVars, view, handling, down>>
    BY <1>3 DEF ReadIPAsEthernet, SendFrame
  <2>3. mac[p] \in MACs /\ s \in Nat /\ s + HeaderSize \in Nat
    BY <1>0, DataPathAssumption DEF DataType, Plans
  <2>4. dst \in MACs \cup {BroadcastMAC}
    BY <1>0 DEF DataType, DestinationMAC
  <2>5. due' = Append(due, [kind |-> "ip", at |-> {}])
    BY <1>3 DEF ReadIPAsEthernet, SendFrame, Frame
  <2> HIDE DEF dst
  <2>6. DataType'
    BY <1>0, <2>1, <2>2, <2>5 DEF DataType, roomVars, Notes, Kinds
  <2>7. WireNext /\ SizesKnown' /\ FramesFit'
    BY <2>1, <2>2, <2>3, <2>4, SendStep DEF Kinds, Goroutines
  <2> QED BY <2>6, <2>7
<1>4a. ASSUME NEW p \in Peers, NEW i \in IPs \cup {Group}, NEW s \in left.sizes,
              NEW m \in MACs \cup {BroadcastMAC}, ReadTAPPacket(p, i, m, s)
       PROVE  Goal
  <2>1. left' \in Plans /\ left'.sizes = left.sizes
    BY <1>0, <1>4a, SpendType DEF ReadTAPPacket, DataType
  <2>2. /\ CallWriteFrame(p, "tx", Frame("ip", mac[p], m, i, s + HeaderSize))
        /\ writing[p]["tx"] = Nobody
        /\ UNCHANGED <<up, mu, ended, roomVars, view, handling, down>>
    BY <1>4a DEF ReadTAPPacket, SendFrame
  <2>3. mac[p] \in MACs /\ s \in Nat /\ s + HeaderSize \in Nat
    BY <1>0, DataPathAssumption DEF DataType, Plans
  <2>4. due' = Append(due, [kind |-> "ip", at |-> {}])
    BY <1>4a DEF ReadTAPPacket, SendFrame, Frame
  <2>5. DataType'
    BY <1>0, <2>1, <2>2, <2>4 DEF DataType, roomVars, Notes, Kinds
  <2>6. WireNext /\ SizesKnown' /\ FramesFit'
    BY <2>1, <2>2, <2>3, SendStep DEF Kinds, Goroutines
  <2> QED BY <2>5, <2>6
<1>4. ASSUME NEW p \in Peers, NEW i \in IPs, ReadTAP(p, i) PROVE Goal
  <2>1. left' \in Plans /\ left'.sizes = left.sizes
    BY <1>0, <1>4, SpendType DEF ReadTAP, DataType
  <2>2. /\ CallWriteFrame(p, "tx", Frame("arp", mac[p], BroadcastMAC, i, ARPSize))
        /\ writing[p]["tx"] = Nobody
        /\ UNCHANGED <<up, mu, ended, roomVars, view, handling, down>>
    BY <1>4 DEF ReadTAP, SendFrame
  <2>3. mac[p] \in MACs /\ ARPSize \in Nat /\ ARPSize <= MaxFrameSize
    BY <1>0, DataPathAssumption, WireAssumption DEF DataType
  <2>4. due' = Append(due, [kind |-> "arp", at |-> {}])
    BY <1>4 DEF ReadTAP, SendFrame, Frame
  <2>5. DataType'
    BY <1>0, <2>1, <2>2, <2>4 DEF DataType, roomVars, Notes, Kinds
  <2>6. WireNext /\ SizesKnown' /\ FramesFit'
    BY <2>1, <2>2, <2>3, SendStep DEF Kinds, Goroutines
  <2> QED BY <2>5, <2>6
<1>5. ASSUME NEW p \in Peers, NEW g \in Goroutines, WriteStep(p, g) PROVE Goal
  <2>1. UNCHANGED <<roomVars, view, handling, down, history, left>>
    BY <1>5 DEF WriteStep
  <2>2. DataType'
    BY <1>0, <2>1 DEF DataType, roomVars, history
  <2>3. WireNext
    BY <1>0, <1>5 DEF WriteStep, WireNext
  <2>4. SizesKnown' /\ FramesFit'
    <3>1. CASE WriteHeader(p, g)
      BY <2>1, <3>1, SizesStay DEF WriteHeader
    <3>2. CASE WritePayload(p, g)
      <4>1. \A c \in Clients, h \in Goroutines : writing'[c][h] \in {writing[c][h], Nobody}
        BY <1>0, <3>2 DEF WritePayload, WireType
      <4> QED BY <2>1, <3>2, <4>1, SizesStay DEF WritePayload
    <3>3. CASE WriteTooLarge(p, g)
      <4>1. \A c \in Clients, h \in Goroutines : writing'[c][h] \in {writing[c][h], Nobody}
        BY <1>0, <3>3 DEF WriteTooLarge, WireType
      <4>2. SizesKnown'
        BY <2>1, <4>1 DEF DataInv, SizesKnown
      <4>3. writing[p][g] \in Frames /\ writing[p][g].size > MaxFrameSize
        BY <1>0, <3>3 DEF WriteTooLarge, TooLarge, WireType
      <4>4. \E s \in left.sizes : s + HeaderSize > MaxFrameSize
        <5>1. writing[p][g] # Nobody /\ writing[p][g].size \in Nat
          BY <3>3, <4>3 DEF WriteTooLarge, Frames
        <5>2. ~(writing[p][g].size <= MaxFrameSize)
          BY <4>3, <5>1, WireAssumption
        <5>3. PICK s \in left.sizes : writing[p][g].size = s + HeaderSize
          BY <1>0, <5>1, <5>2 DEF DataInv, SizesKnown
        <5> QED BY <4>3, <5>3
      <4> QED BY <2>1, <4>2, <4>4 DEF FramesFit
    <3> QED BY <1>5, <3>1, <3>2, <3>3 DEF WriteStep
  <2> QED BY <2>2, <2>3, <2>4
<1>6. ASSUME NEW p \in Peers, Deliver(p) PROVE Goal
  <2>1. UNCHANGED <<wireVars, roomVars, view, handling, left>>
    BY <1>6 DEF Deliver
  <2>2. down' \in [Peers -> Seq(Frames)]
    BY <1>0, <1>6 DEF Deliver, DataType
  <2>3. due' \in Seq(Notes)
    <3>1. [due EXCEPT ![Head(down[p]).n].at = @ \ {p}] \in Seq(Notes)
      BY <1>0, NotesShrink DEF DataType
    <3> QED BY <1>0, <1>6, <3>1 DEF Deliver, Note, history, DataType
  <2>4. DataType'
    BY <1>0, <2>1, <2>2, <2>3 DEF DataType, roomVars
  <2> QED BY <2>1, <2>4, QuietStep
<1>7. ASSUME NEW p \in Peers, arpReply(p) PROVE Goal
  <2> DEFINE f == Head(down[p])
  <2>1. f \in Frames /\ Tail(down[p]) \in Seq(Frames)
    <3>1. down[p] \in Seq(Frames) /\ down[p] # << >>
      BY <1>0, <1>7 DEF arpReply, DataType
    <3> QED BY <3>1, HeadTailProperties
  <2>2. /\ CallWriteFrame(p, "rx", Frame("reply", mac[p], f.src, f.to, ARPSize))
        /\ writing[p]["rx"] = Nobody
        /\ UNCHANGED <<up, mu, ended, roomVars, view, handling, left>>
    BY <1>7 DEF arpReply
  <2>3. /\ mac[p] \in MACs /\ ARPSize \in Nat /\ ARPSize <= MaxFrameSize
        /\ f.src \in MACs /\ f.to \in IPs \cup {Group}
    BY <1>0, <2>1, DataPathAssumption, WireAssumption DEF DataType, Frames
  <2>4. due' \in Seq(Notes)
    <3> DEFINE d == [due EXCEPT ![f.n].at = @ \ {p}]
    <3>1. d \in Seq(Notes)
      BY <1>0, NotesShrink DEF DataType
    <3>2. due' = Append(d, [kind |-> "reply", at |-> {}])
      BY <1>7 DEF arpReply
    <3> HIDE DEF d
    <3>3. [kind |-> "reply", at |-> {}] \in Notes
      BY DEF Notes, Kinds
    <3> QED BY <3>1, <3>2, <3>3
  <2>5. down' = [down EXCEPT ![p] = Tail(down[p])]
    BY <1>7 DEF arpReply
  <2>6. DataType'
    BY <1>0, <2>1, <2>2, <2>4, <2>5 DEF DataType, roomVars
  <2>7. WireNext /\ SizesKnown' /\ FramesFit'
    BY <2>2, <2>3, SendStep DEF Kinds, Goroutines
  <2> QED BY <2>6, <2>7
<1>8. ASSUME NEW p \in Peers, UpdatePeers(p) PROVE Goal
  <2>1. UNCHANGED <<wireVars, roomVars, handling, down, history, left>>
    BY <1>8 DEF UpdatePeers
  <2>2. Listing(members) \in [IPs -> MACs \cup {Nobody}]
    BY <1>0, ListingType DEF DataType
  <2>3. DataType'
    BY <1>0, <1>8, <2>1, <2>2 DEF UpdatePeers, DataType, roomVars, history
  <2> QED BY <2>1, <2>3, QuietStep
<1>9. ASSUME NEW p \in Peers, ReadFrame(p) PROVE Goal
  <2>1. UNCHANGED <<mu, writing, ended, roomVars, view, down, history, left>>
    BY <1>9 DEF ReadFrame, ReadMessage
  <2>2. up[p][1].frame \in Frames
    <3>1. up[p] \in Seq(Pieces) /\ Len(up[p]) >= 2
      BY <1>0, <1>9 DEF ReadFrame, ReadMessage, Readable, WireType
    <3>2. up[p][1] \in Pieces
      BY <3>1
    <3> QED BY <3>2 DEF Pieces
  <2>3. DataType'
    BY <1>0, <1>9, <2>1, <2>2 DEF ReadFrame, DataType, roomVars, history
  <2>4. WireNext
    BY <1>0, <1>9 DEF ReadFrame, WireNext
  <2>5. SizesKnown' /\ FramesFit'
    BY <2>1, SizesStay
  <2> QED BY <2>3, <2>4, <2>5
<1>10. ASSUME NEW p \in Peers, Record(p) PROVE Goal
  <2>1. UNCHANGED <<wireVars, roomVars, view, handling, down, history, left>>
    BY <1>10 DEF Record
  <2>2. DataType'
    BY <1>0, <2>1 DEF DataType, roomVars, history
  <2> QED BY <2>1, <2>2, QuietStep
<1>11. ASSUME NEW p \in Peers, RelayFrame(p) PROVE Goal
  <2> DEFINE f == handling[p]
  <2>1. UNCHANGED <<wireVars, roomVars, view, left>>
    BY <1>11 DEF RelayFrame
  <2>2. f \in Frames /\ handling' \in [Peers -> Frames \cup {Nobody}]
    BY <1>0, <1>11 DEF RelayFrame, DataType
  <2>3. down' \in [Peers -> Seq(Frames)]
    <3>1. ASSUME NEW q \in Peers
          PROVE  down[q] \in Seq(Frames) /\ Append(down[q], f) \in Seq(Frames)
      BY <1>0, <2>2 DEF DataType
    <3>2. \/ down' = down
          \/ down' = [q \in Peers |-> IF q \in Targets(p, f) THEN Append(down[q], f) ELSE down[q]]
      BY <1>11 DEF RelayFrame
    <3> QED BY <1>0, <3>1, <3>2 DEF DataType
  <2>4. due' \in Seq(Notes)
    <3>1. Addressees(p, f) \in SUBSET Peers
      <4>1. Others(p) \subseteq Peers /\ f.kind \in Kinds
        BY <1>0, <2>2 DEF DataType, Others, Frames
      <4> QED BY <4>1 DEF Kinds, Addressees
    <3>2. [due EXCEPT ![f.n].at = Addressees(p, f)] \in Seq(Notes)
      BY <1>0, <3>1, NotesType DEF DataType
    <3> QED BY <1>0, <1>11, <3>2 DEF RelayFrame, DataType
  <2>5. DataType'
    BY <1>0, <2>1, <2>2, <2>3, <2>4 DEF DataType, roomVars
  <2> QED BY <2>1, <2>5, QuietStep
<1>12. ASSUME NEW p \in Peers, RemovePeer(p) PROVE Goal
  <2>1. UNCHANGED <<ip, mac, view, handling>> /\ ResetWire(p)
    BY <1>12 DEF RemovePeer
  <2>2. left' \in Plans /\ left'.sizes = left.sizes
    BY <1>0, <1>12, SpendType DEF RemovePeer, DataType
  <2>3. due' \in Seq(Notes)
    <3>1. ASSUME NEW n \in 1..Len(due) PROVE [due[n] EXCEPT !.at = @ \ {p}] \in Notes
      <4>1. due[n] \in Notes
        BY <1>0, ElementOfSeq DEF DataType
      <4> QED BY <4>1 DEF Notes
    <3>2. due' = [n \in 1..Len(due) |-> [due[n] EXCEPT !.at = @ \ {p}]]
      BY <1>12 DEF RemovePeer
    <3>3. Len(due) \in Nat /\ due' \in [1..Len(due) -> Notes]
      BY <1>0, <3>1, <3>2, LenProperties DEF DataType
    <3> QED BY <3>3
  <2>4. members' \subseteq Peers /\ down' \in [Peers -> Seq(Frames)]
    BY <1>0, <1>12, EmptySeq DEF RemovePeer, DataType
  <2>5. DataType'
    BY <1>0, <2>1, <2>2, <2>3, <2>4 DEF DataType
  <2>6. WireNext
    BY <1>0, <2>1 DEF WireNext
  <2>7. SizesKnown' /\ FramesFit'
    <3>1. \A c \in Clients, g \in Goroutines : writing'[c][g] \in {writing[c][g], Nobody}
      BY <1>0, <2>1 DEF ResetWire, NoWrites, WireType
    <3> QED BY <2>1, <2>2, <3>1, SizesStay DEF ResetWire
  <2> QED BY <2>5, <2>6, <2>7
<1>13. ASSUME NEW p \in Peers, NEW i \in IPs, NEW m \in MACs, AddPeer(p, i, m) PROVE Goal
  <2>1. UNCHANGED <<wireVars, handling, down, history, left>>
    BY <1>13 DEF AddPeer
  <2>2. Listing(members) \in [IPs -> MACs \cup {Nobody}]
    BY <1>0, ListingType DEF DataType
  <2>3. DataType'
    BY <1>0, <1>13, <2>1, <2>2 DEF AddPeer, DataType, history
  <2> QED BY <2>1, <2>3, QuietStep
<1> QED
  <2>1. CASE Next
    BY <2>1, <1>2, <1>3, <1>4, <1>4a, <1>5, <1>6, <1>7, <1>8, <1>9, <1>10, <1>11, <1>12, <1>13
    DEF Next, WriteTAP, WriteEthernetAsIP
  <2> QED BY <1>1, <2>1

\* The invariant of the data path holds in every reachable state.
THEOREM DataPathCorrect == Spec => []DataInv
<1>1. DataInv /\ [Next]_vars => DataInv'
  BY DataStep, WireStep DEF DataInv
<1> QED BY <1>1, DataInitInv, PTL DEF Spec

\* Whatever the two writers of a client's stream send, and however often clients
\* leave in the middle of it, the server reads whole frames that were written.
THEOREM FramesStayWhole == Spec => []FramingIntact
<1>1. DataInv => FramingIntact
  BY WireFraming DEF DataInv
<1> QED BY <1>1, DataPathCorrect, PTL

\* A session ends for a frame that is too large only if the MTU lets it through.
THEOREM SessionsSurviveFrames == Spec => []FramesFit
<1>1. DataInv => FramesFit
  BY DEF DataInv
<1> QED BY <1>1, DataPathCorrect, PTL

-----------------------------------------------------------------------------
(* The rate limit.                                                           *)

Verdicts == [at : Nat, size : Nat, ok : BOOLEAN, frames : Nat, bytes : Nat]

RateType ==
  /\ now \in Nat
  /\ windowStart \in [Peers -> Nat \cup {-1}]
  /\ windowFrames \in [Peers -> Nat]
  /\ windowBytes \in [Peers -> Nat]
  /\ verdicts \in [Peers -> Seq(Verdicts)]

\* What was let through only grows.
TotalsGrow(p) ==
  \A i, j \in 0..Len(verdicts[p]) :
    i <= j => /\ FramesUpTo(verdicts[p], i) <= FramesUpTo(verdicts[p], j)
              /\ BytesUpTo(verdicts[p], i) <= BytesUpTo(verdicts[p], j)

\* The window of p is that of its frames after the s-th: the counters say what was
\* let through of them, the frames before are not younger than the window, and
\* those of them that are less than a window's length older keep the limits too.
WindowFrom(p, s) ==
  /\ windowFrames[p] = FramesPassed(p, s + 1, Len(verdicts[p]))
  /\ windowBytes[p] = BytesPassed(p, s + 1, Len(verdicts[p]))
  /\ \A k \in 1..s : verdicts[p][k].at <= windowStart[p]
  /\ \A k \in s + 1..Len(verdicts[p]) : windowStart[p] <= verdicts[p][k].at
  /\ \A i \in 1..s : verdicts[p][i].at > windowStart[p] - Window =>
       FramesPassed(p, i, s) <= MaxPeerFrames /\ BytesPassed(p, i, s) <= MaxPeerBytes

\* BurstBounded and RefusalsJustified for one peer.
BurstsBounded(p) ==
  \A i, j \in 1..Len(verdicts[p]) :
    i <= j /\ Within(p, i, j) =>
      /\ FramesPassed(p, i, j) <= 2 * MaxPeerFrames
      /\ BytesPassed(p, i, j) <= 2 * MaxPeerBytes
Justified(p) ==
  \A j \in 1..Len(verdicts[p]) : ~verdicts[p][j].ok =>
    \E i \in 1..j :
      /\ \A k \in i..j : Within(p, k, j)
      /\ \/ FramesPassed(p, i, j - 1) + 1 > MaxPeerFrames
         \/ BytesPassed(p, i, j - 1) + verdicts[p][j].size > MaxPeerBytes

PeerRate(p) ==
  /\ windowFrames[p] <= MaxPeerFrames /\ windowBytes[p] <= MaxPeerBytes
  /\ windowStart[p] <= now
  /\ windowStart[p] = -1 => Len(verdicts[p]) = 0
  /\ \A k \in 1..Len(verdicts[p]) : verdicts[p][k].at <= now
  /\ TotalsGrow(p)
  /\ \E s \in 0..Len(verdicts[p]) : WindowFrom(p, s)
  /\ BurstsBounded(p) /\ Justified(p)

RateInv == RateType /\ \A p \in Peers : PeerRate(p)

RateNext ==
  \/ Tick
  \/ \E p \in Peers : NewPeerRate(p) \/ \E size \in Nat : AllowFrame(p, size)

\* What one peer's frame or its return does to the others: nothing.  Time alone
\* changes nothing either.
LEMMA RateSame ==
  ASSUME RateType, RateType', NEW p \in Peers, PeerRate(p), now <= now',
         windowStart'[p] = windowStart[p], windowFrames'[p] = windowFrames[p],
         windowBytes'[p] = windowBytes[p], verdicts'[p] = verdicts[p]
  PROVE  PeerRate(p)'
<1>1. windowStart'[p] <= now'
  BY DEF RateType, PeerRate
<1>2. ASSUME NEW k \in 1..Len(verdicts[p]) PROVE verdicts[p][k].at <= now'
  <2>1. verdicts[p][k] \in Verdicts
    BY ElementOfSeq DEF RateType
  <2>2. verdicts[p][k].at \in Nat
    BY <2>1 DEF Verdicts
  <2>3. verdicts[p][k].at <= now
    BY DEF PeerRate
  <2>4. now \in Nat /\ now' \in Nat
    BY DEF RateType
  <2> QED BY <2>2, <2>3, <2>4
<1>3. TotalsGrow(p)' /\ BurstsBounded(p)' /\ Justified(p)'
  BY DEF PeerRate, TotalsGrow, BurstsBounded, Justified, Within, FramesPassed, BytesPassed
<1>4. PICK s \in 0..Len(verdicts[p]) : WindowFrom(p, s)
  BY DEF PeerRate
<1>5. WindowFrom(p, s)'
  BY <1>4 DEF WindowFrom, FramesPassed, BytesPassed
<1> QED BY <1>1, <1>2, <1>3, <1>5 DEF PeerRate

\* A peer that is new, and what holds of it.
NoFrames(p) ==
  /\ verdicts[p] = << >> /\ now \in Nat
  /\ windowStart[p] = -1 /\ windowFrames[p] = 0 /\ windowBytes[p] = 0

EmptyKeeps == \A p \in Peers : NoFrames(p) => PeerRate(p)

\* A peer without frames keeps the limits.
LEMMA RateEmpty == EmptyKeeps
<1> SUFFICES ASSUME NEW p \in Peers, NoFrames(p) PROVE PeerRate(p)
  BY DEF EmptyKeeps
<1> USE DEF NoFrames
<1>1. Len(verdicts[p]) = 0
  BY EmptySeq
<1>2. TotalsGrow(p) /\ BurstsBounded(p) /\ Justified(p)
  BY <1>1 DEF TotalsGrow, BurstsBounded, Justified, FramesUpTo, BytesUpTo
<1>3. WindowFrom(p, 0)
  BY <1>1 DEF WindowFrom, FramesPassed, BytesPassed, FramesUpTo, BytesUpTo
<1> QED BY <1>1, <1>2, <1>3, RateAssumption DEF PeerRate

\* The same of the state after a step.
LEMMA RateEmptyNext == EmptyKeeps'
  BY RateEmpty, PTL

\* The history of a peer after a frame.
LEMMA VerdictAdded ==
  ASSUME RateType, NEW p \in Peers, NEW size \in Nat, AllowFrame(p, size)
  PROVE  LET n == Len(verdicts[p])
             ok == Allowed(p, size) IN
         /\ n \in Nat /\ Len(verdicts'[p]) = n + 1 /\ verdicts' \in [Peers -> Seq(Verdicts)]
         /\ \A k \in 1..n : verdicts'[p][k] = verdicts[p][k] /\ verdicts[p][k] \in Verdicts
         /\ verdicts'[p][n + 1].at = now /\ verdicts'[p][n + 1].size = size
         /\ verdicts'[p][n + 1].ok = ok
         /\ \A k \in 0..n : /\ FramesUpTo(verdicts[p], k) \in Nat
                            /\ BytesUpTo(verdicts[p], k) \in Nat
                            /\ FramesUpTo(verdicts'[p], k) = FramesUpTo(verdicts[p], k)
                            /\ BytesUpTo(verdicts'[p], k) = BytesUpTo(verdicts[p], k)
         /\ FramesUpTo(verdicts'[p], n + 1) = FramesUpTo(verdicts[p], n) + (IF ok THEN 1 ELSE 0)
         /\ BytesUpTo(verdicts'[p], n + 1) = BytesUpTo(verdicts[p], n) + (IF ok THEN size ELSE 0)
         /\ \A q \in Peers : q # p => verdicts'[q] = verdicts[q]
<1> DEFINE n == Len(verdicts[p])
           ok == Allowed(p, size)
           e == Verdict(p, size, ok)
<1>1. verdicts[p] \in Seq(Verdicts) /\ n \in Nat
  BY LenProperties DEF RateType
<1>2. \A k \in 1..n : verdicts[p][k] \in Verdicts
  BY <1>1, ElementOfSeq
<1>3. ASSUME NEW k \in 0..n
      PROVE  FramesUpTo(verdicts[p], k) \in Nat /\ BytesUpTo(verdicts[p], k) \in Nat
  <2>1. CASE k = 0
    BY <2>1 DEF FramesUpTo, BytesUpTo
  <2>2. CASE k \in 1..n
    <3>1. verdicts[p][k] \in Verdicts /\ k # 0
      BY <1>2, <2>2
    <3> QED BY <3>1 DEF FramesUpTo, BytesUpTo, Verdicts
  <2> QED BY <1>1, <2>1, <2>2
<1>4. FramesUpTo(verdicts[p], n) \in Nat /\ BytesUpTo(verdicts[p], n) \in Nat /\ ok \in BOOLEAN
  BY <1>1, <1>3 DEF Allowed
<1>5. /\ e \in Verdicts /\ e.at = now /\ e.size = size /\ e.ok = ok
      /\ e.frames = FramesUpTo(verdicts[p], n) + (IF ok THEN 1 ELSE 0)
      /\ e.bytes = BytesUpTo(verdicts[p], n) + (IF ok THEN size ELSE 0)
  <2> HIDE DEF ok
  <2>1. /\ FramesUpTo(verdicts[p], n) + (IF ok THEN 1 ELSE 0) \in Nat
        /\ BytesUpTo(verdicts[p], n) + (IF ok THEN size ELSE 0) \in Nat
    BY <1>4
  <2> QED BY <1>4, <2>1 DEF Verdict, Verdicts, RateType
<1>6. verdicts' = [verdicts EXCEPT ![p] = Append(verdicts[p], e)]
  BY DEF AllowFrame
<1> HIDE DEF e, ok
<1>7. /\ Append(verdicts[p], e) \in Seq(Verdicts) /\ Len(Append(verdicts[p], e)) = n + 1
      /\ \A k \in 1..n : Append(verdicts[p], e)[k] = verdicts[p][k]
      /\ Append(verdicts[p], e)[n + 1] = e
  BY <1>1, <1>5, AppendProperties
<1>8. /\ verdicts' \in [Peers -> Seq(Verdicts)] /\ verdicts'[p] = Append(verdicts[p], e)
      /\ \A q \in Peers : q # p => verdicts'[q] = verdicts[q]
  BY <1>6, <1>7 DEF RateType
<1>9. \A k \in 0..n : /\ FramesUpTo(verdicts'[p], k) = FramesUpTo(verdicts[p], k)
                      /\ BytesUpTo(verdicts'[p], k) = BytesUpTo(verdicts[p], k)
  BY <1>1, <1>7, <1>8 DEF FramesUpTo, BytesUpTo
<1>10. /\ FramesUpTo(verdicts'[p], n + 1) = FramesUpTo(verdicts[p], n) + (IF ok THEN 1 ELSE 0)
       /\ BytesUpTo(verdicts'[p], n + 1) = BytesUpTo(verdicts[p], n) + (IF ok THEN size ELSE 0)
  <2>1. n + 1 # 0 /\ verdicts'[p][n + 1] = e
    BY <1>1, <1>7, <1>8
  <2> QED BY <1>5, <2>1 DEF FramesUpTo, BytesUpTo
<1> QED BY <1>1, <1>2, <1>3, <1>5, <1>7, <1>8, <1>9, <1>10 DEF ok

\* A frame is let through or refused: the limits are kept, by the frames of the
\* last window and of the one before.
LEMMA AllowStep ==
  ASSUME RateType, RateType', NEW p \in Peers, NEW size \in Nat, AllowFrame(p, size), PeerRate(p)
  PROVE  PeerRate(p)'
<1> DEFINE n == Len(verdicts[p])
           v == verdicts[p]
           w == verdicts'[p]
           ok == Allowed(p, size)
           F(k) == FramesUpTo(v, k)
           B(k) == BytesUpTo(v, k)
           G(k) == FramesUpTo(w, k)
           C(k) == BytesUpTo(w, k)
           df == IF ok THEN 1 ELSE 0
           db == IF ok THEN size ELSE 0
           over == WindowOver(p)
<1>1. /\ n \in Nat /\ Len(w) = n + 1
      /\ \A k \in 1..n : w[k] = v[k] /\ v[k] \in Verdicts
      /\ w[n + 1].at = now /\ w[n + 1].size = size /\ w[n + 1].ok = ok
      /\ \A k \in 0..n : G(k) = F(k) /\ F(k) \in Nat /\ C(k) = B(k) /\ B(k) \in Nat
      /\ G(n + 1) = F(n) + df /\ C(n + 1) = B(n) + db
  BY VerdictAdded
<1>2. \A k \in 1..n : v[k].at \in Nat
  BY <1>1 DEF Verdicts
<1>3. /\ now \in Nat /\ now' = now /\ windowStart[p] \in Int
      /\ windowStart'[p] = IF over THEN now ELSE windowStart[p]
      /\ windowFrames'[p] = (IF over THEN 0 ELSE windowFrames[p]) + df
      /\ windowBytes'[p] = (IF over THEN 0 ELSE windowBytes[p]) + db
      /\ windowFrames[p] \in Nat /\ windowBytes[p] \in Nat
      /\ over <=> windowStart[p] = -1 \/ now - windowStart[p] >= Window
      /\ ok <=> /\ (IF over THEN 0 ELSE windowFrames[p]) + 1 <= MaxPeerFrames
                /\ (IF over THEN 0 ELSE windowBytes[p]) + size <= MaxPeerBytes
  BY DEF AllowFrame, RateType, Counted, Allowed, FramesSoFar, BytesSoFar, WindowOver
<1>4. Window \in Nat \ {0} /\ MaxPeerFrames \in Nat \ {0} /\ MaxPeerBytes \in Nat \ {0}
  BY RateAssumption
<1>5. PICK s \in 0..n : WindowFrom(p, s)
  BY DEF PeerRate
<1>6. /\ windowFrames[p] = F(n) - F(s) /\ windowBytes[p] = B(n) - B(s)
      /\ \A k \in 1..s : v[k].at <= windowStart[p]
      /\ \A k \in s + 1..n : windowStart[p] <= v[k].at
      /\ \A i \in 1..s : v[i].at > windowStart[p] - Window =>
           F(s) - F(i - 1) <= MaxPeerFrames /\ B(s) - B(i - 1) <= MaxPeerBytes
  <2>1. (s + 1) - 1 = s
    BY <1>1
  <2> QED BY <1>5, <2>1 DEF WindowFrom, FramesPassed, BytesPassed
<1>7. \A i, j \in 0..n : i <= j => F(i) <= F(j) /\ B(i) <= B(j)
  BY DEF PeerRate, TotalsGrow
<1>8. /\ windowFrames[p] <= MaxPeerFrames /\ windowBytes[p] <= MaxPeerBytes
      /\ windowStart[p] <= now /\ (windowStart[p] = -1 => n = 0)
      /\ \A k \in 1..n : v[k].at <= now
  BY DEF PeerRate
<1>d. /\ df \in Nat /\ db \in Nat /\ df <= 1 /\ db <= size
      /\ ok => df = 1 /\ db = size
      /\ ~ok => df = 0 /\ db = 0
  OBVIOUS
<1>u. /\ TotalsGrow(p)' <=> \A i, j \in 0..n + 1 : i <= j => G(i) <= G(j) /\ C(i) <= C(j)
      /\ BurstsBounded(p)' <=>
           \A i, j \in 1..n + 1 :
             i <= j /\ w[j].at - w[i].at < Window =>
               G(j) - G(i - 1) <= 2 * MaxPeerFrames /\ C(j) - C(i - 1) <= 2 * MaxPeerBytes
      /\ Justified(p)' <=>
           \A j \in 1..n + 1 : ~w[j].ok =>
             \E i \in 1..j :
               /\ \A k \in i..j : w[j].at - w[k].at < Window
               /\ \/ G(j - 1) - G(i - 1) + 1 > MaxPeerFrames
                  \/ C(j - 1) - C(i - 1) + w[j].size > MaxPeerBytes
  BY <1>1 DEF TotalsGrow, BurstsBounded, Justified, Within, FramesPassed, BytesPassed
<1>v. /\ BurstsBounded(p) <=>
           \A i, j \in 1..n :
             i <= j /\ v[j].at - v[i].at < Window =>
               F(j) - F(i - 1) <= 2 * MaxPeerFrames /\ B(j) - B(i - 1) <= 2 * MaxPeerBytes
      /\ Justified(p) <=>
           \A j \in 1..n : ~v[j].ok =>
             \E i \in 1..j :
               /\ \A k \in i..j : v[j].at - v[k].at < Window
               /\ \/ F(j - 1) - F(i - 1) + 1 > MaxPeerFrames
                  \/ B(j - 1) - B(i - 1) + v[j].size > MaxPeerBytes
  BY DEF BurstsBounded, Justified, Within, FramesPassed, BytesPassed
<1> HIDE DEF n, v, w, ok, F, B, G, C, df, db, over
\* The new window: that of s, or one that begins with this frame.
<1> DEFINE s2 == IF over THEN n ELSE s
           start2 == IF over THEN now ELSE windowStart[p]
<1>9. /\ s2 \in 0..n /\ start2 \in Int /\ start2 <= now /\ now - start2 < Window
      /\ (over => s2 = n /\ start2 = now) /\ (~over => s2 = s /\ start2 = windowStart[p])
      /\ windowStart'[p] = start2 /\ start2 # -1
  BY <1>1, <1>3, <1>4, <1>8
<1> HIDE DEF s2, start2
<1>10. windowFrames'[p] = G(n + 1) - G(s2) /\ windowBytes'[p] = C(n + 1) - C(s2)
  <2>1. CASE over
    BY <1>1, <1>3, <1>9, <1>d, <2>1
  <2>2. CASE ~over
    <3>1. /\ G(n + 1) = F(n) + df /\ C(n + 1) = B(n) + db
          /\ F(n) \in Nat /\ B(n) \in Nat /\ F(s) \in Nat /\ B(s) \in Nat
          /\ s2 = s /\ G(s) = F(s) /\ C(s) = B(s)
      BY <1>1, <1>9, <2>2
    <3>2. /\ windowFrames'[p] = (F(n) - F(s)) + df
          /\ windowBytes'[p] = (B(n) - B(s)) + db
      BY <1>3, <1>6, <2>2
    <3> QED BY <1>d, <3>1, <3>2
  <2> QED BY <2>1, <2>2
<1>11. windowFrames'[p] <= MaxPeerFrames /\ windowBytes'[p] <= MaxPeerBytes
  <2>1. CASE over
    BY <1>3, <1>4, <1>d, <2>1
  <2>2. CASE ~over
    BY <1>3, <1>4, <1>8, <1>d, <2>2
  <2> QED BY <2>1, <2>2
<1>12. /\ \A k \in 1..s2 : v[k].at <= start2
       /\ \A k \in s2 + 1..n : start2 <= v[k].at
  <2>1. CASE over
    <3>1. \A k \in 1..n : v[k].at <= now
      BY <1>8
    <3> QED BY <1>1, <1>9, <2>1, <3>1
  <2>2. CASE ~over
    BY <1>6, <1>9, <2>2
  <2> QED BY <2>1, <2>2
<1>13. ASSUME NEW i \in 1..s2, v[i].at > start2 - Window
       PROVE  F(s2) - F(i - 1) <= MaxPeerFrames /\ B(s2) - B(i - 1) <= MaxPeerBytes
  <2>1. CASE over
    <3>1. i \in 1..n /\ n # 0 /\ now - windowStart[p] >= Window
      BY <1>1, <1>3, <1>8, <1>9, <2>1
    <3>a. start2 = now /\ s2 = n /\ v[i].at \in Nat
      BY <1>2, <1>9, <2>1, <3>1
    <3>b. v[i].at > windowStart[p]
      BY <1>3, <1>4, <1>13, <3>1, <3>a
    <3>c. i \notin 1..s
      BY <1>3, <1>6, <3>a, <3>b
    <3>2. s <= i - 1 /\ i - 1 \in 0..n
      BY <1>1, <3>1, <3>c
    <3>3. F(s) <= F(i - 1) /\ B(s) <= B(i - 1)
      BY <1>7, <3>2
    <3>4. /\ F(n) \in Nat /\ B(n) \in Nat /\ F(s) \in Nat /\ B(s) \in Nat
          /\ F(i - 1) \in Nat /\ B(i - 1) \in Nat
      BY <1>1, <3>2
    <3>5. F(n) - F(s) <= MaxPeerFrames /\ B(n) - B(s) <= MaxPeerBytes
      BY <1>6, <1>8
    <3> QED BY <1>4, <3>3, <3>4, <3>5, <3>a
  <2>2. CASE ~over
    BY <1>6, <1>9, <1>13, <2>2
  <2> QED BY <2>1, <2>2
<1>t. G(n + 1) \in Nat /\ C(n + 1) \in Nat
  <2>1. n \in 0..n
    BY <1>1
  <2>2. F(n) \in Nat /\ B(n) \in Nat /\ G(n + 1) = F(n) + df /\ C(n + 1) = B(n) + db
    BY <1>1, <2>1
  <2>3. df \in Nat /\ db \in Nat
    BY <1>d
  <2> QED BY <2>2, <2>3
<1>14. TotalsGrow(p)'
  <2> SUFFICES ASSUME NEW i \in 0..n + 1, NEW j \in 0..n + 1, i <= j
               PROVE  G(i) <= G(j) /\ C(i) <= C(j)
    BY <1>u
  <2>1. CASE j \in 0..n
    <3>1. i \in 0..n
      BY <1>1, <2>1
    <3> QED BY <1>1, <1>7, <2>1, <3>1
  <2>2. CASE j = n + 1 /\ i \in 0..n
    <3>1. F(i) <= F(n) /\ B(i) <= B(n)
      BY <1>1, <1>7, <2>2
    <3> QED BY <1>1, <1>d, <2>2, <3>1
  <2>3. CASE j = n + 1 /\ i = n + 1
    BY <1>1, <1>d, <2>3
  <2> QED BY <1>1, <2>1, <2>2, <2>3
<1>15. BurstsBounded(p)'
  <2> SUFFICES ASSUME NEW i \in 1..n + 1, NEW j \in 1..n + 1, i <= j, w[j].at - w[i].at < Window
               PROVE  /\ G(j) - G(i - 1) <= 2 * MaxPeerFrames
                      /\ C(j) - C(i - 1) <= 2 * MaxPeerBytes
    BY <1>u
  <2>1. CASE j \in 1..n
    <3>1. i \in 1..n /\ i - 1 \in 0..n /\ j \in 0..n
      BY <1>1, <2>1
    <3>2. F(j) - F(i - 1) <= 2 * MaxPeerFrames /\ B(j) - B(i - 1) <= 2 * MaxPeerBytes
      BY <1>1, <1>v, <2>1, <3>1 DEF PeerRate
    <3> QED BY <1>1, <3>1, <3>2
  <2>2. CASE j = n + 1 /\ i > s2
    <3>1. i - 1 \in 0..n /\ s2 <= i - 1
      BY <1>1, <1>9, <2>2
    <3>2. F(s2) <= F(i - 1) /\ B(s2) <= B(i - 1)
      BY <1>7, <1>9, <3>1
    <3>3. /\ G(i - 1) = F(i - 1) /\ C(i - 1) = B(i - 1) /\ F(i - 1) \in Nat /\ B(i - 1) \in Nat
          /\ G(s2) = F(s2) /\ C(s2) = B(s2) /\ F(s2) \in Nat /\ B(s2) \in Nat
      BY <1>1, <1>9, <3>1
    <3> QED BY <1>4, <1>10, <1>11, <1>t, <2>2, <3>2, <3>3
  <2>3. CASE j = n + 1 /\ i <= s2
    <3>1. i \in 1..s2 /\ i \in 1..n /\ i - 1 \in 0..n
      BY <1>1, <1>9, <2>3
    <3>a. w[i] = v[i] /\ v[i].at \in Nat /\ w[j].at = now
      BY <1>1, <1>2, <2>3, <3>1
    <3>2. v[i].at > start2 - Window
      BY <1>3, <1>4, <1>9, <3>a
    <3>3. F(s2) - F(i - 1) <= MaxPeerFrames /\ B(s2) - B(i - 1) <= MaxPeerBytes
      BY <1>13, <3>1, <3>2
    <3>4. /\ G(i - 1) = F(i - 1) /\ C(i - 1) = B(i - 1) /\ F(i - 1) \in Nat /\ B(i - 1) \in Nat
          /\ G(s2) = F(s2) /\ C(s2) = B(s2) /\ F(s2) \in Nat /\ B(s2) \in Nat
      BY <1>1, <1>9, <3>1
    <3> QED BY <1>4, <1>10, <1>11, <1>t, <2>3, <3>3, <3>4
  <2> QED BY <1>1, <1>9, <2>1, <2>2, <2>3
<1>16. Justified(p)'
  <2> SUFFICES ASSUME NEW j \in 1..n + 1, ~w[j].ok
               PROVE  \E i \in 1..j :
                        /\ \A k \in i..j : w[j].at - w[k].at < Window
                        /\ \/ G(j - 1) - G(i - 1) + 1 > MaxPeerFrames
                           \/ C(j - 1) - C(i - 1) + w[j].size > MaxPeerBytes
    BY <1>u
  <2>1. CASE j \in 1..n
    <3>1. PICK i \in 1..j : /\ \A k \in i..j : v[j].at - v[k].at < Window
                            /\ \/ F(j - 1) - F(i - 1) + 1 > MaxPeerFrames
                               \/ B(j - 1) - B(i - 1) + v[j].size > MaxPeerBytes
      BY <1>1, <1>v, <2>1 DEF PeerRate
    <3>2. /\ j - 1 \in 0..n /\ i - 1 \in 0..n /\ w[j] = v[j]
          /\ \A k \in i..j : w[k] = v[k]
      <4>1. j - 1 \in 0..n /\ i - 1 \in 0..n /\ \A k \in i..j : k \in 1..n
        BY <1>1, <2>1
      <4> QED BY <1>1, <2>1, <4>1
    <3>3. /\ G(j - 1) = F(j - 1) /\ C(j - 1) = B(j - 1)
          /\ G(i - 1) = F(i - 1) /\ C(i - 1) = B(i - 1)
      BY <1>1, <3>2
    <3> QED BY <3>1, <3>2, <3>3
  <2>2. CASE j = n + 1
    <3>1. s2 + 1 \in 1..j /\ (s2 + 1) - 1 = s2 /\ j - 1 = n /\ w[j].at = now /\ w[j].size = size
      BY <1>1, <1>9, <2>2
    <3>2. ASSUME NEW k \in s2 + 1..j PROVE w[j].at - w[k].at < Window
      <4>1. CASE k = n + 1
        BY <1>1, <1>3, <1>4, <2>2, <4>1
      <4>2. CASE k # n + 1
        <5>1. k \in 1..n /\ k \in s2 + 1..n
          BY <1>1, <1>9, <2>2, <4>2
        <5>2. w[k] = v[k] /\ v[k].at \in Nat /\ start2 <= v[k].at
          BY <1>1, <1>2, <1>12, <5>1
        <5> QED BY <1>3, <1>4, <1>9, <3>1, <5>2
      <4> QED BY <4>1, <4>2
    <3>3. G(n) = F(n) /\ C(n) = B(n) /\ G(s2) = F(s2) /\ C(s2) = B(s2)
      BY <1>1, <1>9
    <3>4. F(n) \in Nat /\ B(n) \in Nat
      BY <1>1
    <3>5. F(n) - F(s2) + 1 > MaxPeerFrames \/ B(n) - B(s2) + size > MaxPeerBytes
      <4>1. ~ok
        BY <1>1, <2>2
      <4>2. CASE over
        BY <1>3, <1>4, <1>9, <3>4, <4>1, <4>2
      <4>3. CASE ~over
        BY <1>3, <1>4, <1>6, <1>9, <4>1, <4>3
      <4> QED BY <4>2, <4>3
    <3> QED BY <3>1, <3>2, <3>3, <3>5
  <2> QED BY <1>1, <2>1, <2>2
<1>w. ASSUME NEW k \in 1..n + 1
      PROVE  (k \in 1..n /\ w[k] = v[k]) \/ (k = n + 1 /\ w[k].at = now)
  <2>1. k \in 1..n \/ k = n + 1
    BY <1>1
  <2> QED BY <1>1, <2>1
<1>17. ASSUME NEW k \in 1..n + 1 PROVE w[k].at <= now
  <2>1. CASE k \in 1..n /\ w[k] = v[k]
    BY <1>8, <2>1
  <2>2. CASE w[k].at = now
    BY <1>3, <2>2
  <2> QED BY <1>w, <2>1, <2>2
<1>18. \E r \in 0..n + 1 : WindowFrom(p, r)'
  <2>a. s2 \in 0..n + 1 /\ (s2 + 1) - 1 = s2
    BY <1>1, <1>9
  <2>b. ASSUME NEW k \in 1..s2 PROVE w[k].at <= start2
    <3>1. k \in 1..n
      BY <1>1, <1>9
    <3> QED BY <1>1, <1>12, <3>1
  <2>c. ASSUME NEW k \in s2 + 1..n + 1 PROVE start2 <= w[k].at
    <3>1. k \in 1..n + 1 /\ (k \in 1..n => k \in s2 + 1..n)
      BY <1>1, <1>9
    <3>2. CASE k \in 1..n /\ w[k] = v[k]
      BY <1>12, <3>1, <3>2
    <3>3. CASE w[k].at = now
      BY <1>9, <3>3
    <3> QED BY <1>w, <3>1, <3>2, <3>3
  <2>1. /\ s2 \in 0..n + 1 /\ (s2 + 1) - 1 = s2
        /\ \A k \in 1..s2 : w[k].at <= start2
        /\ \A k \in s2 + 1..n + 1 : start2 <= w[k].at
    BY <2>a, <2>b, <2>c
  <2>2. ASSUME NEW i \in 1..s2, w[i].at > start2 - Window
        PROVE  G(s2) - G(i - 1) <= MaxPeerFrames /\ C(s2) - C(i - 1) <= MaxPeerBytes
    <3>1. i \in 1..n /\ i - 1 \in 0..n /\ s2 \in 0..n
      BY <1>1, <1>9
    <3> QED BY <1>1, <1>13, <2>2, <3>1
  <2>3. PICK r \in 0..n + 1 : r = s2
    BY <2>1
  <2>4. WindowFrom(p, r)'
    BY <1>1, <1>9, <1>10, <2>1, <2>2, <2>3
       DEF WindowFrom, FramesPassed, BytesPassed, G, C, w
  <2> QED BY <2>4
<1> QED
  BY <1>1, <1>3, <1>9, <1>11, <1>14, <1>15, <1>16, <1>17, <1>18 DEF PeerRate, w

\* At first no peer has sent anything.
LEMMA RateInitInv == RateInit => RateInv
<1> SUFFICES ASSUME RateInit PROVE RateInv
  OBVIOUS
<1>1. RateType
  BY EmptySeq DEF RateInit, RateType
<1>2. ASSUME NEW p \in Peers PROVE PeerRate(p)
  BY RateEmpty DEF RateInit, NoFrames, EmptyKeeps
<1> QED BY <1>1, <1>2 DEF RateInv

\* Time that passes, a frame and a peer that is back keep the invariant.
LEMMA RateStep == RateInv /\ [RateNext]_rateVars => RateInv'
<1> SUFFICES ASSUME RateInv, [RateNext]_rateVars PROVE RateInv'
  OBVIOUS
<1>0. RateType /\ \A p \in Peers : PeerRate(p)
  BY DEF RateInv
<1>1. CASE Tick \/ UNCHANGED rateVars
  <2>1. /\ RateType' /\ now <= now'
        /\ UNCHANGED <<windowStart, windowFrames, windowBytes, verdicts>>
    BY <1>0, <1>1 DEF Tick, rateVars, RateType
  <2>2. ASSUME NEW p \in Peers PROVE PeerRate(p)'
    BY <1>0, <2>1, RateSame
  <2> QED BY <2>1, <2>2 DEF RateInv
<1>2. ASSUME NEW p \in Peers, NewPeerRate(p) PROVE RateInv'
  <2>1. /\ RateType' /\ now <= now' /\ now' \in Nat
        /\ windowStart'[p] = -1 /\ windowFrames'[p] = 0 /\ windowBytes'[p] = 0
        /\ verdicts'[p] = << >>
    BY <1>0, <1>2, EmptySeq DEF NewPeerRate, RateType
  <2>2. \A q \in Peers : q # p =>
          /\ windowStart'[q] = windowStart[q] /\ windowFrames'[q] = windowFrames[q]
          /\ windowBytes'[q] = windowBytes[q] /\ verdicts'[q] = verdicts[q]
    BY <1>0, <1>2 DEF NewPeerRate, RateType
  <2>3. PeerRate(p)'
    <3>1. NoFrames(p)'
      BY <2>1 DEF NoFrames
    <3> QED BY <3>1, RateEmptyNext DEF EmptyKeeps
  <2>4. ASSUME NEW q \in Peers, q # p PROVE PeerRate(q)'
    BY <1>0, <2>1, <2>2, <2>4, RateSame
  <2> QED BY <2>1, <2>3, <2>4 DEF RateInv
<1>3. ASSUME NEW p \in Peers, NEW size \in Nat, AllowFrame(p, size) PROVE RateInv'
  <2>1. /\ verdicts' \in [Peers -> Seq(Verdicts)]
        /\ \A q \in Peers : q # p => verdicts'[q] = verdicts[q]
    BY <1>0, <1>3, VerdictAdded
  <2>2. /\ FramesSoFar(p) + Counted(1, Allowed(p, size)) \in Nat
        /\ BytesSoFar(p) + Counted(size, Allowed(p, size)) \in Nat
    BY <1>0 DEF FramesSoFar, BytesSoFar, Counted, RateType
  <2>3. RateType' /\ now <= now'
    <3>1. windowStart' \in [Peers -> Nat \cup {-1}] /\ now' = now
      BY <1>0, <1>3 DEF AllowFrame, RateType
    <3>2. windowFrames' \in [Peers -> Nat] /\ windowBytes' \in [Peers -> Nat]
      BY <1>0, <1>3, <2>2 DEF AllowFrame, RateType
    <3> QED BY <1>0, <2>1, <3>1, <3>2 DEF RateType
  <2>4. \A q \in Peers : q # p =>
          /\ windowStart'[q] = windowStart[q] /\ windowFrames'[q] = windowFrames[q]
          /\ windowBytes'[q] = windowBytes[q]
    BY <1>0, <1>3 DEF AllowFrame, RateType
  <2>5. PeerRate(p)'
    BY <1>0, <1>3, <2>3, AllowStep
  <2>6. ASSUME NEW q \in Peers, q # p PROVE PeerRate(q)'
    BY <1>0, <2>1, <2>3, <2>4, <2>6, RateSame
  <2> QED BY <2>3, <2>5, <2>6 DEF RateInv
<1> QED BY <1>1, <1>2, <1>3 DEF RateNext

\* A step of the data path is a step of the rate limit or does not touch it.
LEMMA RateSteps == DataInv /\ [Next]_vars => [RateNext]_rateVars
<1> SUFFICES ASSUME DataInv, [Next]_vars PROVE [RateNext]_rateVars
  OBVIOUS
<1>1. CASE UNCHANGED vars
  BY <1>1 DEF vars
<1>2. CASE TimePasses \/ Switch
  BY <1>2 DEF TimePasses, Switch, RateNext
<1>3. ASSUME NEW p \in Peers, RelayFrame(p) PROVE RateNext
  <2>1. handling[p] \in Frames
    BY <1>3 DEF RelayFrame, DataInv, DataType
  <2>2. handling[p].size \in Nat
    BY <2>1 DEF Frames
  <2>3. AllowFrame(p, handling[p].size)
    BY <1>3 DEF RelayFrame
  <2> QED BY <2>2, <2>3 DEF RateNext
<1>4. ASSUME NEW p \in Peers, NEW i \in IPs, NEW m \in MACs, AddPeer(p, i, m) PROVE RateNext
  BY <1>4 DEF AddPeer, RateNext
<1>5. ASSUME NEW p \in Peers,
             \/ \E i \in IPs \cup {Group}, s \in left.sizes :
                  \/ ReadIPAsEthernet(p, i, s)
                  \/ \E m \in MACs \cup {BroadcastMAC} : ReadTAPPacket(p, i, m, s)
             \/ \E i \in IPs : ReadTAP(p, i)
             \/ \E g \in Goroutines : WriteStep(p, g)
             \/ WriteTAP(p) \/ WriteEthernetAsIP(p) \/ arpReply(p) \/ UpdatePeers(p)
             \/ ReadFrame(p) \/ Record(p) \/ RemovePeer(p)
      PROVE  UNCHANGED rateVars
  BY <1>5 DEF ReadIPAsEthernet, ReadTAPPacket, ReadTAP, WriteStep, WriteTAP, WriteEthernetAsIP, Deliver,
     arpReply, UpdatePeers, ReadFrame, Record, RemovePeer
<1> QED BY <1>1, <1>2, <1>3, <1>4, <1>5 DEF Next

\* The invariant of the rate limit holds in every reachable state.
THEOREM RateLimitCorrect == Spec => []RateInv
<1>1. Init => RateInv
  BY RateInitInv DEF Init
<1>2. RateInv /\ DataInv /\ [Next]_vars => RateInv'
  BY RateStep, RateSteps
<1> QED BY <1>1, <1>2, DataPathCorrect, PTL DEF Spec

\* For any limits and any arrival of frames, no interval of a window's length sees
\* more than two windows' worth of one peer's frames or bytes let through.
THEOREM BurstsStayBounded == Spec => []BurstBounded
<1>1. RateInv => BurstBounded
  BY DEF RateInv, PeerRate, BurstsBounded, BurstBounded
<1> QED BY <1>1, RateLimitCorrect, PTL

\* For any limits and any arrival of frames, AllowFrame refuses a frame only if
\* those let through less than a window's length before it exhaust a limit.
THEOREM RefusalsAreJustified == Spec => []RefusalsJustified
<1>1. RateInv => RefusalsJustified
  BY DEF RateInv, PeerRate, Justified, RefusalsJustified
<1> QED BY <1>1, RateLimitCorrect, PTL

-----------------------------------------------------------------------------
(* The way of the frames.                                                    *)

\* On its way to the server a frame is with the goroutine that waits for the mutex,
\* in the stream from the header on, or with the handler.
Places == Goroutines \cup {"stream", "hand"}

Headers(c) == {k \in 1..Len(up[c]) : up[c][k].part = "header"}

InPlace(c, a) ==
  IF a = "stream" THEN {up[c][k].frame : k \in Headers(c)}
  ELSE IF a = "hand" THEN {handling[c]} \ {Nobody}
  ELSE IF mu[c] = a THEN {} ELSE {writing[c][a]} \ {Nobody}

\* A frame for several hosts is a broadcast, and a request too; an answer is not.
GoodFrame(f) ==
  /\ f.kind = "ip" /\ f.to = Group => f.dst = BroadcastMAC
  /\ f.kind = "arp" => f.dst = BroadcastMAC
  /\ f.kind = "reply" => f.dst # BroadcastMAC

\* A frame is at one place only, and goes to no client before its handler has it.
OnePlace ==
  \A c, d \in Peers, a, b \in Places :
    \A f \in InPlace(c, a), g \in InPlace(d, b) : f.n = g.n => c = d /\ a = b
OneHeader ==
  \A c \in Peers : \A j, k \in Headers(c) : up[c][j].frame.n = up[c][k].frame.n => j = k
Unsent(f) == GoodFrame(f) /\ f.n \in 1..Len(due) /\ \A q \in Peers : ~Waits(f.n, q)
NotYetDown == \A c \in Peers, a \in Places : \A f \in InPlace(c, a) : Unsent(f)

Upstream == OnePlace /\ OneHeader /\ NotYetDown

\* No two members have an address or a MAC in common, and nothing waits for a
\* client that is not a member.
Distinct ==
  /\ \A p, q \in members : p # q => ip[p] # ip[q] /\ mac[p] # mac[q]
  /\ \A p \in Peers \ members : down[p] = << >>

\* A frame waits at most once for a client, and the client takes it exactly if the
\* frame is still due to it.
WaitsFor(p) ==
  /\ \A k \in 1..Len(down[p]) :
       /\ down[p][k].n \in 1..Len(due)
       /\ Takes(p, down[p][k]) <=> p \in due[down[p][k].n].at
  /\ \A j, k \in 1..Len(down[p]) : down[p][j].n = down[p][k].n => j = k
  /\ \A n \in 1..Len(due) : p \in due[n].at => Waits(n, p)

Downstream == \A p \in Peers : WaitsFor(p)

WayInv == Upstream /\ Distinct /\ Downstream /\ stray = {}

\* Forward sends a frame to every host it is meant for: of those it goes to, the
\* hosts that take it are the addressees, and there are no other addressees.
LEMMA ForwardReaches ==
  ASSUME DataType, Distinct, NEW p \in Peers, NEW f \in Frames, GoodFrame(f)
  PROVE  /\ Addressees(p, f) \subseteq Targets(p, f) /\ Targets(p, f) \subseteq Others(p)
         /\ \A q \in Targets(p, f) : Takes(q, f) <=> q \in Addressees(p, f)
<1> USE DEF Takes, isARPRequestForIPv4, shouldDeliverIPv4ToTUN
<1>1. /\ Others(p) \subseteq members
      /\ \A q \in Others(p) : mac[q] \in MACs /\ ip[q] \in IPs /\ mac[q] # BroadcastMAC
      /\ \A q, r \in Others(p) : q # r => ip[q] # ip[r] /\ mac[q] # mac[r]
      /\ \A q \in Others(p) : ip[q] # Group
  BY DataPathAssumption DEF DataType, Distinct, Others
<1>2. f.kind \in {"ip", "arp", "reply"}
  BY DEF Frames, Kinds
<1>3. Targets(p, f) \subseteq Others(p)
  BY DEF Targets
<1>4. CASE f.kind = "ip" /\ Misled(p, f)
  <2>1. Addressees(p, f) = {}
    BY <1>4 DEF Addressees
  <2>2. PICK q \in Others(p) : mac[q] = f.dst /\ ip[q] # f.to
    BY <1>4 DEF Misled
  <2>3. ASSUME NEW r \in Targets(p, f) PROVE r = q
    <3>1. f.dst # BroadcastMAC
      BY <1>1, <2>2
    <3>2. r \in Others(p) /\ mac[r] = f.dst
      BY <2>2, <3>1 DEF Targets
    <3> QED BY <1>1, <2>2, <3>2
  <2>4. f.to # Group
    BY <1>1, <1>4, <2>2 DEF GoodFrame
  <2>5. ~Takes(q, f)
    BY <1>4, <2>2, <2>4
  <2> HIDE DEF Takes
  <2> QED BY <1>3, <2>1, <2>3, <2>5
<1>5. CASE f.kind = "ip" /\ ~Misled(p, f)
  <2>1. Addressees(p, f) = {q \in Others(p) : /\ f.to \in {ip[q], Group}
                                              /\ q \in Guests => f.dst \in {mac[q], BroadcastMAC}}
    BY <1>5 DEF Addressees
  <2>2. ASSUME NEW q \in Addressees(p, f) PROVE q \in Targets(p, f)
    <3>1. q \in Others(p) /\ f.to \in {ip[q], Group}
      BY <2>1, <2>2
    <3>2. CASE f.dst # BroadcastMAC /\ \E r \in Others(p) : mac[r] = f.dst
      <4>1. PICK r \in Others(p) : mac[r] = f.dst
        BY <3>2
      <4>2. ip[r] = f.to /\ f.to # Group
        BY <1>5, <3>2, <4>1 DEF Misled, GoodFrame
      <4>3. q = r
        BY <1>1, <3>1, <4>2
      <4> QED BY <3>1, <3>2, <4>1, <4>3 DEF Targets
    <3> QED BY <3>1, <3>2 DEF Targets
  <2>3. \A q \in Others(p) : Takes(q, f) <=> q \in Addressees(p, f)
    BY <1>5, <2>1
  <2> QED BY <1>3, <2>2, <2>3
<1>6. CASE f.kind = "arp"
  <2>1. Addressees(p, f) = {q \in Others(p) \ Guests : ip[q] = f.to}
    BY <1>6 DEF Addressees
  <2>2. Targets(p, f) = Others(p)
    BY <1>6 DEF Targets, GoodFrame
  <2>3. \A q \in Others(p) : Takes(q, f) <=> q \in Addressees(p, f)
    BY <1>6, <2>1
  <2> QED BY <1>3, <2>1, <2>2, <2>3
<1>7. CASE f.kind = "reply"
  <2>1. Addressees(p, f) = {q \in Others(p) \cap Guests : mac[q] = f.dst}
    BY <1>7 DEF Addressees
  <2>2. ASSUME NEW q \in Addressees(p, f) PROVE q \in Targets(p, f)
    BY <1>7, <2>1, <2>2 DEF Targets, GoodFrame
  <2>3. \A q \in Others(p) : Takes(q, f) <=> q \in Addressees(p, f)
    BY <1>7, <2>1 DEF GoodFrame
  <2> QED BY <1>3, <2>2, <2>3
<1> QED BY <1>2, <1>4, <1>5, <1>6, <1>7

\* What changes of the places: nothing but frame number n, which is at one place
\* at most and waits for nobody there.
Moves(n, c0, a0) ==
  /\ \A c \in Peers, a \in Places : \A f \in InPlace(c, a)' :
       (f \in InPlace(c, a) /\ f.n # n) \/ (c = c0 /\ a = a0 /\ f.n = n /\ Unsent(f)')
  /\ \A q \in Peers, m \in 1..Len(due) : Waits(m, q)' => Waits(m, q) \/ m = n

\* Such a step keeps every frame at one place.
LEMMA Moved ==
  ASSUME OnePlace, NotYetDown, Len(due) \in Nat, Len(due') \in Nat, Len(due) <= Len(due'),
         NEW n, NEW c0, NEW a0, Moves(n, c0, a0)
  PROVE  OnePlace' /\ NotYetDown'
<1> USE DEF Moves
<1>1. ASSUME NEW c \in Peers, NEW d \in Peers, NEW a \in Places, NEW b \in Places,
             NEW f \in InPlace(c, a)', NEW g \in InPlace(d, b)', f.n = g.n
      PROVE  c = d /\ a = b
  BY <1>1 DEF OnePlace
<1>2. ASSUME NEW c \in Peers, NEW a \in Places, NEW f \in InPlace(c, a)' PROVE Unsent(f)'
  <2>1. CASE f \in InPlace(c, a) /\ f.n # n
    <3>1. Unsent(f)
      BY <2>1 DEF NotYetDown
    <3>2. GoodFrame(f)' /\ f.n \in 1..Len(due')
      BY <3>1 DEF Unsent, GoodFrame
    <3>3. \A q \in Peers : ~Waits(f.n, q)'
      BY <2>1, <3>1 DEF Unsent
    <3> QED BY <3>2, <3>3 DEF Unsent
  <2> QED BY <2>1
<1> QED BY <1>1, <1>2 DEF OnePlace, NotYetDown

\* A client to which a step sends nothing, from which it takes nothing, and which
\* keeps its addresses.
LEMMA SameWaits ==
  ASSUME NEW q \in Peers, WaitsFor(q), down'[q] = down[q], ip'[q] = ip[q], mac'[q] = mac[q],
         Len(due) \in Nat, Len(due') \in Nat, Len(due) <= Len(due'),
         \A m \in 1..Len(due) : q \in due'[m].at <=> q \in due[m].at,
         \A m \in 1..Len(due') : m \notin 1..Len(due) => q \notin due'[m].at
  PROVE  WaitsFor(q)'
<1>1. ASSUME NEW k \in 1..Len(down'[q])
      PROVE  /\ down'[q][k].n \in 1..Len(due')
             /\ Takes(q, down[q][k])' <=> q \in due'[down'[q][k].n].at
  <2>1. down[q][k].n \in 1..Len(due) /\ (Takes(q, down[q][k]) <=> q \in due[down[q][k].n].at)
    BY DEF WaitsFor
  <2>2. Takes(q, down[q][k])' <=> Takes(q, down[q][k])
    BY DEF Takes, isARPRequestForIPv4, shouldDeliverIPv4ToTUN
  <2> QED BY <2>1, <2>2
<1>2. ASSUME NEW m \in 1..Len(due'), q \in due'[m].at PROVE Waits(m, q)'
  <2>1. m \in 1..Len(due) /\ q \in due[m].at
    BY <1>2
  <2>2. Waits(m, q)
    BY <2>1 DEF WaitsFor
  <2> QED BY <2>2 DEF Waits
<1>3. \A j, k \in 1..Len(down'[q]) : down'[q][j].n = down'[q][k].n => j = k
  <2>1. \A j, k \in 1..Len(down[q]) : down[q][j].n = down[q][k].n => j = k
    BY DEF WaitsFor
  <2> QED BY <2>1
<1> QED BY <1>1, <1>2, <1>3 DEF WaitsFor

\* What waits for the clients is not touched when new frames are numbered.
LEMMA DownKept ==
  ASSUME Distinct, Downstream, UNCHANGED <<members, ip, mac, down>>,
         Len(due) \in Nat, Len(due') \in Nat, Len(due) <= Len(due'),
         \A m \in 1..Len(due) : due'[m].at = due[m].at,
         \A m \in 1..Len(due') : m \notin 1..Len(due) => due'[m].at = {}
  PROVE  /\ Distinct' /\ Downstream'
         /\ \A q \in Peers, m \in 1..Len(due) : Waits(m, q)' => Waits(m, q)
<1>1. Distinct'
  BY DEF Distinct
<1>2. ASSUME NEW p \in Peers PROVE WaitsFor(p)'
  BY SameWaits DEF Downstream
<1>3. \A q \in Peers, m \in 1..Len(due) : Waits(m, q)' => Waits(m, q)
  BY DEF Waits
<1> QED BY <1>1, <1>2, <1>3 DEF Downstream

\* The next frame for a client is taken exactly if it is due to it.
LEMMA NextIsDue ==
  ASSUME DataType, Downstream, NEW p \in Peers, down[p] # << >>
  PROVE  /\ Head(down[p]).n \in 1..Len(due)
         /\ Takes(p, Head(down[p])) <=> p \in due[Head(down[p]).n].at
<1>1. Len(down[p]) \in Nat \ {0} /\ Head(down[p]) = down[p][1]
  BY HeadTailProperties, LenProperties DEF DataType
<1> QED BY <1>1 DEF Downstream, WaitsFor

\* A client that reads the next frame takes it if the frame is due to it, which it
\* then is no longer.
LEMMA TakenOff ==
  ASSUME DataType, Distinct, Downstream, NEW p \in Peers, p \in members, down[p] # << >>,
         UNCHANGED <<members, ip, mac>>, down' = [down EXCEPT ![p] = Tail(@)],
         Len(due) \in Nat, Len(due') \in Nat, Len(due) <= Len(due'),
         \A m \in 1..Len(due) :
           due'[m].at = IF m = Head(down[p]).n /\ Takes(p, Head(down[p]))
                        THEN due[m].at \ {p} ELSE due[m].at,
         \A m \in 1..Len(due') : m \notin 1..Len(due) => due'[m].at = {}
  PROVE  /\ Distinct' /\ Downstream'
         /\ Takes(p, Head(down[p])) => p \in due[Head(down[p]).n].at
         /\ \A q \in Peers, m \in Nat : Waits(m, q)' => Waits(m, q)
<1> DEFINE s == down[p]
           t == Tail(s)
           f == Head(s)
<1>1. /\ s \in Seq(Frames) /\ Len(s) \in Nat \ {0} /\ f = s[1] /\ f \in Frames
      /\ t \in Seq(Frames) /\ Len(t) = Len(s) - 1
      /\ \A k \in 1..Len(t) : t[k] = s[k + 1]
  BY HeadTailProperties, LenProperties DEF DataType
<1>2. down'[p] = t /\ \A q \in Peers : q # p => down'[q] = down[q]
  BY DEF DataType
<1>3. WaitsFor(p)
  BY DEF Downstream
<1>5. f.n \in 1..Len(due) /\ (Takes(p, f) <=> p \in due[f.n].at)
  BY <1>1, <1>3 DEF WaitsFor
<1>6. \A q \in Peers, m \in 1..Len(due) : q # p => (q \in due'[m].at <=> q \in due[m].at)
  OBVIOUS
<1>7. \A m \in 1..Len(due) : p \in due'[m].at <=> p \in due[m].at /\ m # f.n
  BY <1>5
<1>t. \A k \in 1..Len(t) : k + 1 \in 1..Len(s) /\ k + 1 # 1
  BY <1>1
<1> HIDE DEF s, t, f
<1>8. ASSUME NEW q \in Peers, NEW m \in Nat, Waits(m, q)' PROVE Waits(m, q)
  <2>1. CASE q = p
    <3>1. PICK k \in 1..Len(t) : t[k].n = m
      BY <1>2, <1>8, <2>1 DEF Waits
    <3>2. k + 1 \in 1..Len(s) /\ s[k + 1].n = m
      BY <1>1, <1>t, <3>1
    <3> QED BY <2>1, <3>2 DEF Waits, s
  <2>2. CASE q # p
    BY <1>2, <1>8, <2>2 DEF Waits
  <2> QED BY <2>1, <2>2
<1>9. WaitsFor(p)'
  <2>1. ASSUME NEW k \in 1..Len(down'[p])
        PROVE  /\ down'[p][k].n \in 1..Len(due')
               /\ Takes(p, down[p][k])' <=> p \in due'[down'[p][k].n].at
    <3>0. down'[p] = t /\ k \in 1..Len(t)
      BY <1>2
    <3>1. k + 1 \in 1..Len(s) /\ t[k] = s[k + 1] /\ s[k + 1].n # f.n
      <4>1. 1 \in 1..Len(s) /\ k + 1 \in 1..Len(s) /\ k + 1 # 1 /\ t[k] = s[k + 1]
        BY <1>1, <1>t, <3>0
      <4>2. s[k + 1].n # s[1].n
        BY <1>3, <4>1 DEF WaitsFor, s
      <4> QED BY <1>1, <4>1, <4>2
    <3>2. s[k + 1].n \in 1..Len(due) /\ (Takes(p, s[k + 1]) <=> p \in due[s[k + 1].n].at)
      BY <1>3, <3>1 DEF WaitsFor, s
    <3>3. Takes(p, down[p][k])' <=> Takes(p, s[k + 1])
      BY <1>2, <3>1 DEF Takes, isARPRequestForIPv4, shouldDeliverIPv4ToTUN
    <3>4. t[k].n \in 1..Len(due) /\ t[k].n \in 1..Len(due') /\ t[k].n # f.n
      BY <3>1, <3>2
    <3>5. p \in due'[t[k].n].at <=> p \in due[t[k].n].at
      BY <1>7, <3>4
    <3>6. Takes(p, s[k + 1]) <=> p \in due[t[k].n].at
      BY <3>1, <3>2
    <3> QED BY <3>0, <3>3, <3>4, <3>5, <3>6
  <2>2. ASSUME NEW j \in 1..Len(down'[p]), NEW k \in 1..Len(down'[p]),
               down'[p][j].n = down'[p][k].n
        PROVE  j = k
    <3>1. j + 1 \in 1..Len(s) /\ k + 1 \in 1..Len(s) /\ s[j + 1].n = s[k + 1].n
      BY <1>1, <1>2, <1>t, <2>2
    <3>2. j + 1 = k + 1
      BY <1>3, <3>1 DEF WaitsFor, s
    <3> QED BY <3>2
  <2>3. ASSUME NEW m \in 1..Len(due'), p \in due'[m].at PROVE Waits(m, p)'
    <3>1. m \in 1..Len(due) /\ p \in due[m].at /\ m # f.n
      BY <1>7, <2>3
    <3>2. PICK k \in 1..Len(s) : s[k].n = m
      BY <1>3, <3>1 DEF WaitsFor, Waits, s
    <3>3. k # 1
      BY <1>1, <3>1, <3>2
    <3>4. k - 1 \in 1..Len(t) /\ (k - 1) + 1 = k
      BY <1>1, <3>3
    <3>5. t[k - 1].n = m
      BY <1>1, <3>2, <3>4
    <3> QED BY <1>2, <3>4, <3>5 DEF Waits
  <2> QED BY <2>1, <2>2, <2>3 DEF WaitsFor
<1>10. ASSUME NEW q \in Peers, q # p PROVE WaitsFor(q)'
  BY <1>2, <1>6, <1>10, SameWaits DEF Downstream
<1>11. Distinct'
  BY <1>2 DEF Distinct
<1> QED BY <1>5, <1>8, <1>9, <1>10, <1>11 DEF Downstream, f, s

\* Where a note of due changes.
LEMMA NotesAt ==
  ASSUME NEW d \in Seq(Notes), NEW n \in 1..Len(d), NEW S \in SUBSET Peers,
         NEW e, e = [d EXCEPT ![n].at = S]
  PROVE  /\ Len(e) = Len(d) /\ Len(d) \in Nat
         /\ \A m \in 1..Len(d) : e[m].at = IF m = n THEN S ELSE d[m].at
<1>1. Len(d) \in Nat /\ d \in [1..Len(d) -> Notes]
  BY LenProperties
<1>2. \A m \in 1..Len(d) : e[m] = IF m = n THEN [d[n] EXCEPT !.at = S] ELSE d[m]
  BY <1>1
<1>3. d[n] \in Notes /\ [d[n] EXCEPT !.at = S].at = S
  BY <1>1 DEF Notes
<1>4. e \in Seq(Notes) /\ DOMAIN e = 1..Len(d)
  BY <1>1, NotesType
<1>5. Len(e) = Len(d)
  BY <1>1, <1>4, LenProperties
<1> QED BY <1>1, <1>2, <1>3, <1>5

\* A new note goes to the end.
LEMMA NoteAdded ==
  ASSUME NEW d \in Seq(Notes), NEW k \in Kinds, NEW e, e = Append(d, [kind |-> k, at |-> {}])
  PROVE  /\ Len(d) \in Nat /\ Len(e) = Len(d) + 1
         /\ \A m \in 1..Len(d) : e[m].at = d[m].at
         /\ \A m \in 1..Len(e) : m \notin 1..Len(d) => e[m].at = {}
<1> DEFINE x == [kind |-> k, at |-> {}]
<1>1. x \in Notes /\ x.at = {}
  BY DEF Notes
<1> HIDE DEF x
<1>2. /\ Len(d) \in Nat /\ Len(e) = Len(d) + 1 /\ e[Len(d) + 1] = x
      /\ \A m \in 1..Len(d) : e[m] = d[m]
  BY <1>1, LenProperties, AppendProperties DEF x
<1>3. \A m \in 1..Len(e) : m \notin 1..Len(d) => m = Len(d) + 1
  BY <1>2
<1> QED BY <1>1, <1>2, <1>3

\* A frame that is relayed waits for every client Forward names, and is due to
\* those of them that will take it.
LEMMA Relayed ==
  ASSUME DataType, Distinct, Downstream, NEW p \in Peers, NEW f \in Frames, Unsent(f),
         UNCHANGED <<members, ip, mac>>,
         down' = [q \in Peers |-> IF q \in Targets(p, f) THEN Append(down[q], f) ELSE down[q]],
         Len(due) \in Nat, Len(due') = Len(due),
         \A m \in 1..Len(due) : due'[m].at = IF m = f.n THEN Addressees(p, f) ELSE due[m].at
  PROVE  /\ Distinct' /\ Downstream'
         /\ \A q \in Peers, m \in 1..Len(due) : Waits(m, q)' => Waits(m, q) \/ m = f.n
<1>1. /\ Addressees(p, f) \subseteq Targets(p, f) /\ Targets(p, f) \subseteq Others(p)
      /\ \A q \in Targets(p, f) : Takes(q, f) <=> q \in Addressees(p, f)
  BY ForwardReaches DEF Unsent
<1>2. f.n \in 1..Len(due) /\ \A q \in Peers : ~Waits(f.n, q)
  BY DEF Unsent
<1>3. \A q \in Peers : WaitsFor(q) /\ f.n \notin {down[q][k].n : k \in 1..Len(down[q])}
  BY <1>2 DEF Downstream, Waits
<1>4. ASSUME NEW q \in Peers, q \notin Targets(p, f)
      PROVE  WaitsFor(q)' /\ \A m \in 1..Len(due) : Waits(m, q)' => Waits(m, q)
  <2>1. down'[q] = down[q] /\ q \notin Addressees(p, f)
    BY <1>1, <1>4
  <2>2. q \notin due[f.n].at
    BY <1>2, <1>3 DEF WaitsFor
  <2>3. \A m \in 1..Len(due) : q \in due'[m].at <=> q \in due[m].at
    BY <1>2, <2>1, <2>2
  <2>4. WaitsFor(q)'
    BY <1>3, <2>1, <2>3, SameWaits
  <2> QED BY <2>1, <2>4 DEF Waits
<1>5. ASSUME NEW q \in Peers, q \in Targets(p, f)
      PROVE  WaitsFor(q)' /\ \A m \in 1..Len(due) : Waits(m, q)' => Waits(m, q) \/ m = f.n
  <2> DEFINE s == down[q]
             w == down'[q]
             l == Len(s)
  <2>1. s \in Seq(Frames) /\ l \in Nat /\ w = Append(s, f)
    BY <1>5, LenProperties DEF DataType
  <2>2. /\ Len(w) = l + 1 /\ w[l + 1] = f
        /\ \A k \in 1..l : w[k] = s[k] /\ s[k].n # f.n
    BY <1>3, <2>1, AppendProperties
  <2>3. \A k \in 1..Len(w) : k \in 1..l \/ k = l + 1
    BY <2>1, <2>2
  <2>4. WaitsFor(q)
    BY <1>3
  <2>5. /\ \A k \in 1..l : s[k].n \in 1..Len(due) /\ (Takes(q, s[k]) <=> q \in due[s[k].n].at)
        /\ \A j, k \in 1..l : s[j].n = s[k].n => j = k
        /\ \A m \in 1..Len(due) : q \in due[m].at => \E k \in 1..l : s[k].n = m
    BY <2>4 DEF WaitsFor, Waits
  <2>6. ASSUME NEW k \in 1..Len(down'[q])
        PROVE  /\ down'[q][k].n \in 1..Len(due')
               /\ Takes(q, down[q][k])' <=> q \in due'[down'[q][k].n].at
    <3>1. CASE k \in 1..l
      <4>1. w[k] = s[k] /\ s[k].n \in 1..Len(due) /\ s[k].n # f.n
        BY <2>2, <2>5, <3>1
      <4>2. Takes(q, s[k]) <=> q \in due'[s[k].n].at
        BY <2>5, <3>1, <4>1
      <4>3. Takes(q, down[q][k])' <=> Takes(q, s[k])
        BY <4>1 DEF Takes, isARPRequestForIPv4, shouldDeliverIPv4ToTUN
      <4> QED BY <4>1, <4>2, <4>3
    <3>2. CASE k = l + 1
      <4>1. w[k] = f
        BY <2>2, <3>2
      <4>2. Takes(q, f) <=> q \in due'[f.n].at
        BY <1>1, <1>2, <1>5
      <4>3. Takes(q, down[q][k])' <=> Takes(q, f)
        BY <4>1 DEF Takes, isARPRequestForIPv4, shouldDeliverIPv4ToTUN
      <4> QED BY <1>2, <4>1, <4>2, <4>3
    <3> QED BY <2>3, <3>1, <3>2
  <2> HIDE DEF s, w, l
  <2>7. ASSUME NEW j \in 1..Len(w), NEW k \in 1..Len(w), w[j].n = w[k].n PROVE j = k
    BY <2>2, <2>3, <2>5, <2>7
  <2>8. ASSUME NEW m \in 1..Len(due'), q \in due'[m].at PROVE Waits(m, q)'
    <3>1. \E k \in 1..Len(w) : w[k].n = m
      <4>1. CASE m = f.n
        <5>1. l + 1 \in 1..Len(w)
          BY <2>1, <2>2
        <5> QED BY <2>2, <4>1, <5>1
      <4>2. CASE m # f.n
        <5>1. PICK k \in 1..l : s[k].n = m
          BY <2>5, <2>8, <4>2
        <5>2. k \in 1..Len(w)
          BY <2>1, <2>2
        <5> QED BY <2>2, <5>1, <5>2
      <4> QED BY <4>1, <4>2
    <3> QED BY <3>1 DEF Waits, w
  <2>9. ASSUME NEW m \in 1..Len(due), Waits(m, q)' PROVE Waits(m, q) \/ m = f.n
    <3>1. PICK k \in 1..Len(w) : w[k].n = m
      BY <2>9 DEF Waits, w
    <3> QED BY <2>2, <2>3, <3>1 DEF Waits, s, l
  <2> QED BY <2>6, <2>7, <2>8, <2>9 DEF WaitsFor, w
<1>6. Distinct'
  <2>1. \A q \in Peers \ members : down'[q] = down[q]
    BY <1>1 DEF Others
  <2> QED BY <2>1 DEF Distinct
<1> QED BY <1>4, <1>5, <1>6 DEF Downstream

\* A client that is removed leaves nothing behind.
LEMMA Removed ==
  ASSUME DataType, Distinct, Downstream, NEW p \in Peers, RemovePeer(p), Len(due) \in Nat
  PROVE  /\ Distinct' /\ Downstream' /\ Len(due') = Len(due)
         /\ \A q \in Peers, m \in 1..Len(due) : Waits(m, q)' => Waits(m, q)
<1>1. /\ members' = members \ {p} /\ ip' = ip /\ mac' = mac
      /\ down' = [down EXCEPT ![p] = << >>]
      /\ due' = [n \in 1..Len(due) |-> [due[n] EXCEPT !.at = @ \ {p}]]
  BY DEF RemovePeer
<1>2. down'[p] = << >> /\ \A q \in Peers : q # p => down'[q] = down[q]
  BY <1>1 DEF DataType
<1>3. due' \in [1..Len(due) -> Notes] /\ \A m \in 1..Len(due) : due'[m].at = due[m].at \ {p}
  <2>1. ASSUME NEW m \in 1..Len(due)
        PROVE  /\ [due[m] EXCEPT !.at = @ \ {p}] \in Notes
               /\ [due[m] EXCEPT !.at = @ \ {p}].at = due[m].at \ {p}
    <3>1. due[m] \in Notes
      BY ElementOfSeq DEF DataType
    <3> QED BY <3>1 DEF Notes
  <2> QED BY <1>1, <2>1
<1>4. Len(due') = Len(due)
  <2>1. due' \in Seq(Notes) /\ DOMAIN due' = 1..Len(due)
    BY <1>3
  <2> QED BY <2>1, LenProperties
<1>5. WaitsFor(p)' /\ \A m \in 1..Len(due) : ~Waits(m, p)'
  <2>1. Len(down'[p]) = 0
    BY <1>2, EmptySeq
  <2> QED BY <1>3, <1>4, <2>1 DEF WaitsFor, Waits
<1>6. ASSUME NEW q \in Peers, q # p
      PROVE  WaitsFor(q)' /\ \A m \in 1..Len(due) : Waits(m, q)' => Waits(m, q)
  <2>1. down'[q] = down[q] /\ WaitsFor(q)
    BY <1>2, <1>6 DEF Downstream
  <2>2. \A m \in 1..Len(due) : q \in due'[m].at <=> q \in due[m].at
    BY <1>3, <1>6
  <2>3. WaitsFor(q)'
    <3>1. ip'[q] = ip[q] /\ mac'[q] = mac[q]
      BY <1>1
    <3>2. /\ Len(due') \in Nat /\ Len(due) <= Len(due')
          /\ \A m \in 1..Len(due') : m \notin 1..Len(due) => q \notin due'[m].at
      BY <1>4
    <3> QED BY <2>1, <2>2, <3>1, <3>2, SameWaits
  <2> QED BY <2>1, <2>3 DEF Waits
<1>7. Distinct'
  BY <1>1, <1>2 DEF Distinct
<1> QED BY <1>4, <1>5, <1>6, <1>7 DEF Downstream

\* A client that is back gets addresses of its own, and nothing waits for it.
LEMMA Added ==
  ASSUME DataType, Distinct, Downstream, NEW p \in Peers, NEW i \in IPs, NEW m \in MACs,
         AddPeer(p, i, m), Len(due) \in Nat
  PROVE  Distinct' /\ Downstream'
<1>1. /\ p \notin members /\ \A q \in members : ip[q] # i /\ mac[q] # m
      /\ members' = members \cup {p} /\ down' = down /\ due' = due
      /\ ip' = [ip EXCEPT ![p] = i] /\ mac' = [mac EXCEPT ![p] = m]
  BY DEF AddPeer, history
<1>2. /\ ip'[p] = i /\ mac'[p] = m
      /\ \A q \in Peers : q # p => ip'[q] = ip[q] /\ mac'[q] = mac[q]
  BY <1>1 DEF DataType
<1>3. Distinct'
  <2>1. members \subseteq Peers
    BY DEF DataType
  <2> QED BY <1>1, <1>2, <2>1 DEF Distinct
<1>4. WaitsFor(p)'
  <2>1. Len(down[p]) = 0 /\ WaitsFor(p)
    BY <1>1, EmptySeq DEF Distinct, Downstream
  <2>2. \A n \in 1..Len(due) : p \notin due[n].at
    BY <2>1 DEF WaitsFor, Waits
  <2> QED BY <1>1, <2>1, <2>2 DEF WaitsFor
<1>5. ASSUME NEW q \in Peers, q # p PROVE WaitsFor(q)'
  BY <1>1, <1>2, <1>5, SameWaits DEF Downstream
<1> QED BY <1>3, <1>4, <1>5 DEF Downstream

\* Steps that take frames from their places, or none.
LEMMA Fewer ==
  ASSUME OnePlace, NotYetDown, Len(due) \in Nat, Len(due') \in Nat, Len(due) <= Len(due'),
         \A c \in Peers, a \in Places : \A f \in InPlace(c, a)' : f \in InPlace(c, a),
         \A q \in Peers, m \in 1..Len(due) : Waits(m, q)' => Waits(m, q)
  PROVE  OnePlace' /\ NotYetDown'
<1>1. OnePlace'
  BY DEF OnePlace
<1>2. ASSUME NEW c \in Peers, NEW a \in Places, NEW f \in InPlace(c, a)' PROVE Unsent(f)'
  <2>1. Unsent(f)
    BY DEF NotYetDown
  <2>2. GoodFrame(f)' /\ f.n \in 1..Len(due')
    BY <2>1 DEF Unsent, GoodFrame
  <2>3. \A q \in Peers : ~Waits(f.n, q)'
    BY <2>1 DEF Unsent
  <2> QED BY <2>2, <2>3 DEF Unsent
<1> QED BY <1>1, <1>2 DEF NotYetDown

\* Steps that do not touch the streams.
LEMMA UpKept ==
  ASSUME Upstream, UNCHANGED <<up, mu, writing, handling>>,
         Len(due) \in Nat, Len(due') \in Nat, Len(due) <= Len(due'),
         \A q \in Peers, m \in 1..Len(due) : Waits(m, q)' => Waits(m, q)
  PROVE  Upstream'
<1>1. \A c \in Peers, a \in Places : \A f \in InPlace(c, a)' : f \in InPlace(c, a)
  BY DEF InPlace, Headers
<1>2. OneHeader'
  BY DEF Upstream, OneHeader, Headers
<1> QED BY <1>1, <1>2, Fewer DEF Upstream

\* A goroutine has a new frame, with the next number.
LEMMA UpSend ==
  ASSUME Upstream, WireType, Clients = Peers, NEW p \in Peers, NEW g \in Goroutines,
         NEW f0, GoodFrame(f0), f0.n = Len(due) + 1,
         writing' = [writing EXCEPT ![p][g] = f0], UNCHANGED <<up, mu, handling>>,
         Len(due) \in Nat, Len(due') = Len(due) + 1, Downstream,
         \A q \in Peers, m \in Nat : Waits(m, q)' => Waits(m, q)
  PROVE  Upstream'
<1>1. ASSUME NEW c \in Peers, NEW a \in Places, NEW f \in InPlace(c, a)'
      PROVE  (f \in InPlace(c, a) /\ f.n # Len(due) + 1) \/ (c = p /\ a = g /\ f = f0)
  <2>1. CASE c = p /\ a = g
    <3>1. writing'[p][g] = f0 /\ a # "stream" /\ a # "hand"
      BY <2>1 DEF WireType, Goroutines
    <3> QED BY <1>1, <2>1, <3>1 DEF InPlace
  <2>2. CASE ~(c = p /\ a = g)
    <3>1. a \in Goroutines => writing'[c][a] = writing[c][a]
      BY <2>2 DEF WireType
    <3>2. f \in InPlace(c, a)
      BY <1>1, <3>1 DEF InPlace, Headers, Places
    <3>3. f.n \in 1..Len(due)
      BY <3>2 DEF Upstream, NotYetDown, Unsent
    <3> QED BY <3>2, <3>3
  <2> QED BY <2>1, <2>2
<1>2. Unsent(f0)'
  <2>1. \A q \in Peers : ~Waits(f0.n, q)'
    <3>1. ASSUME NEW q \in Peers, NEW k \in 1..Len(down[q]) PROVE down[q][k].n # Len(due) + 1
      BY DEF Downstream, WaitsFor
    <3>2. \A q \in Peers : ~Waits(f0.n, q)
      BY <3>1 DEF Waits
    <3> QED BY <3>2
  <2>2. GoodFrame(f0)' /\ f0.n \in 1..Len(due')
    BY DEF GoodFrame
  <2> QED BY <2>1, <2>2 DEF Unsent
<1>3. \A c \in Peers, a \in Places : \A f \in InPlace(c, a)' :
        \/ f \in InPlace(c, a) /\ f.n # Len(due) + 1
        \/ c = p /\ a = g /\ f.n = Len(due) + 1 /\ Unsent(f)'
  BY <1>1, <1>2
<1>4. OnePlace' /\ NotYetDown'
  <2>1. \A q \in Peers, m \in 1..Len(due) : Waits(m, q)' => Waits(m, q)
    OBVIOUS
  <2>2. Len(due') \in Nat /\ Len(due) <= Len(due')
    OBVIOUS
  <2>3. PICK n : n = Len(due) + 1
    OBVIOUS
  <2>4. Moves(n, p, g)
    BY <1>3, <2>1, <2>3 DEF Moves
  <2> QED BY <2>2, <2>4, Moved DEF Upstream
<1>5. OneHeader'
  BY DEF Upstream, OneHeader, Headers
<1> QED BY <1>4, <1>5 DEF Upstream

\* A frame's header is in the stream.
LEMMA UpHeader ==
  ASSUME Upstream, WireType, Clients = Peers, NEW p \in Peers, NEW g \in Goroutines,
         WriteHeader(p, g), UNCHANGED <<handling, due, down>>, Len(due) \in Nat
  PROVE  Upstream'
<1> DEFINE f0 == writing[p][g]
           s == up[p]
           l == Len(s)
           x == Piece("header", f0)
<1>1. /\ f0 # Nobody /\ f0 \in Frames /\ mu[p] = Nobody /\ mu[p] # g
      /\ up' = [up EXCEPT ![p] = Append(s, x)] /\ mu' = [mu EXCEPT ![p] = g]
      /\ writing' = writing
  BY WireAssumption DEF WriteHeader, WireType
<1>2. x \in Pieces /\ x.part = "header" /\ x.frame = f0
  BY <1>1 DEF Piece, Pieces
<1> HIDE DEF x
<1>3. /\ s \in Seq(Pieces) /\ l \in Nat /\ Len(up'[p]) = l + 1 /\ up'[p][l + 1] = x
      /\ \A k \in 1..l : up'[p][k] = s[k]
  BY <1>1, <1>2, LenProperties, AppendProperties DEF WireType
<1>4. \A k \in Headers(p)' : (k \in Headers(p) /\ up'[p][k] = s[k]) \/ (k = l + 1)
  <2>1. \A k \in 1..l + 1 : k \in 1..l \/ k = l + 1
    BY <1>3
  <2> QED BY <1>3, <2>1 DEF Headers
<1>5. f0 \in InPlace(p, g) /\ g \in Places /\ "stream" \in Places /\ g # "stream" /\ g # "hand"
  BY <1>1 DEF InPlace, Places, Goroutines
<1>6. \A c \in Peers : c # p => up'[c] = up[c] /\ mu'[c] = mu[c]
  BY <1>1 DEF WireType
<1>7. mu'[p] = g
  BY <1>1 DEF WireType
<1> HIDE DEF f0, s, l
<1>8. ASSUME NEW c \in Peers, NEW a \in Places, NEW f \in InPlace(c, a)'
      PROVE  \/ f \in InPlace(c, a) /\ ~(c = p /\ a = g)
             \/ c = p /\ a = "stream" /\ f = f0
  <2>1. CASE c # p
    BY <1>1, <1>6, <1>8, <2>1 DEF InPlace, Headers
  <2>2. CASE c = p /\ a = "stream"
    <3>1. PICK k \in Headers(p)' : f = up'[p][k].frame
      BY <1>8, <2>2 DEF InPlace
    <3>2. CASE k = l + 1
      BY <1>2, <1>3, <2>2, <3>1, <3>2
    <3>3. CASE k \in Headers(p) /\ up'[p][k] = s[k]
      BY <1>5, <2>2, <3>1, <3>3 DEF InPlace, s
    <3> QED BY <1>4, <3>1, <3>2, <3>3
  <2>3. CASE c = p /\ a = "hand"
    BY <1>5, <1>8, <2>3 DEF InPlace
  <2>4. CASE c = p /\ a \in Goroutines
    <3>1. a # "stream" /\ a # "hand" /\ mu[p] # a
      BY <1>1, <2>4, WireAssumption DEF Goroutines
    <3>2. a # g
      BY <1>7, <1>8, <2>4, <3>1 DEF InPlace
    <3> QED BY <1>1, <1>8, <2>4, <3>1, <3>2 DEF InPlace
  <2> QED BY <2>1, <2>2, <2>3, <2>4 DEF Places
<1>9. Unsent(f0) /\ f0.n \in 1..Len(due)
  BY <1>5 DEF Upstream, NotYetDown, Unsent
<1>10. ASSUME NEW f, f = f0 PROVE Unsent(f)'
  BY <1>9, <1>10 DEF Unsent, GoodFrame, Waits
<1>11. \A c \in Peers, a \in Places : \A f \in InPlace(c, a)' :
         \/ f \in InPlace(c, a) /\ f.n # f0.n
         \/ c = p /\ a = "stream" /\ f.n = f0.n /\ Unsent(f)'
  <2>1. ASSUME NEW c \in Peers, NEW a \in Places, NEW f \in InPlace(c, a), ~(c = p /\ a = g)
        PROVE  f.n # f0.n
    BY <1>5, <2>1 DEF Upstream, OnePlace
  <2> QED BY <1>8, <1>10, <2>1
<1>12. OnePlace' /\ NotYetDown'
  <2>1. \A q \in Peers, m \in 1..Len(due) : Waits(m, q)' => Waits(m, q)
    BY DEF Waits
  <2>2. Len(due') \in Nat /\ Len(due) <= Len(due')
    OBVIOUS
  <2>3. PICK n : n = f0.n
    OBVIOUS
  <2>4. Moves(n, p, "stream")
    BY <1>11, <2>1, <2>3 DEF Moves
  <2> QED BY <2>2, <2>4, Moved DEF Upstream
<1>13. OneHeader'
  <2>1. ASSUME NEW j \in Headers(p)', NEW k \in Headers(p)',
               up'[p][j].frame.n = up'[p][k].frame.n
        PROVE  j = k
    <3>1. \A i \in Headers(p) : s[i].frame.n # f0.n
      <4>1. \A i \in Headers(p) : s[i].frame \in InPlace(p, "stream")
        BY DEF InPlace, s
      <4> QED BY <1>5, <4>1 DEF Upstream, OnePlace
    <3>2. \A i, h \in Headers(p) : s[i].frame.n = s[h].frame.n => i = h
      BY DEF Upstream, OneHeader, s
    <3> QED BY <1>2, <1>3, <1>4, <2>1, <3>1, <3>2
  <2>2. ASSUME NEW c \in Peers, c # p, NEW j \in Headers(c)', NEW k \in Headers(c)',
               up'[c][j].frame.n = up'[c][k].frame.n
        PROVE  j = k
    BY <1>6, <2>2 DEF Upstream, OneHeader, Headers
  <2> QED BY <2>1, <2>2 DEF OneHeader
<1> QED BY <1>12, <1>13 DEF Upstream

\* A payload follows its header, and the mutex is free again.
LEMMA UpPayload ==
  ASSUME Upstream, WireType, Clients = Peers, NEW p \in Peers, NEW g \in Goroutines,
         WritePayload(p, g), UNCHANGED <<handling, due, down>>, Len(due) \in Nat
  PROVE  Upstream'
<1> DEFINE f0 == writing[p][g]
           s == up[p]
           l == Len(s)
           x == Piece("payload", f0)
<1>1. /\ f0 # Nobody /\ f0 \in Frames /\ mu[p] = g
      /\ up' = [up EXCEPT ![p] = Append(s, x)] /\ mu' = [mu EXCEPT ![p] = Nobody]
      /\ writing' = [writing EXCEPT ![p][g] = Nobody]
  BY DEF WritePayload, WireType
<1>2. x \in Pieces /\ x.part # "header"
  BY <1>1 DEF Piece, Pieces
<1> HIDE DEF x
<1>3. /\ s \in Seq(Pieces) /\ l \in Nat /\ Len(up'[p]) = l + 1 /\ up'[p][l + 1] = x
      /\ \A k \in 1..l : up'[p][k] = s[k]
  BY <1>1, <1>2, LenProperties, AppendProperties DEF WireType
<1>4. \A k \in Headers(p)' : k \in Headers(p) /\ up'[p][k] = s[k]
  <2>1. \A k \in 1..l + 1 : k \in 1..l \/ k = l + 1
    BY <1>3
  <2> QED BY <1>2, <1>3, <2>1 DEF Headers
<1>5. /\ \A c \in Peers : c # p => up'[c] = up[c] /\ mu'[c] = mu[c] /\ writing'[c] = writing[c]
      /\ writing'[p][g] = Nobody
      /\ \A a \in Goroutines : a # g => writing'[p][a] = writing[p][a]
  BY <1>1 DEF WireType
<1> HIDE DEF f0, s, l
<1>6. ASSUME NEW c \in Peers, NEW a \in Places, NEW f \in InPlace(c, a)' PROVE f \in InPlace(c, a)
  <2>1. CASE c # p
    BY <1>5, <1>6, <2>1 DEF InPlace, Headers
  <2>2. CASE c = p /\ a = "stream"
    BY <1>4, <1>6, <2>2 DEF InPlace, s
  <2>3. CASE c = p /\ a = "hand"
    BY <1>6, <2>3 DEF InPlace
  <2>4. CASE c = p /\ a \in Goroutines
    <3>1. a # "stream" /\ a # "hand"
      BY <2>4 DEF Goroutines
    <3>2. a # g
      BY <1>5, <1>6, <2>4, <3>1 DEF InPlace
    <3> QED BY <1>1, <1>5, <1>6, <2>4, <3>1, <3>2 DEF InPlace
  <2> QED BY <2>1, <2>2, <2>3, <2>4 DEF Places
<1>7. OnePlace' /\ NotYetDown'
  <2>1. \A q \in Peers, m \in 1..Len(due) : Waits(m, q)' => Waits(m, q)
    BY DEF Waits
  <2>2. Len(due') \in Nat /\ Len(due) <= Len(due')
    OBVIOUS
  <2> QED BY <1>6, <2>1, <2>2, Fewer DEF Upstream
<1>8. ASSUME NEW c \in Peers, NEW j \in Headers(c)', NEW k \in Headers(c)',
             up'[c][j].frame.n = up'[c][k].frame.n
      PROVE  j = k
  <2>1. CASE c # p
    BY <1>5, <1>8, <2>1 DEF Upstream, OneHeader, Headers
  <2>2. CASE c = p
    BY <1>4, <1>8, <2>2 DEF Upstream, OneHeader, s
  <2> QED BY <2>1, <2>2
<1> QED BY <1>7, <1>8 DEF Upstream, OneHeader

\* A frame that is too large goes nowhere.
LEMMA UpTooLarge ==
  ASSUME Upstream, WireType, Clients = Peers, NEW p \in Peers, NEW g \in Goroutines,
         WriteTooLarge(p, g), UNCHANGED <<handling, due, down>>, Len(due) \in Nat
  PROVE  Upstream'
<1>1. /\ up' = up /\ mu' = mu
      /\ \A c \in Peers, a \in Goroutines : writing'[c][a] \in {writing[c][a], Nobody}
  BY DEF WriteTooLarge, WireType
<1>2. ASSUME NEW c \in Peers, NEW a \in Places, NEW f \in InPlace(c, a)' PROVE f \in InPlace(c, a)
  BY <1>1, <1>2 DEF InPlace, Headers, Places
<1>3. \A q \in Peers, m \in 1..Len(due) : Waits(m, q)' => Waits(m, q)
  BY DEF Waits
<1>4. OneHeader'
  BY <1>1 DEF Upstream, OneHeader, Headers
<1> QED BY <1>2, <1>3, <1>4, Fewer DEF Upstream

\* The handler has the first frame of the stream.
LEMMA UpRead ==
  ASSUME Upstream, WireType, DataType, Clients = Peers, NEW p \in Peers,
         ReadFrame(p), Len(due) \in Nat
  PROVE  Upstream'
<1> DEFINE s == up[p]
           t == Tail(Tail(s))
           l == Len(s)
           f0 == s[1].frame
<1>1. /\ handling[p] = Nobody /\ l >= 2 /\ s[1].part = "header"
      /\ up' = [up EXCEPT ![p] = t] /\ handling' = [handling EXCEPT ![p] = f0]
      /\ UNCHANGED <<mu, writing, down, due>>
  BY DEF ReadFrame, ReadMessage, Readable, Whole, history
<1>2. /\ s \in Seq(Pieces) /\ l \in Nat /\ Tail(s) \in Seq(Pieces) /\ Len(Tail(s)) = l - 1
      /\ \A k \in 1..l - 1 : Tail(s)[k] = s[k + 1]
  <2>1. s \in Seq(Pieces) /\ l \in Nat
    BY LenProperties DEF WireType
  <2>2. s # << >>
    BY <1>1, <2>1, EmptySeq
  <2> QED BY <1>1, <2>1, <2>2, HeadTailProperties
<1>3. Len(t) = l - 2 /\ \A k \in 1..l - 2 : t[k] = s[k + 2]
  <2>1. Tail(s) # << >>
    <3>1. Len(Tail(s)) # 0
      <4> HIDE DEF s, l
      <4>1. l - 1 # 0
        BY <1>1, <1>2
      <4> QED BY <1>2, <4>1
    <3>2. Len(<< >>) = 0
      OBVIOUS
    <3> QED BY <3>1, <3>2
  <2>2. Len(t) = l - 2 /\ \A k \in 1..l - 2 : t[k] = Tail(s)[k + 1]
    BY <1>1, <1>2, <2>1, HeadTailProperties
  <2>3. \A k \in 1..l - 2 : k + 1 \in 1..l - 1 /\ (k + 1) + 1 = k + 2
    BY <1>2
  <2>4. ASSUME NEW k \in 1..l - 2 PROVE Tail(s)[k + 1] = s[k + 2]
    <3>1. k + 1 \in 1..l - 1 /\ (k + 1) + 1 = k + 2
      BY <2>3
    <3>2. Tail(s)[k + 1] = s[(k + 1) + 1]
      BY <1>2, <3>1
    <3> QED BY <3>1, <3>2
  <2> QED BY <2>2, <2>4
<1>4. /\ up'[p] = t /\ handling'[p] = f0
      /\ \A c \in Peers : c # p => up'[c] = up[c] /\ handling'[c] = handling[c]
  BY <1>1 DEF WireType, DataType
<1> HIDE DEF t
<1>5. 1 \in Headers(p) /\ f0 \in InPlace(p, "stream") /\ "stream" \in Places
  <2>1. 1 \in Headers(p)
    BY <1>1, <1>2 DEF Headers
  <2> QED BY <2>1 DEF InPlace, Places
<1>6. \A k \in Headers(p)' : k + 2 \in Headers(p) /\ k + 2 # 1 /\ up'[p][k] = s[k + 2]
  <2>1. \A k \in 1..l - 2 : k + 2 \in 1..l /\ k + 2 # 1
    BY <1>2
  <2> QED BY <1>3, <1>4, <2>1 DEF Headers
<1>7. \A i, k \in Headers(p) : s[i].frame.n = s[k].frame.n => i = k
  BY DEF Upstream, OneHeader
<1> HIDE DEF f0, s, l
<1>8. ASSUME NEW c \in Peers, NEW a \in Places, NEW f \in InPlace(c, a)'
      PROVE  (f \in InPlace(c, a) /\ f.n # f0.n) \/ (c = p /\ a = "hand" /\ f = f0)
  <2>1. CASE c = p /\ a = "hand"
    BY <1>4, <1>8, <2>1 DEF InPlace
  <2>2. CASE c = p /\ a = "stream"
    <3>1. PICK k \in Headers(p)' : f = up'[p][k].frame
      BY <1>8, <2>2 DEF InPlace
    <3>2. f = s[k + 2].frame /\ k + 2 \in Headers(p) /\ k + 2 # 1
      BY <1>6, <3>1
    <3>3. f.n # f0.n
      BY <1>5, <1>7, <3>2 DEF f0
    <3> QED BY <2>2, <3>2, <3>3 DEF InPlace, s
  <2>3. CASE ~(c = p /\ a \in {"hand", "stream"})
    <3>1. f \in InPlace(c, a)
      BY <1>1, <1>4, <1>8, <2>3 DEF InPlace, Headers
    <3> QED BY <1>5, <2>3, <3>1 DEF Upstream, OnePlace
  <2> QED BY <2>1, <2>2, <2>3
<1>9. Unsent(f0)
  BY <1>5 DEF Upstream, NotYetDown
<1>10. ASSUME NEW f, f = f0 PROVE Unsent(f)'
  BY <1>1, <1>9, <1>10 DEF Unsent, GoodFrame, Waits
<1>11. OnePlace' /\ NotYetDown'
  <2>1. \A q \in Peers, m \in 1..Len(due) : Waits(m, q)' => Waits(m, q)
    BY <1>1 DEF Waits
  <2>2. Len(due') \in Nat /\ Len(due) <= Len(due')
    BY <1>1
  <2>3. PICK n : n = f0.n
    OBVIOUS
  <2>4. Moves(n, p, "hand")
    BY <1>8, <1>10, <2>1, <2>3 DEF Moves
  <2> QED BY <2>2, <2>4, Moved DEF Upstream
<1>12. ASSUME NEW c \in Peers, NEW j \in Headers(c)', NEW k \in Headers(c)',
              up'[c][j].frame.n = up'[c][k].frame.n
       PROVE  j = k
  <2>1. CASE c # p
    BY <1>4, <1>12, <2>1 DEF Upstream, OneHeader, Headers
  <2>2. CASE c = p
    <3>1. j + 2 = k + 2
      BY <1>6, <1>7, <1>12, <2>2
    <3>2. j \in Int /\ k \in Int
      BY DEF Headers
    <3> QED BY <3>1, <3>2
  <2> QED BY <2>1, <2>2
<1> QED BY <1>11, <1>12 DEF Upstream, OneHeader

\* The handler is done with its frame, which waits for others from now on or is gone.
LEMMA UpRelay ==
  ASSUME Upstream, DataType, NEW p \in Peers, handling[p] # Nobody,
         handling' = [handling EXCEPT ![p] = Nobody], UNCHANGED <<up, mu, writing>>,
         Len(due) \in Nat, Len(due') = Len(due),
         \A q \in Peers, m \in 1..Len(due) : Waits(m, q)' => Waits(m, q) \/ m = handling[p].n
  PROVE  Upstream'
<1>1. handling[p] \in InPlace(p, "hand") /\ "hand" \in Places
  BY DEF InPlace, Places
<1>2. handling'[p] = Nobody /\ \A c \in Peers : c # p => handling'[c] = handling[c]
  BY DEF DataType
<1>3. ASSUME NEW c \in Peers, NEW a \in Places, NEW f \in InPlace(c, a)'
      PROVE  f \in InPlace(c, a) /\ f.n # handling[p].n
  <2>1. ~(c = p /\ a = "hand")
    BY <1>2, <1>3 DEF InPlace
  <2>2. f \in InPlace(c, a)
    BY <1>2, <1>3, <2>1 DEF InPlace, Headers
  <2> QED BY <1>1, <2>1, <2>2 DEF Upstream, OnePlace
<1>4. PICK n : n = handling[p].n
  OBVIOUS
<1>5. Moves(n, p, "hand")
  BY <1>3, <1>4 DEF Moves
<1>6. OneHeader'
  BY DEF Upstream, OneHeader, Headers
<1> QED BY <1>5, <1>6, Moved DEF Upstream

\* The stream of a client is gone with it.
LEMMA UpRemove ==
  ASSUME Upstream, WireType, Clients = Peers, NEW p \in Peers, RemovePeer(p),
         Len(due) \in Nat, Len(due') = Len(due),
         \A q \in Peers, m \in 1..Len(due) : Waits(m, q)' => Waits(m, q)
  PROVE  Upstream'
<1>1. /\ handling' = handling /\ up'[p] = << >>
      /\ \A c \in Peers : c # p => up'[c] = up[c] /\ mu'[c] = mu[c] /\ writing'[c] = writing[c]
      /\ \A a \in Goroutines : writing'[p][a] = Nobody
  BY DEF RemovePeer, ResetWire, NoWrites, WireType
<1>2. Headers(p)' = {}
  BY <1>1, EmptySeq DEF Headers
<1>3. ASSUME NEW c \in Peers, NEW a \in Places, NEW f \in InPlace(c, a)' PROVE f \in InPlace(c, a)
  <2>1. CASE c # p
    BY <1>1, <1>3, <2>1 DEF InPlace, Headers
  <2>2. CASE c = p
    BY <1>1, <1>2, <1>3, <2>2 DEF InPlace, Places
  <2> QED BY <2>1, <2>2
<1>4. ASSUME NEW c \in Peers, NEW j \in Headers(c)', NEW k \in Headers(c)',
             up'[c][j].frame.n = up'[c][k].frame.n
      PROVE  j = k
  <2>1. c # p
    BY <1>2, <1>4
  <2> QED BY <1>1, <1>4, <2>1 DEF Upstream, OneHeader, Headers
<1> QED BY <1>3, <1>4, Fewer DEF Upstream, OneHeader

\* Nothing is on its way at first, and the clients' first addresses are distinct.
LEMMA WayInitInv == Init => WayInv
<1> SUFFICES ASSUME Init PROVE WayInv
  OBVIOUS
<1>1. /\ \A p \in Peers : up[p] = << >> /\ down[p] = << >> /\ handling[p] = Nobody
      /\ \A p \in Peers, g \in Goroutines : writing[p][g] = Nobody
      /\ due = << >> /\ stray = {} /\ members = Peers /\ ip = HomeIP /\ mac = HomeMAC
  BY DataPathAssumption DEF Init, WireInit, NoWrites
<1>2. Len(<< >>) = 0
  OBVIOUS
<1>3. \A p \in Peers : Headers(p) = {}
  BY <1>1, <1>2 DEF Headers
<1>4. \A p \in Peers, a \in Places : InPlace(p, a) = {}
  BY <1>1, <1>3 DEF InPlace, Places
<1>5. Upstream
  BY <1>3, <1>4 DEF Upstream, OnePlace, OneHeader, NotYetDown
<1>6. Distinct
  BY <1>1, DataPathAssumption DEF Distinct
<1>7. Downstream
  BY <1>1, <1>2 DEF Downstream, WaitsFor
<1> QED BY <1>1, <1>5, <1>6, <1>7 DEF WayInv

\* A client sends a new frame.
LEMMA WaySend ==
  ASSUME WayInv, DataInv, DataType', NEW p \in Peers, NEW g \in Goroutines, NEW f0,
         GoodFrame(f0), f0.n = Len(due) + 1, NEW k \in Kinds,
         CallWriteFrame(p, g, f0), due' = Append(due, [kind |-> k, at |-> {}]),
         UNCHANGED <<up, mu, handling, members, ip, mac, down, stray>>
  PROVE  WayInv'
<1>1. WireType /\ Clients = Peers /\ due \in Seq(Notes)
  BY DataPathAssumption DEF DataInv, WireInv, DataType
<1>2. /\ Len(due) \in Nat /\ Len(due') = Len(due) + 1
      /\ \A m \in 1..Len(due) : due'[m].at = due[m].at
      /\ \A m \in 1..Len(due') : m \notin 1..Len(due) => due'[m].at = {}
  BY <1>1, NoteAdded
<1>3. Distinct' /\ Downstream'
  BY <1>2, DownKept DEF WayInv
<1>4. Upstream'
  <2>1. \A q \in Peers, m \in Nat : Waits(m, q)' => Waits(m, q)
    BY DEF Waits
  <2> QED BY <1>1, <1>2, <2>1, UpSend DEF WayInv, CallWriteFrame
<1> QED BY <1>3, <1>4 DEF WayInv

\* Steps that change nothing of the frames and the members.
LEMMA WayKept ==
  ASSUME WayInv, DataInv,
         UNCHANGED <<up, mu, writing, handling, members, ip, mac, down, due, stray>>
  PROVE  WayInv'
<1>1. Len(due) \in Nat
  BY LenProperties DEF DataInv, DataType
<1>2. Distinct' /\ Downstream' /\ \A q \in Peers, m \in 1..Len(due) : Waits(m, q)' => Waits(m, q)
  BY <1>1, DownKept DEF WayInv
<1>3. Upstream'
  BY <1>1, <1>2, UpKept DEF WayInv
<1> QED BY <1>2, <1>3 DEF WayInv

\* Every step of the data path keeps the invariant.
LEMMA WayStep == WayInv /\ DataInv /\ DataInv' /\ [Next]_vars => WayInv'
<1> SUFFICES ASSUME WayInv, DataInv, DataInv', [Next]_vars PROVE WayInv'
  OBVIOUS
<1>0. /\ WireType /\ DataType /\ DataType' /\ Clients = Peers
      /\ due \in Seq(Notes) /\ Len(due) \in Nat
      /\ Upstream /\ Distinct /\ Downstream /\ stray = {}
  BY DataPathAssumption, LenProperties DEF DataInv, WireInv, DataType, WayInv
<1>1. CASE UNCHANGED vars
  BY <1>1, WayKept DEF vars, wireVars, roomVars, history
<1>2. CASE TimePasses \/ Switch
  BY <1>2, WayKept DEF TimePasses, Switch, wireVars, roomVars, history
<1>3. ASSUME NEW p \in Peers, NEW i \in IPs \cup {Group}, NEW s \in left.sizes,
             ReadIPAsEthernet(p, i, s)
      PROVE  WayInv'
  <2>1. PICK f0 : f0 = Frame("ip", mac[p], DestinationMAC(p, i), i, s + HeaderSize)
    OBVIOUS
  <2>2. f0.n = Len(due) + 1 /\ f0.kind = "ip" /\ f0.to = i /\ f0.dst = DestinationMAC(p, i)
    BY <2>1 DEF Frame
  <2>3. GoodFrame(f0)
    BY <2>2, DataPathAssumption DEF GoodFrame, DestinationMAC
  <2>4. /\ CallWriteFrame(p, "tx", f0) /\ due' = Append(due, [kind |-> "ip", at |-> {}])
        /\ UNCHANGED <<up, mu, handling, members, ip, mac, down, stray>>
    BY <1>3, <2>1, <2>2 DEF ReadIPAsEthernet, SendFrame, roomVars
  <2> QED BY <1>0, <2>2, <2>3, <2>4, WaySend DEF Kinds, Goroutines
<1>4a. ASSUME NEW p \in Peers, NEW i \in IPs \cup {Group}, NEW s \in left.sizes,
              NEW m \in MACs \cup {BroadcastMAC}, ReadTAPPacket(p, i, m, s)
       PROVE  WayInv'
  <2>1. PICK f0 : f0 = Frame("ip", mac[p], m, i, s + HeaderSize)
    OBVIOUS
  <2>2. f0.n = Len(due) + 1 /\ f0.kind = "ip" /\ f0.to = i /\ f0.dst = m
    BY <2>1 DEF Frame
  <2>3. GoodFrame(f0)
    BY <1>4a, <2>2 DEF GoodFrame, ReadTAPPacket
  <2>4. /\ CallWriteFrame(p, "tx", f0) /\ due' = Append(due, [kind |-> "ip", at |-> {}])
        /\ UNCHANGED <<up, mu, handling, members, ip, mac, down, stray>>
    BY <1>4a, <2>1, <2>2 DEF ReadTAPPacket, SendFrame, roomVars
  <2> QED BY <1>0, <2>2, <2>3, <2>4, WaySend DEF Kinds, Goroutines
<1>4. ASSUME NEW p \in Peers, NEW i \in IPs, ReadTAP(p, i) PROVE WayInv'
  <2>1. PICK f0 : f0 = Frame("arp", mac[p], BroadcastMAC, i, ARPSize)
    OBVIOUS
  <2>2. f0.n = Len(due) + 1 /\ f0.kind = "arp" /\ f0.dst = BroadcastMAC
    BY <2>1 DEF Frame
  <2>3. GoodFrame(f0)
    BY <2>2 DEF GoodFrame
  <2>4. /\ CallWriteFrame(p, "tx", f0) /\ due' = Append(due, [kind |-> "arp", at |-> {}])
        /\ UNCHANGED <<up, mu, handling, members, ip, mac, down, stray>>
    BY <1>4, <2>1, <2>2 DEF ReadTAP, SendFrame, roomVars
  <2> QED BY <1>0, <2>2, <2>3, <2>4, WaySend DEF Kinds, Goroutines
<1>5. ASSUME NEW p \in Peers, NEW g \in Goroutines, WriteStep(p, g) PROVE WayInv'
  <2>1. UNCHANGED <<handling, members, ip, mac, down, due, stray>>
    BY <1>5 DEF WriteStep, roomVars, history
  <2>2. Distinct' /\ Downstream'
    BY <1>0, <2>1, DownKept
  <2>3. Upstream'
    BY <1>0, <1>5, <2>1, UpHeader, UpPayload, UpTooLarge DEF WriteStep
  <2> QED BY <1>0, <2>1, <2>2, <2>3 DEF WayInv
<1>6. ASSUME NEW p \in Peers, Deliver(p) PROVE WayInv'
  <2> DEFINE f == Head(down[p])
  <2>1. /\ p \in members /\ down[p] # << >> /\ down' = [down EXCEPT ![p] = Tail(@)]
        /\ UNCHANGED <<up, mu, writing, handling, members, ip, mac>>
    BY <1>6 DEF Deliver, wireVars, roomVars
  <2>2. f.n \in 1..Len(due) /\ (Takes(p, f) <=> p \in due[f.n].at)
    BY <1>0, <2>1, NextIsDue
  <2>3. /\ Len(due') = Len(due) /\ stray' = {}
        /\ \A m \in 1..Len(due) :
             due'[m].at = IF m = f.n /\ Takes(p, f) THEN due[m].at \ {p} ELSE due[m].at
    <3>1. CASE Takes(p, f)
      <4>1. /\ stray' = IF p \in due[f.n].at THEN stray ELSE stray \cup {f.kind}
            /\ due' = [due EXCEPT ![f.n].at = due[f.n].at \ {p}]
        BY <1>6, <3>1 DEF Deliver, Note
      <4>2. due[f.n].at \ {p} \in SUBSET Peers
        <5>1. due[f.n] \in Notes
          BY <1>0, <2>2, ElementOfSeq
        <5> QED BY <5>1 DEF Notes
      <4>3. /\ Len(due') = Len(due)
            /\ \A m \in 1..Len(due) :
                 due'[m].at = IF m = f.n THEN due[f.n].at \ {p} ELSE due[m].at
        BY <1>0, <2>2, <4>1, <4>2, NotesAt
      <4> QED BY <1>0, <2>2, <3>1, <4>1, <4>3
    <3>2. CASE ~Takes(p, f)
      BY <1>0, <1>6, <3>2 DEF Deliver, history
    <3> QED BY <3>1, <3>2
  <2>a. /\ Len(due') \in Nat /\ Len(due) <= Len(due')
        /\ \A m \in 1..Len(due') : m \notin 1..Len(due) => due'[m].at = {}
    BY <1>0, <2>3
  <2>4. /\ Distinct' /\ Downstream'
        /\ \A q \in Peers, m \in Nat : Waits(m, q)' => Waits(m, q)
    BY <1>0, <2>1, <2>3, <2>a, TakenOff
  <2>5. Upstream'
    <3>1. \A q \in Peers, m \in 1..Len(due) : Waits(m, q)' => Waits(m, q)
      BY <1>0, <2>4
    <3> QED BY <1>0, <2>1, <2>a, <3>1, UpKept
  <2> QED BY <2>3, <2>4, <2>5 DEF WayInv
<1>7. ASSUME NEW p \in Peers, arpReply(p) PROVE WayInv'
  <2> DEFINE f == Head(down[p])
             d == [due EXCEPT ![f.n].at = due[f.n].at \ {p}]
  <2>1. /\ p \in members /\ down[p] # << >> /\ down' = [down EXCEPT ![p] = Tail(@)]
        /\ Takes(p, f) /\ UNCHANGED <<up, mu, handling, members, ip, mac>>
        /\ stray' = IF p \in due[f.n].at THEN stray ELSE stray \cup {f.kind}
        /\ due' = Append(d, [kind |-> "reply", at |-> {}])
        /\ CallWriteFrame(p, "rx", Frame("reply", mac[p], f.src, f.to, ARPSize))
    BY <1>7 DEF arpReply, roomVars
  <2>2. f \in Frames /\ f.n \in 1..Len(due) /\ p \in due[f.n].at
    <3>1. f \in Frames
      BY <1>0, <2>1, HeadTailProperties DEF DataType
    <3> QED BY <1>0, <2>1, <3>1, NextIsDue
  <2>3. /\ Len(d) = Len(due) /\ d \in Seq(Notes)
        /\ \A m \in 1..Len(due) : d[m].at = IF m = f.n THEN due[f.n].at \ {p} ELSE due[m].at
    <3>1. due[f.n].at \ {p} \in SUBSET Peers
      <4>1. due[f.n] \in Notes
        BY <1>0, <2>2, ElementOfSeq
      <4> QED BY <4>1 DEF Notes
    <3>2. d \in Seq(Notes)
      BY <1>0, <3>1, NotesType
    <3> QED BY <1>0, <2>2, <3>1, <3>2, NotesAt
  <2> HIDE DEF d
  <2>4. /\ Len(due') = Len(due) + 1 /\ Len(due') \in Nat /\ Len(due) <= Len(due')
        /\ \A m \in 1..Len(due) :
             due'[m].at = IF m = f.n /\ Takes(p, f) THEN due[m].at \ {p} ELSE due[m].at
        /\ \A m \in 1..Len(due') : m \notin 1..Len(due) => due'[m].at = {}
    <3>1. /\ Len(due') = Len(d) + 1 /\ \A m \in 1..Len(d) : due'[m].at = d[m].at
          /\ \A m \in 1..Len(due') : m \notin 1..Len(d) => due'[m].at = {}
      BY <2>1, <2>3, NoteAdded DEF Kinds
    <3>2. Len(due') = Len(due) + 1 /\ Len(due') \in Nat /\ Len(due) <= Len(due')
      BY <1>0, <2>3, <3>1
    <3>3. ASSUME NEW m \in 1..Len(due)
          PROVE  due'[m].at = IF m = f.n /\ Takes(p, f) THEN due[m].at \ {p} ELSE due[m].at
      BY <2>1, <2>3, <3>1
    <3> QED BY <2>3, <3>1, <3>2, <3>3
  <2>5. /\ Distinct' /\ Downstream'
        /\ \A q \in Peers, m \in Nat : Waits(m, q)' => Waits(m, q)
    BY <1>0, <2>1, <2>4, TakenOff
  <2>6. Upstream'
    <3>1. PICK f0 : f0 = Frame("reply", mac[p], f.src, f.to, ARPSize)
      OBVIOUS
    <3>2. f0.n = Len(due) + 1 /\ f0.kind = "reply" /\ f0.dst = f.src /\ f.src \in MACs
      BY <2>2, <3>1 DEF Frame, Frames
    <3>3. GoodFrame(f0)
      BY <3>2, DataPathAssumption DEF GoodFrame
    <3>4. writing' = [writing EXCEPT ![p]["rx"] = f0]
      BY <2>1, <3>1 DEF CallWriteFrame
    <3> QED BY <1>0, <2>1, <2>4, <2>5, <3>2, <3>3, <3>4, UpSend DEF Goroutines
  <2> QED BY <1>0, <2>1, <2>2, <2>5, <2>6 DEF WayInv
<1>8. ASSUME NEW p \in Peers, UpdatePeers(p) \/ Record(p) PROVE WayInv'
  BY <1>8, WayKept DEF UpdatePeers, Record, wireVars, roomVars, history
<1>9. ASSUME NEW p \in Peers, ReadFrame(p) PROVE WayInv'
  <2>1. UNCHANGED <<members, ip, mac, down, due, stray>>
    BY <1>9 DEF ReadFrame, roomVars, history
  <2>2. Distinct' /\ Downstream'
    BY <1>0, <2>1, DownKept
  <2>3. Upstream'
    BY <1>0, <1>9, UpRead
  <2> QED BY <1>0, <2>1, <2>2, <2>3 DEF WayInv
<1>10. ASSUME NEW p \in Peers, RelayFrame(p) PROVE WayInv'
  <2> DEFINE f == handling[p]
  <2>1. /\ f # Nobody /\ handling' = [handling EXCEPT ![p] = Nobody]
        /\ UNCHANGED <<up, mu, writing, members, ip, mac, stray>>
    BY <1>10 DEF RelayFrame, wireVars, roomVars
  <2>2. f \in Frames /\ Unsent(f) /\ f.n \in 1..Len(due)
    <3>1. f \in Frames /\ f \in InPlace(p, "hand") /\ "hand" \in Places
      BY <1>0, <2>1 DEF DataType, InPlace, Places
    <3> QED BY <1>0, <3>1 DEF Upstream, NotYetDown, Unsent
  <2>3. /\ Distinct' /\ Downstream' /\ Len(due') = Len(due)
        /\ \A q \in Peers, m \in 1..Len(due) : Waits(m, q)' => Waits(m, q) \/ m = f.n
    <3>1. CASE UNCHANGED <<down, due>>
      BY <1>0, <2>1, <3>1, DownKept
    <3>2. CASE ~UNCHANGED <<down, due>>
      <4>1. /\ down' = [q \in Peers |-> IF q \in Targets(p, f) THEN Append(down[q], f)
                                        ELSE down[q]]
            /\ due' = [due EXCEPT ![f.n].at = Addressees(p, f)]
        BY <1>10, <3>2 DEF RelayFrame
      <4>2. Addressees(p, f) \in SUBSET Peers
        <5>1. Addressees(p, f) \subseteq Targets(p, f) /\ Targets(p, f) \subseteq Others(p)
          BY <1>0, <2>2, ForwardReaches DEF Unsent
        <5> QED BY <1>0, <5>1 DEF Others, DataType
      <4>3. /\ Len(due') = Len(due)
            /\ \A m \in 1..Len(due) :
                 due'[m].at = IF m = f.n THEN Addressees(p, f) ELSE due[m].at
        BY <1>0, <2>2, <4>1, <4>2, NotesAt
      <4>4. PICK f1 : f1 = f
        OBVIOUS
      <4> QED BY <1>0, <2>1, <2>2, <4>1, <4>3, <4>4, Relayed
    <3> QED BY <3>1, <3>2
  <2>4. Upstream'
    BY <1>0, <2>1, <2>3, UpRelay
  <2> QED BY <1>0, <2>1, <2>3, <2>4 DEF WayInv
<1>11. ASSUME NEW p \in Peers, RemovePeer(p) PROVE WayInv'
  <2>1. /\ Distinct' /\ Downstream' /\ Len(due') = Len(due)
        /\ \A q \in Peers, m \in 1..Len(due) : Waits(m, q)' => Waits(m, q)
    BY <1>0, <1>11, Removed
  <2>2. Upstream'
    BY <1>0, <1>11, <2>1, UpRemove
  <2> QED BY <1>0, <1>11, <2>1, <2>2 DEF WayInv, RemovePeer
<1>12. ASSUME NEW p \in Peers, NEW i \in IPs, NEW m \in MACs, AddPeer(p, i, m) PROVE WayInv'
  <2>1. UNCHANGED <<up, mu, writing, handling, down, due, stray>>
    BY <1>12 DEF AddPeer, wireVars, history
  <2>2. Distinct' /\ Downstream'
    BY <1>0, <1>12, Added
  <2>3. \A q \in Peers, n \in 1..Len(due) : Waits(n, q)' => Waits(n, q)
    BY <2>1 DEF Waits
  <2>4. Upstream'
    BY <1>0, <2>1, <2>3, UpKept
  <2> QED BY <1>0, <2>1, <2>2, <2>4 DEF WayInv
<1> QED
  <2>1. CASE Next
    BY <2>1, <1>2, <1>3, <1>4, <1>4a, <1>5, <1>6, <1>7, <1>8, <1>9, <1>10, <1>11, <1>12
    DEF Next, WriteTAP, WriteEthernetAsIP
  <2> QED BY <1>1, <2>1

\* The invariant of the frames' way holds in every reachable state.
THEOREM WayCorrect == Spec => []WayInv
<1>1. WayInv /\ DataInv /\ DataInv' /\ [Next]_vars => WayInv'
  BY WayStep
<1> QED BY <1>1, WayInitInv, DataPathCorrect, PTL DEF Spec

\* The invariant says where every frame that is due waits.
LEMMA WayReaches ==
  ASSUME WayInv, DataInv, NEW kinds
  PROVE  ReachesOwners(kinds)
<1>1. stray \cap kinds = {}
  BY DEF WayInv
<1>2. ASSUME NEW n \in 1..Len(due), NEW p \in due[n].at PROVE Waits(n, p)
  <2>1. due[n] \in Notes
    BY ElementOfSeq DEF DataInv, DataType
  <2>2. p \in Peers
    BY <2>1 DEF Notes
  <2> QED BY <2>2 DEF WayInv, Downstream, WaitsFor
<1> QED BY <1>1, <1>2 DEF ReachesOwners

\* For any clients, addresses and moves: an IPv4 packet the server lets through
\* reaches the hosts it is for, once, and no other.
THEOREM PacketsArrive == Spec => []PacketsReachOwners
<1>1. WayInv /\ DataInv => PacketsReachOwners
  BY WayReaches DEF PacketsReachOwners
<1> QED BY <1>1, WayCorrect, DataPathCorrect, PTL

\* For any clients, addresses and moves: an ARP request that the server lets through
\* reaches the member that holds the address and no other, and so does the answer.
THEOREM ARPAnswered == Spec => []OneARPAnswer
<1>1. WayInv /\ DataInv => OneARPAnswer
  BY WayReaches DEF OneARPAnswer
<1> QED BY <1>1, WayCorrect, DataPathCorrect, PTL
=============================================================================
