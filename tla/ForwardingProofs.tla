--------------------------- MODULE ForwardingProofs ---------------------------
(***************************************************************************)
(* Proofs about Forwarding for any handlers, rooms, queue capacity and      *)
(* number of frames: the data path leaves the room manager's promises       *)
(* intact, no frame crosses rooms, no sender's frames are reordered, the    *)
(* data path implements Lan, and the server dies in one way only.           *)
(***************************************************************************)
EXTENDS Forwarding, RelayProofs, SequenceTheorems

\* What the main loops put in queues.
Frames == [src : Handlers, seq : Nat, room : RoomIds]

LinkType ==
  /\ todo \in [Handlers -> SUBSET Handlers]
  /\ sent \in [Handlers -> Nat]
  /\ queue \in [Handlers -> Seq(Frames)]
  /\ wire \in [Handlers -> Seq(Frames)]

\* A target that a main loop still holds is a peer of the loop's room, on its
\* way out perhaps, or a Peer object whose handler has returned; it is never
\* the Peer of a later connection.
TargetsSound ==
  \A h \in Handlers : \A g \in todo[h] :
    /\ pc[h] = "joined" /\ g # h
    /\ \/ room[g] = room[h] /\ pc[g] \notin {"idle", "lookup", "add"}
       \/ pc[g] = "idle"

\* Nothing is sent to a client that has not joined.
NewStreamsEmpty ==
  \A g \in Handlers : pc[g] \in {"lookup", "add"} => wire[g] = << >> /\ queue[g] = << >>

\* A frame that reached g was counted when it was read; while g is still a
\* target of the current frame, all that reached it are earlier ones.
SeqsSound ==
  \A g \in Handlers : \A f \in Range(Stream(g)) :
    /\ f.seq <= sent[f.src]
    /\ g \in todo[f.src] => f.seq < sent[f.src]

\* The inductive invariant, on top of RelayInv.
FwInv ==
  /\ LinkType /\ TargetsSound /\ NewStreamsEmpty
  /\ RoomIsolation /\ SeqsSound /\ SenderOrder

-----------------------------------------------------------------------------
(* Streams.                                                                  *)

\* Frames with the same sender are in the order of their numbers.
InOrder(s) ==
  \A i, j \in 1..Len(s) : i < j /\ s[i].src = s[j].src => s[i].seq < s[j].seq

\* The stream of a client that has been sent nothing.
LEMMA EmptyStream ==
  /\ Len(<< >> \o << >>) = 0
  /\ Range(<< >> \o << >>) = {}
<1>1. << >> \o << >> = << >>
  BY EmptySeq, ConcatEmptySeq
<1>2. Range(<< >>) = {}
  BY DEF Range
<1> QED BY <1>1, <1>2

\* A stream grows by a frame that is later than all others of its sender.
LEMMA AppendInOrder ==
  ASSUME NEW s \in Seq(Frames), NEW f \in Frames, InOrder(s),
         \A e \in Range(s) : e.src = f.src => e.seq < f.seq
  PROVE  InOrder(Append(s, f))
<1>1. /\ Len(Append(s, f)) = Len(s) + 1 /\ Len(s) \in Nat
      /\ \A i \in 1..Len(s) : Append(s, f)[i] = s[i]
      /\ Append(s, f)[Len(s) + 1] = f
  BY AppendProperties, LenProperties
<1>2. \A i \in 1..Len(s) : s[i] \in Range(s)
  BY RangeEquality
<1> DEFINE t == Append(s, f)
<1> SUFFICES ASSUME NEW i \in 1..Len(t), NEW j \in 1..Len(t), i < j, t[i].src = t[j].src
             PROVE  t[i].seq < t[j].seq
  BY DEF InOrder
<1>3. CASE j \in 1..Len(s)
  BY <1>1, <1>3 DEF InOrder
<1>4. CASE j = Len(s) + 1
  BY <1>1, <1>2, <1>4
<1> QED BY <1>1, <1>3, <1>4

\* The frames of a stream that grows, and those of one that loses a frame.
LEMMA AppendRange ==
  ASSUME NEW s \in Seq(Frames), NEW f \in Frames
  PROVE  Range(Append(s, f)) = Range(s) \cup {f}
<1>1. /\ Append(s, f) \in Seq(Frames) /\ Len(Append(s, f)) = Len(s) + 1 /\ Len(s) \in Nat
      /\ \A i \in 1..Len(s) : Append(s, f)[i] = s[i]
      /\ Append(s, f)[Len(s) + 1] = f
  BY AppendProperties, LenProperties
<1>2. /\ Range(s) = {s[i] : i \in 1..Len(s)}
      /\ Range(Append(s, f)) = {Append(s, f)[i] : i \in 1..Len(s) + 1}
  BY <1>1, RangeEquality
<1>3. 1..Len(s) + 1 = 1..Len(s) \cup {Len(s) + 1}
  BY <1>1
<1> QED BY <1>1, <1>2, <1>3

\* Enqueue adds a frame at the end of what the peer is sent.
LEMMA EnqueueStream ==
  ASSUME NEW w \in Seq(Frames), NEW q \in Seq(Frames), NEW f \in Frames
  PROVE  w \o Append(q, f) = Append(w \o q, f)
<1>1. /\ <<f>> \in Seq(Frames) /\ w \o q \in Seq(Frames)
  BY ConcatProperties
<1>2. Append(q, f) = q \o <<f>> /\ Append(w \o q, f) = (w \o q) \o <<f>>
  BY <1>1, AppendIsConcat
<1> QED BY <1>1, <1>2, ConcatAssociative

\* The writer moves a frame from the queue to the wire and keeps the stream.
LEMMA WriteStream ==
  ASSUME NEW w \in Seq(Frames), NEW q \in Seq(Frames), q # << >>
  PROVE  Append(w, Head(q)) \o Tail(q) = w \o q
<1>1. /\ Head(q) \in Frames /\ Tail(q) \in Seq(Frames)
      /\ <<Head(q)>> \in Seq(Frames)
  BY HeadTailProperties
<1>2. q = <<Head(q)>> \o Tail(q)
  <2>1. /\ Len(<<Head(q)>>) = 1 /\ <<Head(q)>>[1] = q[1] /\ Len(q) \in Nat \ {0}
        /\ Len(Tail(q)) = Len(q) - 1
        /\ \A i \in 1..Len(Tail(q)) : Tail(q)[i] = q[i + 1]
    BY <1>1, HeadTailProperties, EmptySeq, LenProperties
  <2> DEFINE p == <<Head(q)>> \o Tail(q)
  <2>2. /\ p \in Seq(Frames) /\ Len(p) = Len(q)
        /\ \A i \in 1..Len(q) : p[i] = IF i <= 1 THEN <<Head(q)>>[i] ELSE Tail(q)[i - 1]
    BY <1>1, <2>1, ConcatProperties
  <2> HIDE DEF p
  <2>3. ASSUME NEW i \in 1..Len(q) PROVE p[i] = q[i]
    <3>1. CASE i = 1
      BY <2>1, <2>2, <3>1
    <3>2. CASE i # 1
      <4>1. i - 1 \in 1..Len(Tail(q)) /\ (i - 1) + 1 = i
        BY <2>1, <3>2
      <4> QED BY <2>1, <2>2, <3>2, <4>1
    <3> QED BY <3>1, <3>2
  <2>4. p = q
    BY <2>2, <2>3, SeqEqual
  <2> QED BY <2>4 DEF p
<1>3. Append(w, Head(q)) = w \o <<Head(q)>>
  BY <1>1, AppendIsConcat
<1> QED BY <1>1, <1>2, <1>3, ConcatAssociative

\* A failed write loses a frame and keeps the order of the others.
LEMMA LossStream ==
  ASSUME NEW w \in Seq(Frames), NEW q \in Seq(Frames), q # << >>
  PROVE  /\ Range(w \o Tail(q)) \subseteq Range(w \o q)
         /\ InOrder(w \o q) => InOrder(w \o Tail(q))
<1>1. /\ Tail(q) \in Seq(Frames) /\ Len(Tail(q)) = Len(q) - 1
      /\ Len(q) \in Nat \ {0} /\ Len(w) \in Nat
      /\ \A i \in 1..Len(Tail(q)) : Tail(q)[i] = q[i + 1]
  BY HeadTailProperties, EmptySeq, LenProperties
<1> DEFINE old == w \o q
           new == w \o Tail(q)
           At(i) == IF i <= Len(w) THEN i ELSE i + 1
<1>2. /\ old \in Seq(Frames) /\ new \in Seq(Frames)
      /\ Len(old) = Len(w) + Len(q) /\ Len(new) = Len(w) + Len(q) - 1
      /\ \A i \in 1..Len(w) + Len(q) : old[i] = IF i <= Len(w) THEN w[i] ELSE q[i - Len(w)]
      /\ \A i \in 1..Len(w) + Len(q) - 1 :
           new[i] = IF i <= Len(w) THEN w[i] ELSE Tail(q)[i - Len(w)]
  BY <1>1, ConcatProperties
<1> HIDE DEF old, new
<1>3. ASSUME NEW i \in 1..Len(new) PROVE At(i) \in 1..Len(old) /\ new[i] = old[At(i)]
  <2>1. CASE i <= Len(w)
    BY <1>1, <1>2, <2>1
  <2>2. CASE ~(i <= Len(w))
    <3>1. /\ i - Len(w) \in 1..Len(Tail(q)) /\ (i + 1) - Len(w) = (i - Len(w)) + 1
          /\ i + 1 \in 1..Len(old) /\ ~(i + 1 <= Len(w))
      BY <1>1, <1>2, <2>2
    <3>2. new[i] = Tail(q)[i - Len(w)] /\ old[i + 1] = q[(i + 1) - Len(w)]
      BY <1>2, <2>2, <3>1
    <3> QED BY <1>1, <2>2, <3>1, <3>2
  <2> QED BY <2>1, <2>2
<1>4. Range(new) \subseteq Range(old)
  <2>1. /\ Range(new) = {new[i] : i \in 1..Len(new)}
        /\ Range(old) = {old[i] : i \in 1..Len(old)}
    BY <1>2, RangeEquality
  <2> HIDE DEF At
  <2> QED BY <1>3, <2>1
<1>5. ASSUME InOrder(old) PROVE InOrder(new)
  <2> SUFFICES ASSUME NEW i \in 1..Len(new), NEW j \in 1..Len(new), i < j,
                      new[i].src = new[j].src
               PROVE  new[i].seq < new[j].seq
    BY DEF InOrder
  <2>1. At(i) < At(j)
    BY <1>1
  <2> QED BY <1>3, <1>5, <2>1 DEF InOrder
<1> QED BY <1>4, <1>5 DEF old, new

-----------------------------------------------------------------------------
(* Every step of the data path is a step of the room manager or leaves it    *)
(* alone.                                                                    *)

\* The data path composes the room manager: it adds no step to it.
LEMMA FwStepsAreRelaySteps == [FwNext]_allVars => [Next]_vars
<1> SUFFICES ASSUME [FwNext]_allVars PROVE [Next]_vars
  OBVIOUS
<1>1. CASE UNCHANGED allVars
  BY <1>1 DEF allVars
<1>2. ASSUME NEW h \in Handlers, NEW n \in Names, NEW m \in RequestMACs \cup {Null},
             Connect(h, n, m)
      PROVE  [Next]_vars
  BY <1>2 DEF Connect, Next
<1>3. ASSUME NEW h \in Handlers, JoinStep(h) PROVE [Next]_vars
  BY <1>3 DEF JoinStep, Next
<1>4. ASSUME NEW h \in Handlers, NEW dst \in MACs, ForwardFrame(h, dst) PROVE [Next]_vars
  BY <1>4 DEF ForwardFrame, Next
<1>5. ASSUME NEW h \in Handlers, Leave(h) PROVE [Next]_vars
  BY <1>5 DEF Leave, Next
<1>6. ASSUME NEW h \in Handlers,
             \/ \E g \in Handlers : Enqueue(h, g) \/ EnqueueClosed(h, g)
             \/ WriteFrame(h) \/ WriteFails(h) \/ WriterEnds(h)
             \/ Serve(h) \/ RefuseFrame(h)
      PROVE  [Next]_vars
  BY <1>6 DEF Enqueue, EnqueueClosed, WriteFrame, WriteFails, WriterEnds, Serve, RefuseFrame
<1> QED BY <1>1, <1>2, <1>3, <1>4, <1>5, <1>6 DEF FwNext, FwStep

\* The data path implements the specification of the room manager, so whatever
\* is proved of Relay holds while frames are forwarded.
THEOREM DataPathKeepsRelay == FwSpec => Spec
<1>1. FwInit => Init
  BY DEF FwInit
<1> QED BY <1>1, FwStepsAreRelaySteps, PTL DEF FwSpec, Spec

\* The room manager's invariant holds while frames are forwarded.
LEMMA FwRelayInvariant == FwSpec => []RelayInv
  BY DataPathKeepsRelay, RelayInvariant, PTL

-----------------------------------------------------------------------------
(* The invariant.                                                            *)

\* No handler, no frame.
LEMMA FwInitInv == FwInit => FwInv
<1> SUFFICES ASSUME FwInit PROVE FwInv
  OBVIOUS
<1> USE DEF FwInit, Init
<1>1. LinkType
  BY EmptySeq DEF LinkType
<1>2. TargetsSound /\ NewStreamsEmpty
  BY DEF TargetsSound, NewStreamsEmpty
<1>3. ASSUME NEW g \in Handlers PROVE Len(Stream(g)) = 0 /\ Range(Stream(g)) = {}
  BY EmptyStream DEF Stream
<1>4. RoomIsolation /\ SeqsSound /\ SenderOrder
  BY <1>3 DEF RoomIsolation, SeqsSound, SenderOrder
<1> QED BY <1>1, <1>2, <1>4 DEF FwInv

\* What a step inside Join or RemovePeer does to the handler's place and room.
LEMMA JoinStepEffect ==
  ASSUME TypeOK, NEW h \in Handlers, Step(h)
  PROVE  /\ \A g \in Handlers : g # h => pc'[g] = pc[g] /\ room'[g] = room[g]
         /\ \/ /\ pc[h] \in {"lookup", "add"}
               /\ \/ pc'[h] \in {"lookup", "add"}
                  \/ pc'[h] = "idle" /\ room'[h] = Null
                  \/ pc'[h] = "joined" /\ room'[h] = room[h]
            \/ /\ pc[h] \in {"close", "closeLast", "delete"}
               /\ \/ pc'[h] = "idle" /\ room'[h] = Null
                  \/ pc'[h] = "delete" /\ room'[h] = room[h]
<1> USE DEF TypeOK
<1>1. CASE FindRoom(h) \/ AddPeerClosed(h)
  BY <1>1 DEF FindRoom, AddPeerClosed
<1>2. CASE CreateRoom(h)
  BY <1>2 DEF CreateRoom
<1>3. CASE PoolFull(h) \/ AddPeerRefused(h)
  BY <1>3 DEF PoolFull, AddPeerRefused, Return
<1>4. CASE AddPeer(h)
  BY <1>4 DEF AddPeer
<1>5. CASE CloseFrames(h) \/ CloseFramesLast(h)
  BY <1>5 DEF CloseFrames, CloseFramesLast, Return
<1>6. CASE DeleteEmptyRoom(h)
  BY <1>6 DEF DeleteEmptyRoom, Return
<1> QED BY <1>1, <1>2, <1>3, <1>4, <1>5, <1>6 DEF Step

\* Every step of the data path keeps the invariant.
LEMMA FwInvStep == RelayInv /\ FwInv /\ [FwNext]_allVars => FwInv'
<1> SUFFICES ASSUME RelayInv, FwInv, [FwNext]_allVars PROVE FwInv'
  OBVIOUS
<1>a. TypeOK /\ PeersSound
  BY DEF RelayInv
<1>b. /\ LinkType /\ TargetsSound /\ NewStreamsEmpty
      /\ RoomIsolation /\ SeqsSound /\ SenderOrder
  BY DEF FwInv
<1>c. \A g \in Handlers : Stream(g) \in Seq(Frames)
  BY <1>b, ConcatProperties DEF LinkType, Stream
<1>d. \A g \in Handlers : \A f \in Range(Stream(g)) : f \in Frames
  BY <1>c, RangeOfSeq
\* Steps that leave the streams alone.
<1>1. ASSUME UNCHANGED <<queue, wire>> PROVE \A g \in Handlers : Stream(g)' = Stream(g)
  BY <1>1 DEF Stream
<1>2. ASSUME UNCHANGED <<queue, wire, pc, room>>
      PROVE  NewStreamsEmpty' /\ RoomIsolation' /\ SenderOrder'
  BY <1>b, <1>1, <1>2 DEF NewStreamsEmpty, RoomIsolation, SenderOrder
<1>3. ASSUME UNCHANGED <<queue, wire, todo, sent>> PROVE LinkType' /\ SeqsSound'
  BY <1>b, <1>1, <1>3 DEF LinkType, SeqsSound
<1>4. ASSUME UNCHANGED <<todo, pc, room>> PROVE TargetsSound'
  BY <1>b, <1>4 DEF TargetsSound
<1>5. CASE \/ UNCHANGED allVars
           \/ \E h \in Handlers :
                \/ \E g \in Handlers : EnqueueClosed(h, g)
                \/ Serve(h) \/ WriterEnds(h)
  <2>1. UNCHANGED <<queue, wire, todo, sent, pc, room>>
    BY <1>5 DEF allVars, dataVars, linkVars, vars, EnqueueClosed, Serve, WriterEnds
  <2> QED BY <1>2, <1>3, <1>4, <2>1 DEF FwInv
<1>6. ASSUME NEW h \in Handlers, JoinStep(h) PROVE FwInv'
  <2>1. UNCHANGED <<queue, wire, todo, sent>> /\ Step(h)
    BY <1>6 DEF JoinStep, dataVars, linkVars
  <2>2. LinkType' /\ SeqsSound'
    BY <1>3, <2>1
  <2>3. TargetsSound'
    <3> SUFFICES ASSUME NEW k \in Handlers, NEW g \in todo[k]
                 PROVE  /\ pc'[k] = "joined" /\ g # k
                        /\ \/ room'[g] = room'[k] /\ pc'[g] \notin {"idle", "lookup", "add"}
                           \/ pc'[g] = "idle"
      BY <2>1 DEF TargetsSound
    <3>1. /\ pc[k] = "joined" /\ g # k /\ g \in Handlers
          /\ \/ room[g] = room[k] /\ pc[g] \notin {"idle", "lookup", "add"}
             \/ pc[g] = "idle"
      BY <1>b DEF TargetsSound, LinkType
    <3>2. k # h /\ pc'[k] = pc[k] /\ room'[k] = room[k]
      BY <1>a, <2>1, <3>1, JoinStepEffect
    <3>3. CASE g = h
      BY <1>a, <2>1, <3>1, <3>2, <3>3, JoinStepEffect
    <3>4. CASE g # h
      BY <1>a, <2>1, <3>1, <3>2, <3>4, JoinStepEffect
    <3> QED BY <3>3, <3>4
  <2>4. NewStreamsEmpty'
    BY <1>a, <1>b, <2>1, JoinStepEffect DEF NewStreamsEmpty
  <2>5. RoomIsolation'
    <3>1. ASSUME NEW g \in Handlers, pc[g] \in {"lookup", "add"} PROVE Range(Stream(g)) = {}
      BY <1>b, <3>1, EmptyStream DEF NewStreamsEmpty, Stream
    <3> QED BY <1>a, <1>b, <1>1, <2>1, <3>1, JoinStepEffect DEF RoomIsolation
  <2>6. SenderOrder'
    BY <1>b, <1>1, <2>1 DEF SenderOrder
  <2> QED BY <2>2, <2>3, <2>4, <2>5, <2>6 DEF FwInv
<1>7. ASSUME NEW h \in Handlers, NEW n \in Names, NEW m \in RequestMACs \cup {Null},
             Connect(h, n, m)
      PROVE  FwInv'
  <2>1. /\ pc[h] = "idle" /\ pc' = [pc EXCEPT ![h] = "lookup"]
        /\ UNCHANGED <<room, todo, sent>>
        /\ queue' = [queue EXCEPT ![h] = << >>] /\ wire' = [wire EXCEPT ![h] = << >>]
        /\ \A g \in Handlers : h \notin todo[g]
    BY <1>7 DEF Connect, Collected, StartJoin
  <2>2. LinkType'
    BY <1>b, <2>1, EmptySeq DEF LinkType
  <2>3. TargetsSound'
    BY <1>a, <1>b, <2>1 DEF TargetsSound, TypeOK
  <2>4. NewStreamsEmpty'
    BY <1>a, <1>b, <2>1 DEF NewStreamsEmpty, TypeOK, LinkType
  <2>5. \A g \in Handlers : g # h => Stream(g)' = Stream(g)
    BY <1>b, <2>1 DEF Stream, LinkType
  <2>6. Len(Stream(h)') = 0 /\ Range(Stream(h)') = {}
    BY <1>b, <2>1, EmptyStream DEF Stream, LinkType
  <2>7. RoomIsolation' /\ SeqsSound'
    BY <1>b, <2>1, <2>5, <2>6 DEF RoomIsolation, SeqsSound
  <2>8. SenderOrder'
    BY <1>b, <2>5, <2>6 DEF SenderOrder
  <2> QED BY <2>2, <2>3, <2>4, <2>7, <2>8 DEF FwInv
<1>8. ASSUME NEW h \in Handlers, RefuseFrame(h) PROVE FwInv'
  <2>1. /\ UNCHANGED <<queue, wire, todo, pc, room>>
        /\ sent' = [sent EXCEPT ![h] = @ + 1]
    BY <1>8 DEF RefuseFrame, vars
  <2>2. LinkType'
    BY <1>b, <2>1 DEF LinkType
  <2>3. SeqsSound'
    <3>1. \A g \in Handlers : sent[g] \in Nat /\ sent'[g] \in Nat /\ sent[g] <= sent'[g]
      BY <1>b, <2>1 DEF LinkType
    <3>2. \A g \in Handlers : \A f \in Range(Stream(g)) : f.src \in Handlers /\ f.seq \in Nat
      BY <1>d DEF Frames
    <3> QED BY <1>b, <1>1, <2>1, <3>1, <3>2 DEF SeqsSound
  <2> QED BY <1>2, <1>4, <2>1, <2>2, <2>3 DEF FwInv
<1>9. ASSUME NEW h \in Handlers, NEW dst \in MACs, ForwardFrame(h, dst) PROVE FwInv'
  <2>1. /\ UNCHANGED <<queue, wire, pc, room>>
        /\ sent' = [sent EXCEPT ![h] = @ + 1]
        /\ todo' = [todo EXCEPT ![h] = Targets(h, dst)]
        /\ pc[h] = "joined" /\ todo[h] = {}
    BY <1>9 DEF ForwardFrame, Forward, Ready
  <2>2. ASSUME NEW g \in Targets(h, dst)
        PROVE  g \in Handlers /\ g # h /\ pc[g] = "joined" /\ room[g] = room[h]
    <3>1. room[h] \in RoomIds
      BY <2>1, HeldRoom
    <3>2. g \in peers[room[h]] /\ g # h
      BY <2>2 DEF Targets
    <3> QED BY <1>a, <3>1, <3>2 DEF PeersSound
  <2>3. LinkType'
    BY <1>b, <2>1, <2>2 DEF LinkType
  <2>4. TargetsSound'
    BY <1>b, <2>1, <2>2 DEF TargetsSound, LinkType
  <2>5. SeqsSound'
    <3>1. /\ \A g \in Handlers : sent[g] \in Nat /\ sent'[g] \in Nat /\ sent[g] <= sent'[g]
          /\ sent[h] < sent'[h]
          /\ \A g \in Handlers : g # h => todo'[g] = todo[g] /\ sent'[g] = sent[g]
      BY <1>b, <2>1 DEF LinkType
    <3>2. \A g \in Handlers : \A f \in Range(Stream(g)) : f.src \in Handlers /\ f.seq \in Nat
      BY <1>d DEF Frames
    <3> QED BY <1>b, <1>1, <2>1, <3>1, <3>2 DEF SeqsSound
  <2> QED BY <1>2, <2>1, <2>3, <2>4, <2>5 DEF FwInv
<1>10. ASSUME NEW h \in Handlers, NEW g \in Handlers, Enqueue(h, g) PROVE FwInv'
  <2> DEFINE e == Frame(h)
  <2>1. /\ g \in todo[h] /\ todo' = [todo EXCEPT ![h] = @ \ {g}]
        /\ UNCHANGED <<wire, sent, pc, room>>
        /\ \/ queue' = [queue EXCEPT ![g] = Append(@, e)]
           \/ queue' = queue
    <3> DEFINE q == IF Len(queue[g]) < QueueCap THEN Append(queue[g], e) ELSE queue[g]
    <3>1. q = Append(queue[g], e) \/ q = queue[g]
      OBVIOUS
    <3>2. queue' = [queue EXCEPT ![g] = q]
      BY <1>10 DEF Enqueue
    <3> HIDE DEF q
    <3>3. q = Append(queue[g], e) => queue' = [queue EXCEPT ![g] = Append(@, e)]
      BY <3>2
    <3>4. q = queue[g] => queue' = queue
      BY <1>b, <3>2 DEF LinkType
    <3> QED BY <1>10, <3>1, <3>3, <3>4 DEF Enqueue, vars
  <2>2. /\ pc[h] = "joined" /\ g # h
        /\ room[g] # Null => room[g] = room[h]
        /\ pc[g] \notin {"lookup", "add"}
    BY <1>a, <1>b, <2>1 DEF TargetsSound, RelayInv, HandlersSound
  <2>3. /\ e \in Frames /\ e.src = h /\ e.seq = sent[h] /\ e.room = room[h]
    BY <1>b, <2>2, HeldRoom DEF Frames, Frame, LinkType
  <2> HIDE DEF e
  <2>4. /\ \A k \in Handlers : todo'[k] \subseteq todo[k]
        /\ g \notin todo'[h]
        /\ todo' \in [Handlers -> SUBSET Handlers]
    BY <1>b, <2>1 DEF LinkType
  <2>5. LinkType'
    <3>1. Append(queue[g], e) \in Seq(Frames)
      BY <1>b, <2>3, AppendProperties DEF LinkType
    <3>2. queue' \in [Handlers -> Seq(Frames)]
      BY <1>b, <2>1, <3>1 DEF LinkType
    <3> QED BY <1>b, <2>1, <2>4, <3>2 DEF LinkType
  <2>6. TargetsSound' /\ NewStreamsEmpty'
    BY <1>b, <2>1, <2>2, <2>4 DEF TargetsSound, NewStreamsEmpty, LinkType
  <2>7. ASSUME NEW k \in Handlers
        PROVE  \/ Stream(k)' = Stream(k)
               \/ k = g /\ Stream(k)' = Append(Stream(k), e)
    <3>1. CASE queue' = queue
      BY <2>1, <3>1 DEF Stream
    <3>2. CASE queue' = [queue EXCEPT ![g] = Append(@, e)] /\ k # g
      BY <1>b, <2>1, <3>2 DEF Stream, LinkType
    <3>3. CASE queue' = [queue EXCEPT ![g] = Append(@, e)] /\ k = g
      <4>1. Stream(k)' = wire[g] \o Append(queue[g], e)
        BY <1>b, <2>1, <3>3 DEF Stream, LinkType
      <4> QED BY <1>b, <2>3, <3>3, <4>1, EnqueueStream DEF Stream, LinkType
    <3> QED BY <2>1, <3>1, <3>2, <3>3
  <2>8. ASSUME NEW k \in Handlers
        PROVE  \/ Stream(k)' = Stream(k)
               \/ /\ k = g /\ Stream(k)' = Append(Stream(k), e)
                  /\ Range(Stream(k)') = Range(Stream(k)) \cup {e}
    BY <1>c, <2>3, <2>7, AppendRange
  <2>9. RoomIsolation'
    BY <1>b, <2>1, <2>2, <2>3, <2>8 DEF RoomIsolation
  <2>10. SeqsSound'
    <3>1. ASSUME NEW k \in Handlers, NEW f \in Range(Stream(k))
          PROVE  f.seq <= sent[f.src] /\ (k \in todo'[f.src] => f.seq < sent[f.src])
      BY <1>b, <1>d, <2>4 DEF SeqsSound, Frames
    <3>2. e.seq <= sent[e.src] /\ g \notin todo'[e.src]
      BY <1>b, <2>3, <2>4 DEF LinkType
    <3> QED BY <2>1, <2>8, <3>1, <3>2 DEF SeqsSound
  <2>11. SenderOrder'
    <3>1. \A f \in Range(Stream(g)) : f.src = e.src => f.seq < e.seq
      BY <1>b, <2>1, <2>3 DEF SeqsSound
    <3>2. \A k \in Handlers : InOrder(Stream(k))
      BY <1>b DEF SenderOrder, InOrder
    <3>3. \A k \in Handlers : InOrder(Stream(k)')
      BY <1>c, <2>3, <2>7, <3>1, <3>2, AppendInOrder
    <3> QED BY <3>3 DEF SenderOrder, InOrder
  <2> QED BY <2>5, <2>6, <2>9, <2>10, <2>11 DEF FwInv
<1>11. ASSUME NEW h \in Handlers, WriteFrame(h) PROVE FwInv'
  <2>1. /\ UNCHANGED <<todo, sent, pc, room>> /\ queue[h] # << >>
        /\ queue' = [queue EXCEPT ![h] = Tail(@)]
        /\ wire' = [wire EXCEPT ![h] = Append(@, Head(queue[h]))]
    BY <1>11 DEF WriteFrame, vars
  <2>2. LinkType'
    BY <1>b, <2>1, HeadTailProperties, AppendProperties DEF LinkType
  <2>3. \A g \in Handlers : Stream(g)' = Stream(g)
    BY <1>b, <2>1, WriteStream DEF Stream, LinkType
  <2>4. NewStreamsEmpty'
    BY <1>b, <2>1 DEF NewStreamsEmpty, LinkType
  <2>5. RoomIsolation' /\ SeqsSound' /\ SenderOrder'
    BY <1>b, <2>1, <2>3 DEF RoomIsolation, SeqsSound, SenderOrder
  <2> QED BY <1>4, <2>1, <2>2, <2>4, <2>5 DEF FwInv
<1>12. ASSUME NEW h \in Handlers, WriteFails(h) PROVE FwInv'
  <2>1. /\ UNCHANGED <<todo, sent, wire, pc, room>> /\ queue[h] # << >>
        /\ queue' = [queue EXCEPT ![h] = Tail(@)]
    BY <1>12 DEF WriteFails, vars
  <2>2. LinkType'
    BY <1>b, <2>1, HeadTailProperties DEF LinkType
  <2>3. \A g \in Handlers : g # h => Stream(g)' = Stream(g)
    BY <1>b, <2>1 DEF Stream, LinkType
  <2>4. \A g \in Handlers : InOrder(Stream(g))
    BY <1>b DEF SenderOrder, InOrder
  <2>5. Range(Stream(h)') \subseteq Range(Stream(h)) /\ InOrder(Stream(h)')
    BY <1>b, <2>1, <2>4, LossStream DEF Stream, LinkType
  <2>6. NewStreamsEmpty'
    BY <1>b, <2>1 DEF NewStreamsEmpty, LinkType
  <2>7. RoomIsolation' /\ SeqsSound'
    BY <1>b, <2>1, <2>3, <2>5 DEF RoomIsolation, SeqsSound
  <2>8. \A g \in Handlers : InOrder(Stream(g)')
    BY <2>3, <2>4, <2>5
  <2>9. SenderOrder'
    BY <2>8 DEF SenderOrder, InOrder
  <2> QED BY <1>4, <2>1, <2>2, <2>6, <2>7, <2>9 DEF FwInv
<1>13. ASSUME NEW h \in Handlers, Leave(h) PROVE FwInv'
  <2>1. /\ UNCHANGED <<todo, sent, queue, wire, room>> /\ todo[h] = {}
        /\ pc[h] = "joined"
        /\ \A g \in Handlers : g # h => pc'[g] = pc[g]
        /\ pc'[h] \in {"close", "closeLast"}
    BY <1>a, <1>13 DEF Leave, RemovePeer, TypeOK
  <2>2. TargetsSound' /\ NewStreamsEmpty'
    BY <1>b, <2>1 DEF TargetsSound, NewStreamsEmpty, LinkType
  <2>3. RoomIsolation' /\ SenderOrder'
    BY <1>b, <1>1, <2>1 DEF RoomIsolation, SenderOrder
  <2> QED BY <1>3, <2>1, <2>2, <2>3 DEF FwInv
<1> QED BY <1>5, <1>6, <1>7, <1>8, <1>9, <1>10, <1>11, <1>12, <1>13 DEF FwNext, FwStep

\* The invariant holds whatever the handlers, the writers and the clients do.
THEOREM FwInvariant == FwSpec => []FwInv
  BY FwInitInv, FwInvStep, FwRelayInvariant, PTL DEF FwSpec

\* The room manager's bookkeeping of /24s survives the data path.
THEOREM FwIndicesPartitioned == FwSpec => []IndexPartition
  BY DataPathKeepsRelay, IndicesPartitioned, PTL

\* Enqueue runs without r.mu on targets looked up earlier; still no peer gets a
\* frame of another room or its own frames back.
THEOREM NoFrameCrossesRooms == FwSpec => []RoomIsolation
<1>1. FwInv => RoomIsolation
  BY DEF FwInv
<1> QED BY <1>1, FwInvariant, PTL

\* Queues, writers and losses never reorder or repeat a sender's frames.
THEOREM SendersInOrder == FwSpec => []SenderOrder
<1>1. FwInv => SenderOrder
  BY DEF FwInv
<1> QED BY <1>1, FwInvariant, PTL
-----------------------------------------------------------------------------
(* The data path implements Lan.                                             *)

\* A queue in the order of its senders holds no frame twice, and its head is the
\* earliest of its sender.
LEMMA HeadOfOrder ==
  ASSUME NEW q \in Seq(Frames), q # << >>, InOrder(q)
  PROVE  /\ Head(q) \in Range(q)
         /\ Range(Tail(q)) = Range(q) \ {Head(q)}
         /\ \A e \in Range(q) : e.src = Head(q).src => Head(q).seq <= e.seq
<1>1. /\ Tail(q) \in Seq(Frames) /\ Len(Tail(q)) = Len(q) - 1 /\ Head(q) = q[1]
      /\ Len(q) \in Nat \ {0}
      /\ \A i \in 1..Len(Tail(q)) : Tail(q)[i] = q[i + 1]
      /\ \A i \in 1..Len(q) : q[i] \in Frames
  BY HeadTailProperties, EmptySeq, LenProperties, ElementOfSeq
<1>2. /\ Range(q) = {q[i] : i \in 1..Len(q)}
      /\ Range(Tail(q)) = {Tail(q)[i] : i \in 1..Len(q) - 1}
  BY <1>1, RangeEquality
<1>3. 1 \in 1..Len(q)
  BY <1>1
<1>4. ASSUME NEW i \in 1..Len(q), i # 1 PROVE q[i].src = q[1].src => q[1].seq < q[i].seq
  BY <1>1, <1>3, <1>4 DEF InOrder
<1>5. ASSUME NEW i \in 1..Len(q), i # 1 PROVE q[i] # q[1]
  <2>1. q[1].seq \in Nat
    BY <1>1, <1>3 DEF Frames
  <2> QED BY <1>4, <1>5, <2>1
<1>6. Range(Tail(q)) \subseteq Range(q) \ {Head(q)}
  <2>1. ASSUME NEW i \in 1..Len(q) - 1 PROVE Tail(q)[i] \in Range(q) \ {Head(q)}
    <3>1. i + 1 \in 1..Len(q) /\ i + 1 # 1 /\ i \in 1..Len(Tail(q))
      BY <1>1
    <3> QED BY <1>1, <1>2, <1>5, <3>1
  <2> QED BY <1>2, <2>1
<1>7. Range(q) \ {Head(q)} \subseteq Range(Tail(q))
  <2>1. ASSUME NEW i \in 1..Len(q), i # 1 PROVE q[i] \in Range(Tail(q))
    <3>1. i - 1 \in 1..Len(q) - 1 /\ i - 1 \in 1..Len(Tail(q)) /\ (i - 1) + 1 = i
      BY <1>1, <2>1
    <3>2. Tail(q)[i - 1] = q[i]
      BY <1>1, <3>1
    <3> QED BY <1>2, <3>1, <3>2
  <2> QED BY <1>1, <1>2, <2>1
<1>8. \A e \in Range(q) : e.src = Head(q).src => Head(q).seq <= e.seq
  <2>1. ASSUME NEW i \in 1..Len(q), q[i].src = q[1].src PROVE q[1].seq <= q[i].seq
    <3>1. q[1].seq \in Nat /\ q[i].seq \in Nat
      BY <1>1, <1>3 DEF Frames
    <3> QED BY <1>4, <2>1, <3>1
  <2> QED BY <1>1, <1>2, <2>1
<1> QED BY <1>1, <1>2, <1>3, <1>6, <1>7, <1>8

\* The frames whose distribution to g is not finished.
Underway(g) == {Frame(h) : h \in {k \in Handlers : g \in todo[k]}}

\* A frame in g's queue is not underway to g, and earlier than its sender's frame
\* that is; the queue is in order.
LEMMA QueueFacts ==
  ASSUME RelayInv, FwInv, NEW g \in Handlers
  PROVE  /\ queue[g] \in Seq(Frames) /\ InOrder(queue[g])
         /\ \A f \in Range(queue[g]) :
              /\ f \notin Underway(g)
              /\ \A e \in Underway(g) : e.src = f.src => f.seq <= e.seq
<1>0. LinkType /\ SeqsSound /\ SenderOrder /\ TargetsSound
  BY DEF FwInv
<1>1. queue[g] \in Seq(Frames) /\ wire[g] \in Seq(Frames)
  BY <1>0 DEF LinkType
<1> DEFINE w == wire[g]
           q == queue[g]
           s == w \o q
<1>2. /\ s \in Seq(Frames) /\ Len(s) = Len(w) + Len(q) /\ Len(w) \in Nat /\ Len(q) \in Nat
      /\ \A i \in 1..Len(w) + Len(q) : s[i] = IF i <= Len(w) THEN w[i] ELSE q[i - Len(w)]
  BY <1>1, ConcatProperties, LenProperties
<1>3. InOrder(s)
  BY <1>0 DEF SenderOrder, InOrder, Stream
<1> HIDE DEF s, w, q
<1>4. ASSUME NEW i \in 1..Len(q)
      PROVE  Len(w) + i \in 1..Len(s) /\ s[Len(w) + i] = q[i]
  <2>1. Len(w) + i \in 1..Len(w) + Len(q) /\ ~(Len(w) + i <= Len(w)) /\ (Len(w) + i) - Len(w) = i
    BY <1>2
  <2> QED BY <1>2, <2>1
<1>5. InOrder(q)
  <2> SUFFICES ASSUME NEW i \in 1..Len(q), NEW j \in 1..Len(q), i < j, q[i].src = q[j].src
               PROVE  q[i].seq < q[j].seq
    BY DEF InOrder
  <2>1. Len(w) + i < Len(w) + j
    BY <1>2
  <2> QED BY <1>3, <1>4, <2>1 DEF InOrder
<1>6. Range(q) \subseteq Range(s)
  <2>1. Range(q) = {q[i] : i \in 1..Len(q)} /\ Range(s) = {s[i] : i \in 1..Len(s)}
    BY <1>1, <1>2, RangeEquality DEF q
  <2> QED BY <1>4, <2>1
<1>7. ASSUME NEW f \in Range(q), NEW e \in Underway(g), e.src = f.src
      PROVE  f # e /\ f.seq <= e.seq
  <2>1. PICK h \in Handlers : g \in todo[h] /\ e = Frame(h)
    BY <1>7 DEF Underway
  <2>2. e.src = h /\ e.seq = sent[h] /\ sent[h] \in Nat
    BY <1>0, <2>1 DEF Frame, LinkType
  <2>3. f \in Frames
    BY <1>1, RangeOfSeq DEF q
  <2>4. f.seq < sent[h] /\ f.seq \in Nat
    BY <1>0, <1>6, <1>7, <2>1, <2>2, <2>3 DEF SeqsSound, Stream, s, w, q, Frames
  <2> QED BY <2>2, <2>4
<1> QED BY <1>1, <1>5, <1>7 DEF q

\* What is underway stays so in a step that moves no main loop on.
LEMMA UnderwayKept ==
  ASSUME FwInv, UNCHANGED <<todo, sent>>,
         \A h \in Handlers : pc[h] = "joined" => room'[h] = room[h]
  PROVE  \A g \in Handlers : Underway(g)' = Underway(g)
<1>1. \A h \in Handlers : todo[h] # {} => Frame(h)' = Frame(h)
  BY DEF FwInv, TargetsSound, Frame
<1> QED BY <1>1 DEF Underway

\* Who is on which LAN depends on the joined peers only.
LEMMA LansKept ==
  ASSUME \A h \in Handlers : /\ pc[h] = "joined" <=> pc'[h] = "joined"
                             /\ pc[h] = "joined" => want'[h] = want[h]
  PROVE  lans' = lans
  BY DEF lans

\* What is on its way to whom, in terms of the queues and the main loops.
LEMMA OnTheWay ==
  /\ onTheWay = [g \in Handlers |-> Range(queue[g]) \cup Underway(g)]
  /\ onTheWay' = [g \in Handlers |-> Range(queue'[g]) \cup Underway(g)']
  BY DEF onTheWay, Underway

\* Every step of the data path is a step of the LAN or changes nothing of it.
LEMMA LanStep ==
  ASSUME RelayInv, FwInv, [FwNext]_allVars
  PROVE  [Network!LanNext]_(Network!lanVars)
<1>0. /\ TypeOK /\ HandlersSound /\ PeersSound /\ LinkType /\ TargetsSound
  BY DEF RelayInv, FwInv
<1> DEFINE Still == UNCHANGED <<lans, sent, onTheWay, wire>>
<1>s. ASSUME Still PROVE [Network!LanNext]_(Network!lanVars)
  BY <1>s DEF Network!lanVars
<1>1. CASE \/ UNCHANGED allVars
           \/ \E h \in Handlers :
                \/ \E g \in Handlers : EnqueueClosed(h, g)
                \/ Serve(h) \/ WriterEnds(h)
  <2>1. UNCHANGED <<queue, wire, todo, sent, pc, room, want>>
    BY <1>1 DEF allVars, dataVars, linkVars, vars, EnqueueClosed, Serve, WriterEnds
  <2> QED BY <1>s, <2>1, LansKept, UnderwayKept, OnTheWay
<1>2. ASSUME NEW h \in Handlers, JoinStep(h) PROVE [Network!LanNext]_(Network!lanVars)
  <2>1. UNCHANGED <<queue, wire, todo, sent>> /\ Step(h)
    BY <1>2 DEF JoinStep, dataVars, linkVars
  <2>2. \A g \in Handlers : pc[g] = "joined" => room'[g] = room[g] /\ pc'[g] = "joined"
    BY <1>0, <2>1, JoinStepEffect
  <2>3. onTheWay' = onTheWay
    BY <2>1, <2>2, UnderwayKept, OnTheWay
  <2>4. CASE AddPeer(h)
    <3>1. /\ pc[h] = "add" /\ want' = want /\ want[h].name \in Names
          /\ pc' = [pc EXCEPT ![h] = "joined"]
      BY <1>0, <2>4 DEF AddPeer, HandlersSound
    <3>2. lans[h] = Null /\ lans' = [lans EXCEPT ![h] = want[h].name]
      BY <1>0, <3>1 DEF lans, TypeOK
    <3>3. Network!Attach(h, want[h].name)
      BY <2>1, <2>3, <3>2 DEF Network!Attach
    <3> QED BY <3>1, <3>3 DEF Network!LanNext
  <2>5. CASE ~AddPeer(h)
    <3>1. \A g \in Handlers : /\ pc[g] = "joined" <=> pc'[g] = "joined"
                              /\ pc[g] = "joined" => want'[g] = want[g]
      BY <1>0, <2>1, <2>5 DEF Step, FindRoom, CreateRoom, PoolFull, AddPeerClosed,
         AddPeerRefused, CloseFrames, CloseFramesLast, DeleteEmptyRoom, Return, TypeOK
    <3> QED BY <1>s, <2>1, <2>3, <3>1, LansKept
  <2> QED BY <2>4, <2>5
<1>3. ASSUME NEW h \in Handlers, NEW n \in Names, NEW m \in RequestMACs \cup {Null},
             Connect(h, n, m)
      PROVE  Network!LanNext
  <2>1. /\ pc[h] = "idle" /\ pc' = [pc EXCEPT ![h] = "lookup"]
        /\ \A g \in Handlers : g # h => want'[g] = want[g]
        /\ UNCHANGED <<room, todo, sent>>
        /\ queue' = [queue EXCEPT ![h] = << >>] /\ wire' = [wire EXCEPT ![h] = << >>]
        /\ \A g \in Handlers : h \notin todo[g]
    BY <1>0, <1>3 DEF Connect, Collected, StartJoin, TypeOK
  <2>2. lans' = lans /\ lans[h] = Null
    BY <1>0, <2>1 DEF lans, TypeOK
  <2>3. \A g \in Handlers : Underway(g)' = Underway(g)
    BY <2>1, UnderwayKept
  <2>4. Range(<< >>) = {} /\ Underway(h) = {}
    BY <2>1 DEF Range, Underway
  <2>5. onTheWay' = [onTheWay EXCEPT ![h] = {}]
    BY <1>0, <2>1, <2>3, <2>4, OnTheWay DEF LinkType
  <2>6. Network!Renew(h)
    BY <2>1, <2>2, <2>5 DEF Network!Renew
  <2> QED BY <2>6 DEF Network!LanNext
\* A frame is read and goes to a set of mates, empty if it is refused.
<1>4. ASSUME NEW h \in Handlers, NEW to \in SUBSET Handlers,
             UNCHANGED <<queue, wire, pc, room, want>>,
             sent' = [sent EXCEPT ![h] = @ + 1], todo' = [todo EXCEPT ![h] = to],
             pc[h] = "joined", todo[h] = {},
             \A g \in to : g # h /\ pc[g] = "joined" /\ room[g] = room[h]
      PROVE  Network!LanNext
  <2> DEFINE f == [src |-> h, seq |-> sent[h] + 1, room |-> room[h]]
  <2>1. room[h] \in RoomIds /\ want[h].name \in Names
    BY <1>4, HeldRoom
  <2>2. lans' = lans /\ lans[h] = want[h].name
    BY <1>4 DEF lans
  <2>3. to \subseteq Network!Mates(h)
    <3>1. ASSUME NEW g \in to PROVE lans[g] = lans[h]
      BY <1>0, <1>4, <2>1, <3>1 DEF lans, HandlersSound
    <3> QED BY <1>4, <3>1 DEF Network!Mates
  <2>4. Frame(h)' = f /\ \A k \in Handlers \ {h} : Frame(k)' = Frame(k)
    BY <1>0, <1>4 DEF Frame, LinkType
  <2> HIDE DEF f
  <2>5. ASSUME NEW g \in Handlers
        PROVE  Underway(g)' = IF g \in to THEN Underway(g) \cup {f} ELSE Underway(g)
    <3>1. \A k \in Handlers \ {h} : g \in todo'[k] <=> g \in todo[k]
      BY <1>0, <1>4 DEF LinkType
    <3>2. (g \in todo'[h] <=> g \in to) /\ g \notin todo[h]
      BY <1>0, <1>4 DEF LinkType
    <3>3. Underway(g)' = {Frame(k)' : k \in {j \in Handlers : g \in todo'[j]}}
      BY DEF Underway
    <3> QED BY <2>4, <3>1, <3>2, <3>3 DEF Underway
  <2>6. onTheWay' = [g \in Handlers |-> IF g \in to THEN onTheWay[g] \cup {f} ELSE onTheWay[g]]
    BY <1>4, <2>5, OnTheWay
  <2>7. Network!Transmit(h, room[h], to)
    BY <1>4, <2>1, <2>2, <2>3, <2>6, NullAssumption DEF Network!Transmit, f
  <2> QED BY <2>1, <2>7 DEF Network!LanNext
<1>5. ASSUME NEW h \in Handlers, RefuseFrame(h) PROVE Network!LanNext
  <2>1. /\ UNCHANGED <<queue, wire, pc, room, want, todo>>
        /\ sent' = [sent EXCEPT ![h] = @ + 1] /\ pc[h] = "joined" /\ todo[h] = {}
    BY <1>5 DEF RefuseFrame, Ready, vars
  <2>2. todo' = [todo EXCEPT ![h] = {}]
    BY <1>0, <2>1 DEF LinkType
  <2> QED BY <1>4, <2>1, <2>2
<1>6. ASSUME NEW h \in Handlers, NEW dst \in MACs, ForwardFrame(h, dst) PROVE Network!LanNext
  <2>1. /\ UNCHANGED <<queue, wire, pc, room, want>>
        /\ sent' = [sent EXCEPT ![h] = @ + 1]
        /\ todo' = [todo EXCEPT ![h] = Targets(h, dst)]
        /\ pc[h] = "joined" /\ todo[h] = {}
    BY <1>6 DEF ForwardFrame, Forward, Ready
  <2>2. ASSUME NEW g \in Targets(h, dst)
        PROVE  g \in Handlers /\ g # h /\ pc[g] = "joined" /\ room[g] = room[h]
    <3>1. room[h] \in RoomIds
      BY <2>1, HeldRoom
    <3>2. g \in peers[room[h]] /\ g # h
      BY <2>2 DEF Targets
    <3> QED BY <1>0, <3>1, <3>2 DEF PeersSound
  <2> QED BY <1>4, <2>1, <2>2
<1>7. ASSUME NEW h \in Handlers, NEW g \in Handlers, Enqueue(h, g)
      PROVE  [Network!LanNext]_(Network!lanVars)
  <2> DEFINE e == Frame(h)
             q == IF Len(queue[g]) < QueueCap THEN Append(queue[g], e) ELSE queue[g]
  <2>1. /\ g \in todo[h] /\ todo' = [todo EXCEPT ![h] = @ \ {g}]
        /\ UNCHANGED <<wire, sent, pc, room, want>>
        /\ queue' = [queue EXCEPT ![g] = q]
    BY <1>7 DEF Enqueue, vars
  <2>2. q = Append(queue[g], e) \/ q = queue[g]
    OBVIOUS
  <2>3. e \in Frames /\ e.src = h /\ e = Frame(h)
    <3>1. pc[h] = "joined"
      BY <1>0, <2>1 DEF TargetsSound
    <3> QED BY <1>0, <3>1, HeldRoom DEF Frames, Frame, LinkType
  <2> HIDE DEF q, e
  <2>4. lans' = lans
    BY <2>1, LansKept
  <2>5. \A k \in Handlers : Frame(k)' = Frame(k)
    BY <2>1 DEF Frame
  <2>6. \A k \in Handlers \ {h} : Frame(k) # e
    BY <2>3 DEF Frame
  <2>7. Underway(g)' = Underway(g) \ {e} /\ e \in Underway(g)
    <3>1. /\ \A k \in Handlers \ {h} : g \in todo'[k] <=> g \in todo[k]
          /\ g \notin todo'[h]
      BY <1>0, <2>1 DEF LinkType
    <3>2. Underway(g)' = {Frame(k) : k \in {j \in Handlers : g \in todo'[j]}}
      BY <2>5 DEF Underway
    <3>3. Underway(g)' \subseteq Underway(g) \ {e}
      BY <2>6, <3>1, <3>2 DEF Underway
    <3>4. Underway(g) \ {e} \subseteq Underway(g)'
      BY <2>3, <3>1, <3>2 DEF Underway
    <3>5. e \in Underway(g)
      BY <2>1, <2>3 DEF Underway
    <3> QED BY <3>3, <3>4, <3>5
  <2>8. ASSUME NEW k \in Handlers \ {g} PROVE Underway(k)' = Underway(k)
    <3>1. \A j \in Handlers : k \in todo'[j] <=> k \in todo[j]
      BY <1>0, <2>1, <2>8 DEF LinkType
    <3> QED BY <2>5, <3>1 DEF Underway
  <2>9. \A k \in Handlers \ {g} : queue'[k] = queue[k]
    BY <1>0, <2>1 DEF LinkType
  <2>10. queue'[g] = q
    BY <1>0, <2>1 DEF LinkType
  <2>11. CASE q = Append(queue[g], e)
    <3>1. Range(queue'[g]) = Range(queue[g]) \cup {e}
      BY <1>0, <2>3, <2>10, <2>11, AppendRange DEF LinkType
    <3>2. onTheWay' = onTheWay
      BY <2>7, <2>8, <2>9, <3>1, OnTheWay
    <3> QED BY <1>s, <2>1, <2>4, <3>2
  <2>12. CASE q = queue[g]
    <3>1. e \notin Range(queue[g])
      BY <2>7, QueueFacts
    <3>2. onTheWay'[g] = onTheWay[g] \ {e} /\ e \in onTheWay[g]
      BY <2>7, <2>10, <2>12, <3>1, OnTheWay
    <3>3. \A k \in Handlers \ {g} : onTheWay'[k] = onTheWay[k]
      BY <2>8, <2>9, OnTheWay
    <3>4. onTheWay' = [onTheWay EXCEPT ![g] = @ \ {e}]
      BY <3>2, <3>3, OnTheWay
    <3>5. Network!Lose(g, e)
      BY <2>1, <2>4, <3>4 DEF Network!Lose
    <3> QED BY <3>2, <3>5 DEF Network!LanNext
  <2> QED BY <2>2, <2>11, <2>12
\* The writer takes the head of its queue, the earliest frame of its sender.
<1>8. ASSUME NEW h \in Handlers, UNCHANGED <<todo, sent, pc, room, want>>, queue[h] # << >>,
             queue' = [queue EXCEPT ![h] = Tail(@)]
      PROVE  /\ lans' = lans /\ Head(queue[h]) \in onTheWay[h]
             /\ onTheWay' = [onTheWay EXCEPT ![h] = @ \ {Head(queue[h])}]
             /\ \A e \in onTheWay[h] :
                  e.src = Head(queue[h]).src => Head(queue[h]).seq <= e.seq
  <2>1. lans' = lans
    BY <1>8, LansKept
  <2>2. \A g \in Handlers : Underway(g)' = Underway(g)
    BY <1>8, UnderwayKept
  <2>3. /\ Head(queue[h]) \in Range(queue[h])
        /\ Range(Tail(queue[h])) = Range(queue[h]) \ {Head(queue[h])}
        /\ \A e \in Range(queue[h]) : e.src = Head(queue[h]).src => Head(queue[h]).seq <= e.seq
    BY <1>8, QueueFacts, HeadOfOrder
  <2>4. /\ Head(queue[h]) \notin Underway(h)
        /\ \A e \in Underway(h) : e.src = Head(queue[h]).src => Head(queue[h]).seq <= e.seq
    BY <2>3, QueueFacts
  <2>5. queue'[h] = Tail(queue[h]) /\ \A g \in Handlers \ {h} : queue'[g] = queue[g]
    BY <1>0, <1>8 DEF LinkType
  <2> QED BY <2>1, <2>2, <2>3, <2>4, <2>5, OnTheWay
<1>9. ASSUME NEW h \in Handlers, WriteFrame(h) PROVE Network!LanNext
  <2>1. /\ UNCHANGED <<todo, sent, pc, room, want>> /\ queue[h] # << >>
        /\ queue' = [queue EXCEPT ![h] = Tail(@)]
        /\ wire' = [wire EXCEPT ![h] = Append(@, Head(queue[h]))]
    BY <1>9 DEF WriteFrame, vars
  <2>2. Network!Receive(h, Head(queue[h])) /\ Head(queue[h]) \in onTheWay[h]
    BY <1>8, <2>1 DEF Network!Receive
  <2> QED BY <2>2 DEF Network!LanNext
<1>10. ASSUME NEW h \in Handlers, WriteFails(h) PROVE Network!LanNext
  <2>1. /\ UNCHANGED <<todo, sent, wire, pc, room, want>> /\ queue[h] # << >>
        /\ queue' = [queue EXCEPT ![h] = Tail(@)]
    BY <1>10 DEF WriteFails, vars
  <2>2. Network!Lose(h, Head(queue[h])) /\ Head(queue[h]) \in onTheWay[h]
    BY <1>8, <2>1 DEF Network!Lose
  <2> QED BY <2>2 DEF Network!LanNext
<1>11. ASSUME NEW h \in Handlers, Leave(h) PROVE Network!LanNext
  <2>1. /\ UNCHANGED <<todo, sent, queue, wire, room, want>>
        /\ pc[h] = "joined" /\ pc'[h] # "joined" /\ \A g \in Handlers \ {h} : pc'[g] = pc[g]
    BY <1>0, <1>11 DEF Leave, RemovePeer, TypeOK
  <2>2. lans[h] # Null /\ lans' = [lans EXCEPT ![h] = Null]
    BY <1>0, <2>1, NullAssumption DEF lans, HandlersSound
  <2>3. onTheWay' = onTheWay
    BY <2>1, UnderwayKept, OnTheWay
  <2>4. Network!Detach(h)
    BY <2>1, <2>2, <2>3 DEF Network!Detach
  <2> QED BY <2>4 DEF Network!LanNext
<1> QED
  BY <1>1, <1>2, <1>3, <1>5, <1>6, <1>7, <1>9, <1>10, <1>11 DEF FwNext, FwStep

\* The data path implements Lan, for any handlers, rooms, queues and frames: a frame
\* reaches only peers that shared the sender's LAN when it was read, at most once and
\* in the sender's order, though Enqueue and the writers hold no lock of the room.
THEOREM ForwardingImplementsLan == FwSpec => ImplementsLan
<1>1. FwInit => Network!LanInit
  <2> SUFFICES ASSUME FwInit PROVE Network!LanInit
    OBVIOUS
  <2>1. Range(<< >>) = {}
    BY DEF Range
  <2> QED BY <2>1 DEF FwInit, Init, Network!LanInit, lans, onTheWay
<1>2. RelayInv /\ FwInv /\ [FwNext]_allVars => [Network!LanNext]_(Network!lanVars)
  BY LanStep
<1> QED BY <1>1, <1>2, FwInvariant, FwRelayInvariant, PTL
        DEF FwSpec, ImplementsLan, Network!LanSpec
-----------------------------------------------------------------------------
(* When the server dies.                                                     *)

\* Nobody leaves while a main loop still has to enqueue a frame at it, which a lock
\* around Forward and the Enqueues would ensure and the code does not.
OrderlyLeave == [][\A h, g \in Handlers : Leave(g) => g \notin todo[h]]_allVars

\* Members' queues are open, targets are members, and the server runs.
ServerSound ==
  /\ \A h \in Handlers : pc[h] = "joined" => framesOpen[h]
  /\ \A h \in Handlers : \A g \in todo[h] : pc[g] = "joined"
  /\ ~panicked

\* Every step keeps the server running, if nobody leaves under a frame.
LEMMA ServerStep ==
  ASSUME RelayInv, FwInv, ServerSound, [FwNext]_allVars,
         \A h, g \in Handlers : Leave(g) => g \notin todo[h]
  PROVE  ServerSound'
<1>0. /\ TypeOK /\ PeersSound /\ LinkType
  BY DEF RelayInv, FwInv
<1> USE DEF ServerSound
<1>1. CASE \/ UNCHANGED allVars
           \/ \E h \in Handlers : \/ Serve(h) \/ WriterEnds(h) \/ RefuseFrame(h)
                                  \/ WriteFrame(h) \/ WriteFails(h)
  <2>1. UNCHANGED <<pc, framesOpen, todo, panicked>>
    BY <1>1 DEF allVars, dataVars, linkVars, vars, peerVars, Serve, WriterEnds, RefuseFrame,
                WriteFrame, WriteFails
  <2> QED BY <2>1
<1>2. ASSUME NEW h \in Handlers, JoinStep(h) PROVE ServerSound'
  <2>1. UNCHANGED <<todo, panicked>> /\ Step(h)
    BY <1>2 DEF JoinStep, dataVars, linkVars
  <2>2. \A g \in Handlers : pc[g] = "joined" => pc'[g] = "joined"
    BY <1>0, <2>1, JoinStepEffect
  <2>3. \A g \in Handlers : pc'[g] = "joined" => framesOpen'[g]
    BY <1>0, <2>1 DEF Step, FindRoom, CreateRoom, PoolFull, AddPeerClosed, AddPeerRefused,
       AddPeer, CloseFrames, CloseFramesLast, DeleteEmptyRoom, Return, peerVars, TypeOK
  <2> QED BY <1>0, <2>1, <2>2, <2>3 DEF LinkType
<1>3. ASSUME NEW h \in Handlers, NEW n \in Names, NEW m \in RequestMACs \cup {Null},
             Connect(h, n, m)
      PROVE  ServerSound'
  BY <1>0, <1>3 DEF Connect, Collected, StartJoin, peerVars, TypeOK
<1>4. ASSUME NEW h \in Handlers, NEW dst \in MACs, ForwardFrame(h, dst) PROVE ServerSound'
  <2>1. /\ UNCHANGED <<pc, framesOpen, panicked>>
        /\ todo' = [todo EXCEPT ![h] = Targets(h, dst)] /\ pc[h] = "joined"
    BY <1>4 DEF ForwardFrame, Forward, Ready, peerVars
  <2>2. \A g \in Targets(h, dst) : pc[g] = "joined"
    <3>1. room[h] \in RoomIds
      BY <2>1, HeldRoom
    <3> QED BY <1>0, <3>1 DEF Targets, PeersSound
  <2> QED BY <1>0, <2>1, <2>2 DEF LinkType
<1>5. ASSUME NEW h \in Handlers, NEW g \in Handlers, Enqueue(h, g) PROVE ServerSound'
  <2>1. /\ UNCHANGED <<pc, framesOpen, panicked>> /\ todo' = [todo EXCEPT ![h] = @ \ {g}]
    BY <1>5 DEF Enqueue, vars, peerVars
  <2> QED BY <1>0, <2>1 DEF LinkType
<1>6. ASSUME NEW h \in Handlers, NEW g \in Handlers, EnqueueClosed(h, g) PROVE FALSE
  BY <1>6 DEF EnqueueClosed
<1>7. ASSUME NEW h \in Handlers, Leave(h) PROVE ServerSound'
  <2>1. /\ UNCHANGED <<todo, framesOpen, panicked>>
        /\ pc'[h] # "joined" /\ \A g \in Handlers \ {h} : pc'[g] = pc[g]
    BY <1>0, <1>7 DEF Leave, RemovePeer, peerVars, TypeOK
  <2> QED BY <1>0, <1>7, <2>1 DEF LinkType
<1> QED BY <1>1, <1>2, <1>3, <1>4, <1>5, <1>6, <1>7 DEF FwNext, FwStep

\* The one way to kill the server that the run for NoPanic shows is the only one:
\* it dies only if a peer leaves between Forward's lookup and the Enqueue at it.
THEOREM DiesOnlyOfDepartures == FwSpec /\ OrderlyLeave => []NoPanic
<1>1. FwInit => ServerSound
  BY DEF FwInit, Init, ServerSound
<1>2. /\ RelayInv /\ FwInv /\ ServerSound /\ [FwNext]_allVars
      /\ [\A h, g \in Handlers : Leave(g) => g \notin todo[h]]_allVars
      => ServerSound'
  <2>1. CASE UNCHANGED allVars
    BY <2>1 DEF allVars, dataVars, linkVars, vars, peerVars, ServerSound
  <2> QED BY <2>1, ServerStep
<1>3. ServerSound => NoPanic
  BY DEF ServerSound, NoPanic
<1> QED BY <1>1, <1>2, <1>3, FwInvariant, FwRelayInvariant, PTL DEF FwSpec, OrderlyLeave
==============================================================================
