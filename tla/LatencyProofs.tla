---------------------------- MODULE LatencyProofs ----------------------------
(***************************************************************************)
(* Proofs about Latency for any peers, lists, nonces, number of connections *)
(* and any interval and timeout: the latency state keeps its types, and a   *)
(* round trip is recorded only from the answer to the probe it is measured  *)
(* by.  The last section proves that no probe stays pending, for a timeout  *)
(* of up to three ticks.                                                    *)
(***************************************************************************)
EXTENDS Latency, SequenceTheorems, TLAPS

States == {"none", "unknown", "pending", "ok", "timeout"}
Entries == [state : States, pending : BOOLEAN, id : ProbeIDs \cup {None}, age : Ages, rtt : Ages]
Probes == [id : ProbeIDs, peer : Others, age : Ages]
Messages == [id : ProbeIDs, peer : Others, age : Ages, conn : Conns]

\* The types of the entries and of the messages.
LatType ==
  /\ sess \in {"away", "joined", "up"} /\ conn \in 0..MaxConns
  /\ open \in BOOLEAN /\ left \in BOOLEAN /\ connected \in BOOLEAN
  /\ order \in Seq(Others) /\ IsInjective(order)
  /\ lat \in [Others -> Entries]
  /\ tracker \in [Conns -> {"off", "wait", "pick", "write", "done"}]
  /\ held \in [Conns -> SUBSET Probes]
  /\ pong \in [Conns -> SUBSET Messages]
  /\ flight \in SUBSET Messages

\* The map follows the list, and a probe ID is kept while its probe is pending.
MapFollows ==
  \A p \in Others :
    /\ lat[p].state = "none" <=> p \notin Range(order)
    /\ lat[p].pending <=> lat[p].state = "pending"
    /\ IF lat[p].pending THEN lat[p].id \in ProbeIDs ELSE lat[p].id = None

\* Between two sessions nothing is pending and nothing under way, and within one
\* all messages under way are its own.
SessionTrue ==
  /\ open => sess # "away"
  /\ sess = "away" => me = 0 /\ flight = {} /\ \A p \in Others : ~lat[p].pending
  /\ sess # "away" => me = conn /\ conn \in Conns
  /\ \A m \in flight : m.conn = conn

\* Message m, if it has the ID of the probe pending for p, is about this probe.
IsProbe(m, p) == m.id = lat[p].id => m.peer = p /\ m.age = lat[p].age

\* Every ping and pong with the ID of a pending probe is that probe's, wherever it
\* is, and a pong about to be recorded is of the present session.
ProbesMatch ==
  \A p \in Others : lat[p].pending =>
    /\ \A m \in flight : IsProbe(m, p)
    /\ \A c \in Conns : /\ \A m \in held[c] : IsProbe(m, p)
                        /\ \A m \in pong[c] : IsProbe(m, p) /\ (m.id = lat[p].id => m.conn = me)

LatInv == LatType /\ MapFollows /\ SessionTrue /\ ProbesMatch

-----------------------------------------------------------------------------
(* The list.                                                                 *)

\* Moving one peer to the end keeps the sequence's peers, each once.
LEMMA MoveToEnd ==
  ASSUME NEW s \in Seq(Others), IsInjective(s), NEW i \in 1..Len(s)
  PROVE  LET t == Append(RemoveAt(s, i), s[i]) IN
         t \in Seq(Others) /\ IsInjective(t) /\ Range(t) = Range(s)
<1> DEFINE a == SubSeq(s, 1, i - 1)
           b == SubSeq(s, i + 1, Len(s))
           t == Append(RemoveAt(s, i), s[i])
<1>1. Len(s) \in Nat /\ s[i] \in Others /\ \A j \in 1..Len(s) : s[j] \in Others
  BY LenProperties, ElementOfSeq
<1>2. /\ a \in Seq(Others) /\ Len(a) = i - 1
      /\ \A j \in 1..i - 1 : a[j] = s[j]
  <2>1. 1 \in Int /\ i - 1 \in Int /\ \A j \in 1..i - 1 : s[j] \in Others
    BY <1>1
  <2> QED BY <1>1, <2>1, SubSeqProperties
<1>3. /\ b \in Seq(Others) /\ Len(b) = Len(s) - i
      /\ \A j \in 1..Len(s) - i : b[j] = s[j + i]
  <2>1. i + 1 \in Int /\ Len(s) \in Int /\ \A j \in i + 1..Len(s) : s[j] \in Others
    BY <1>1
  <2>2. /\ b \in Seq(Others)
        /\ Len(b) = IF i + 1 <= Len(s) THEN Len(s) - (i + 1) + 1 ELSE 0
        /\ \A j \in 1..Len(s) - (i + 1) + 1 : b[j] = s[(i + 1) + j - 1]
    BY <2>1, SubSeqProperties
  <2> QED BY <1>1, <2>2
<1> HIDE DEF a, b
<1>4. /\ RemoveAt(s, i) \in Seq(Others) /\ Len(RemoveAt(s, i)) = Len(s) - 1
      /\ \A j \in 1..Len(s) - 1 : RemoveAt(s, i)[j] = IF j < i THEN s[j] ELSE s[j + 1]
  <2>1. RemoveAt(s, i) = a \o b
    BY DEF RemoveAt, a, b
  <2>2. /\ a \o b \in Seq(Others) /\ Len(a \o b) = Len(a) + Len(b)
        /\ \A j \in 1..Len(a) + Len(b) :
             (a \o b)[j] = IF j <= Len(a) THEN a[j] ELSE b[j - Len(a)]
    BY <1>2, <1>3, ConcatProperties
  <2>3. ASSUME NEW j \in 1..Len(s) - 1 PROVE (a \o b)[j] = IF j < i THEN s[j] ELSE s[j + 1]
    <3>1. CASE j < i
      BY <1>1, <1>2, <1>3, <2>2, <3>1
    <3>2. CASE ~(j < i)
      <4>1. j - (i - 1) \in 1..Len(s) - i /\ (j - (i - 1)) + i = j + 1
        BY <1>1, <3>2
      <4>2. (a \o b)[j] = b[j - (i - 1)]
        BY <1>1, <1>2, <1>3, <2>2, <3>2
      <4> QED BY <1>3, <3>2, <4>1, <4>2
    <3> QED BY <3>1, <3>2
  <2> QED BY <1>1, <1>2, <1>3, <2>1, <2>2, <2>3
<1>5. /\ t \in Seq(Others) /\ Len(t) = Len(s)
      /\ \A j \in 1..Len(s) : t[j] = IF j < i THEN s[j] ELSE IF j < Len(s) THEN s[j + 1] ELSE s[i]
  <2>1. /\ t \in Seq(Others) /\ Len(t) = Len(RemoveAt(s, i)) + 1
        /\ \A j \in 1..Len(RemoveAt(s, i)) : t[j] = RemoveAt(s, i)[j]
        /\ t[Len(RemoveAt(s, i)) + 1] = s[i]
    BY <1>1, <1>4, AppendProperties
  <2> QED BY <1>1, <1>4, <2>1
<1>6. DOMAIN s = 1..Len(s) /\ DOMAIN t = 1..Len(s)
  BY <1>5, LenProperties
<1> HIDE DEF t
<1>7. \A j, k \in 1..Len(s) : s[j] = s[k] => j = k
  BY <1>6 DEF IsInjective
<1>8. IsInjective(t)
  <2> SUFFICES ASSUME NEW j \in 1..Len(s), NEW k \in 1..Len(s), t[j] = t[k] PROVE j = k
    BY <1>6 DEF IsInjective
  <2> DEFINE from(n) == IF n < i THEN n ELSE IF n < Len(s) THEN n + 1 ELSE i
  <2>1. ASSUME NEW n \in 1..Len(s) PROVE from(n) \in 1..Len(s) /\ t[n] = s[from(n)]
    <3>1. CASE n < i
      BY <1>1, <1>5, <3>1
    <3>2. CASE ~(n < i) /\ n < Len(s)
      BY <1>1, <1>5, <3>2
    <3>3. CASE ~(n < i) /\ ~(n < Len(s))
      BY <1>1, <1>5, <3>3
    <3> QED BY <3>1, <3>2, <3>3
  <2>2. from(j) = from(k)
    BY <1>7, <2>1
  <2> QED BY <1>1, <2>2
<1>9. Range(t) = Range(s)
  <2>1. Range(s) = {s[j] : j \in 1..Len(s)} /\ Range(t) = {t[j] : j \in 1..Len(s)}
    BY <1>6 DEF Range
  <2>2. ASSUME NEW j \in 1..Len(s) PROVE \E k \in 1..Len(s) : t[j] = s[k]
    BY <1>1, <1>5
  <2>3. ASSUME NEW j \in 1..Len(s) PROVE \E k \in 1..Len(s) : s[j] = t[k]
    <3>1. CASE j < i
      BY <1>1, <1>5, <3>1
    <3>2. CASE j = i
      BY <1>1, <1>5, <3>2
    <3>3. CASE j > i
      <4>1. j - 1 \in 1..Len(s) /\ t[j - 1] = s[j]
        BY <1>1, <1>5, <3>3
      <4> QED BY <4>1
    <3> QED BY <1>1, <3>1, <3>2, <3>3
  <2> QED BY <2>1, <2>2, <2>3
<1> QED BY <1>5, <1>8, <1>9 DEF t

\* The empty list.
LEMMA EmptyList == << >> \in Seq(Others) /\ IsInjective(<< >>) /\ Range(<< >>) = {}
<1>1. << >> \in Seq(Others) /\ Len(<< >>) = 0
  BY EmptySeq
<1>2. DOMAIN << >> = {}
  BY <1>1, LenProperties
<1> QED BY <1>1, <1>2 DEF IsInjective, Range

\* The entries that are written are entries.
LEMMA EntryTypes ==
  /\ Ages = 0..Interval /\ 0 \in Ages /\ Interval \in Ages
  /\ \A n \in Ages : Older(n) \in Ages
  /\ Absent \in Entries /\ Unknown \in Entries
  /\ Absent.state = "none" /\ ~Absent.pending /\ Absent.id = None
  /\ Unknown.state = "unknown" /\ ~Unknown.pending /\ Unknown.id = None
  /\ \A id \in ProbeIDs : /\ Pending(id) \in Entries
                          /\ Pending(id).state = "pending" /\ Pending(id).pending
                          /\ Pending(id).id = id /\ Pending(id).age = 0
<1>1. Interval \in Nat
  BY LatencyAssumption
<1>2. Ages = 0..Interval /\ 0 \in Ages /\ Interval \in Ages /\ \A n \in Ages : Older(n) \in Ages
  BY <1>1 DEF Ages, Older
<1>3. /\ Absent \in Entries /\ Unknown \in Entries
      /\ Absent.state = "none" /\ ~Absent.pending /\ Absent.id = None
      /\ Unknown.state = "unknown" /\ ~Unknown.pending /\ Unknown.id = None
  BY <1>2 DEF Absent, Unknown, Entries, States
<1>4. ASSUME NEW id \in ProbeIDs
      PROVE  /\ Pending(id) \in Entries
             /\ Pending(id).state = "pending" /\ Pending(id).pending
             /\ Pending(id).id = id /\ Pending(id).age = 0
  BY <1>2 DEF Pending, Entries, States
<1> QED BY <1>2, <1>3, <1>4

-----------------------------------------------------------------------------
(* The steps.                                                                *)

\* Nothing is listed, pending or under way at first.
LEMMA LatInit == Init => LatInv
<1> SUFFICES ASSUME Init PROVE LatInv
  OBVIOUS
<1> USE DEF Init
<1>1. \A p \in Others : lat[p] = Absent
  OBVIOUS
<1>2. LatType
  <2>1. lat \in [Others -> Entries]
    BY EntryTypes
  <2>2. /\ tracker \in [Conns -> {"off", "wait", "pick", "write", "done"}]
        /\ held \in [Conns -> SUBSET Probes] /\ pong \in [Conns -> SUBSET Messages]
        /\ flight \in SUBSET Messages /\ conn \in 0..MaxConns
    BY LatencyAssumption
  <2>3. order \in Seq(Others) /\ IsInjective(order)
    BY EmptyList
  <2> QED BY <2>1, <2>2, <2>3 DEF LatType
<1>3. MapFollows
  BY <1>1, EntryTypes, EmptyList DEF MapFollows
<1>4. SessionTrue /\ ProbesMatch
  BY <1>1, EntryTypes DEF SessionTrue, ProbesMatch
<1> QED BY <1>2, <1>3, <1>4 DEF LatInv

\* keepLatencyPeersLocked makes the map follow the list, and a probe that is
\* pending afterwards was pending before.
LEMMA KeepEffect ==
  ASSUME LatType, MapFollows, NEW l \in Lists, KeepLatencyPeers(l)
  PROVE  /\ order' \in Seq(Others) /\ IsInjective(order)' /\ lat' \in [Others -> Entries]
         /\ MapFollows'
         /\ \A p \in Others : lat'[p].pending => lat[p].pending /\ lat'[p] = lat[p]
<1>1. order' = l /\ l \in Seq(Others) /\ IsInjective(l)
  BY LatencyAssumption DEF KeepLatencyPeers
<1>2. \A p \in Others : lat'[p] = IF p \notin Range(l) THEN Absent
                                  ELSE IF lat[p].state = "none" THEN Unknown ELSE lat[p]
  BY DEF KeepLatencyPeers
<1>3. \A p \in Others : lat'[p] \in Entries
  BY <1>2, EntryTypes DEF LatType
<1>4. lat' \in [Others -> Entries]
  BY <1>3 DEF KeepLatencyPeers
<1>5. MapFollows'
  BY <1>1, <1>2, EntryTypes DEF MapFollows
<1>6. \A p \in Others : lat'[p].pending => lat[p].pending /\ lat'[p] = lat[p]
  BY <1>2, EntryTypes
<1> QED BY <1>1, <1>4, <1>5, <1>6

\* A step that makes no message and no pending probe keeps them matched.
LEMMA MatchKept ==
  ASSUME ProbesMatch, me' = me,
         \A p \in Others : lat'[p].pending =>
           lat[p].pending /\ lat'[p].id = lat[p].id /\ lat'[p].age = lat[p].age,
         flight' \subseteq flight,
         \A c \in Conns : held'[c] \subseteq held[c] /\ pong'[c] \subseteq pong[c]
  PROVE  ProbesMatch'
BY DEF ProbesMatch, IsProbe

\* The session begins, fails, is left or ends.
LEMMA SessionStep ==
  ASSUME LatInv, (\E l \in Lists : Joined(l)) \/ Start \/ Lose \/ Leave \/ EndSession
  PROVE  LatInv'
<1> USE DEF LatInv
<1>1. ASSUME NEW l \in Lists, Joined(l) PROVE LatInv'
  <2>1. /\ sess = "away" /\ sess' = "joined" /\ conn' = conn + 1 /\ conn < MaxConns /\ open' = TRUE
        /\ connected' = TRUE /\ me' = conn + 1 /\ UNCHANGED <<left, tracker, held, pong, flight>>
        /\ KeepLatencyPeers(l)
    BY <1>1 DEF Joined
  <2>2. /\ order' \in Seq(Others) /\ IsInjective(order)' /\ lat' \in [Others -> Entries]
        /\ MapFollows' /\ \A p \in Others : lat'[p].pending => lat[p].pending
    BY <2>1, KeepEffect
  <2>3. flight = {} /\ \A p \in Others : ~lat'[p].pending
    BY <2>1, <2>2 DEF SessionTrue
  <2>4. conn' \in 0..MaxConns /\ conn' \in Conns
    BY <2>1, LatencyAssumption DEF LatType, Conns
  <2>5. LatType'
    BY <2>1, <2>2, <2>4 DEF LatType
  <2>6. SessionTrue' /\ ProbesMatch'
    BY <2>1, <2>3, <2>4 DEF SessionTrue, ProbesMatch
  <2> QED BY <2>2, <2>5, <2>6
<1>2. CASE Start \/ Lose \/ Leave
  <2>1. /\ UNCHANGED <<conn, me, order, lat, held, pong, flight>>
        /\ (sess' # "away" /\ sess # "away") \/ sess' = sess
        /\ open' => open
    BY <1>2 DEF Start, Lose, Leave, statusVars
  <2>2. LatType'
    <3>1. CASE Start
      BY <3>1 DEF Start, statusVars, LatType
    <3>2. CASE Lose \/ Leave
      BY <3>2 DEF Lose, Leave, statusVars, LatType
    <3> QED BY <1>2, <3>1, <3>2
  <2>3. MapFollows' /\ ProbesMatch'
    BY <2>1, MatchKept DEF MapFollows
  <2>4. SessionTrue'
    BY <1>2, <2>1 DEF SessionTrue, Start, Lose, Leave
  <2> QED BY <2>2, <2>3, <2>4
<1>3. CASE EndSession
  <2>1. /\ sess' = "away" /\ open' = FALSE /\ connected' = FALSE /\ me' = 0
        /\ order' = << >> /\ lat' = [p \in Others |-> Absent] /\ flight' = {}
        /\ UNCHANGED <<conn, left, tracker, held, pong>>
    BY <1>3 DEF EndSession
  <2>2. \A p \in Others : lat'[p] = Absent
    BY <2>1
  <2>3. LatType'
    BY <2>1, EntryTypes, EmptyList DEF LatType
  <2>4. MapFollows'
    BY <2>1, <2>2, EntryTypes, EmptyList DEF MapFollows
  <2>5. SessionTrue' /\ ProbesMatch'
    BY <2>1, <2>2, EntryTypes DEF SessionTrue, ProbesMatch
  <2> QED BY <2>3, <2>4, <2>5
<1> QED BY <1>1, <1>2, <1>3

\* A nonce that is drawn is in no message.
LEMMA NonceIsFresh ==
  ASSUME LatType, Fresh # {}
  PROVE  /\ NonceHex \in ProbeIDs
         /\ \A m \in flight : m.id # NonceHex
         /\ \A c \in Conns : \A m \in held[c] \cup pong[c] : m.id # NonceHex
         /\ \A p \in Others : lat[p].id # NonceHex
<1>1. NonceHex \in Fresh
  BY DEF NonceHex
<1> QED BY <1>1 DEF Fresh, Used

\* The steps of a tracker.
LEMMA TrackersStep ==
  ASSUME LatInv, NEW c \in Conns, TrackerStep(c) \/ StopTracker(c)
  PROVE  LatInv'
<1> USE DEF LatInv
<1>1. CASE ExpireLatencyProbes(c)
  <2>1. /\ UNCHANGED <<sess, conn, open, left, connected, me, order, held, pong, flight>>
        /\ tracker' = [tracker EXCEPT ![c] = "pick"]
        /\ lat' = [p \in Others |->
                     IF Expired(lat[p])
                     THEN [lat[p] EXCEPT !.state = "timeout", !.pending = FALSE, !.id = None]
                     ELSE lat[p]]
    BY <1>1 DEF ExpireLatencyProbes, sessVars
  <2>2. ASSUME NEW p \in Others
        PROVE  /\ lat'[p] \in Entries
               /\ \/ lat'[p] = lat[p]
                  \/ /\ lat[p].pending /\ lat'[p].state = "timeout"
                     /\ lat'[p].pending = FALSE /\ lat'[p].id = None
    <3>1. lat[p] \in Entries
      BY DEF LatType
    <3>2. CASE Expired(lat[p])
      BY <2>1, <3>1, <3>2 DEF Expired, Entries, States
    <3>3. CASE ~Expired(lat[p])
      BY <2>1, <3>1, <3>3
    <3> QED BY <3>2, <3>3
  <2>3. lat' \in [Others -> Entries]
    BY <2>1, <2>2
  <2>4. LatType'
    BY <2>1, <2>3 DEF LatType
  <2>5. MapFollows'
    BY <2>1, <2>2 DEF MapFollows
  <2>6. SessionTrue'
    BY <2>1, <2>2 DEF SessionTrue
  <2>7. ProbesMatch'
    BY <2>1, <2>2, MatchKept
  <2> QED BY <2>4, <2>5, <2>6, <2>7
<1>2. CASE NextLatencyProbe(c)
  <2>1. /\ UNCHANGED <<sess, conn, open, left, connected, me, pong, flight>>
        /\ tracker' = [tracker EXCEPT ![c] = "write"] /\ Fresh # {}
    BY <1>2 DEF NextLatencyProbe, sessVars
  <2>2. PICK i \in 1..Len(order) :
          /\ FirstDue(i)
          /\ lat' = [lat EXCEPT ![order[i]] = Pending(NonceHex)]
          /\ held' = [held EXCEPT ![c] = {[id |-> NonceHex, peer |-> order[i], age |-> 0]}]
          /\ order' = Append(RemoveAt(order, i), order[i])
    BY <1>2 DEF NextLatencyProbe
  <2> DEFINE q == order[i]
             new == [id |-> NonceHex, peer |-> q, age |-> 0]
  <2>3. /\ q \in Others /\ q \in Range(order) /\ me # 0 /\ connected
        /\ order' \in Seq(Others) /\ IsInjective(order)' /\ Range(order') = Range(order)
    BY <2>2, ElementOfSeq, MoveToEnd DEF LatType, FirstDue, Due
  <2>4. /\ NonceHex \in ProbeIDs /\ new \in Probes
        /\ new.id = NonceHex /\ new.peer = q /\ new.age = 0
    BY <2>1, <2>3, NonceIsFresh, EntryTypes DEF Probes
  <2>5. /\ lat' \in [Others -> Entries] /\ lat'[q] = Pending(NonceHex)
        /\ \A p \in Others : p # q => lat'[p] = lat[p]
    BY <2>2, <2>3, <2>4, EntryTypes DEF LatType
  <2>6. /\ held' \in [Conns -> SUBSET Probes] /\ held'[c] = {new}
        /\ \A d \in Conns : d # c => held'[d] = held[d]
    BY <2>2, <2>4 DEF LatType
  <2>7. LatType'
    BY <2>1, <2>3, <2>5, <2>6 DEF LatType
  <2>8. MapFollows'
    BY <2>3, <2>4, <2>5, EntryTypes DEF MapFollows
  <2>9. SessionTrue'
    BY <2>1, <2>3 DEF SessionTrue
  <2>10. ASSUME NEW p \in Others, lat'[p].pending
         PROVE  /\ \A m \in flight' : IsProbe(m, p)'
                /\ \A d \in Conns : /\ \A m \in held'[d] : IsProbe(m, p)'
                                    /\ \A m \in pong'[d] : /\ IsProbe(m, p)'
                                                           /\ m.id = lat'[p].id => m.conn = me'
    <3> HIDE DEF new
    <3>1. CASE p = q
      BY <2>1, <2>4, <2>5, <2>6, <3>1, NonceIsFresh, EntryTypes DEF IsProbe
    <3>2. CASE p # q
      BY <2>1, <2>4, <2>5, <2>6, <2>10, <3>2, NonceIsFresh DEF IsProbe, ProbesMatch
    <3> QED BY <3>1, <3>2
  <2> QED BY <2>7, <2>8, <2>9, <2>10 DEF ProbesMatch
<1>3. CASE NoProbe(c) \/ StopTracker(c)
  <2>1. /\ UNCHANGED <<sess, conn, open, left, connected, me, order, lat, held, pong, flight>>
        /\ tracker' = [tracker EXCEPT ![c] = "wait"] \/ tracker' = [tracker EXCEPT ![c] = "done"]
    BY <1>3 DEF NoProbe, StopTracker, sessVars, statusVars
  <2>2. LatType'
    BY <2>1 DEF LatType
  <2> QED BY <2>1, <2>2, MatchKept DEF MapFollows, SessionTrue
<1>4. CASE WritePing(c)
  <2>1. /\ UNCHANGED <<sess, conn, open, left, connected, me, order, lat, pong>>
        /\ held' = [held EXCEPT ![c] = {}]
        /\ tracker' = [tracker EXCEPT ![c] = "wait"] \/ tracker' = [tracker EXCEPT ![c] = "done"]
        /\ \/ flight' = flight
           \/ /\ c = conn /\ open
              /\ flight' = flight \cup {[id |-> m.id, peer |-> m.peer, age |-> m.age, conn |-> c]
                                        : m \in held[c]}
    BY <1>4 DEF WritePing, sessVars, statusVars
  <2>2. /\ held' \in [Conns -> SUBSET Probes]
        /\ \A d \in Conns : held'[d] \subseteq held[d]
    BY <2>1 DEF LatType
  <2>3. ASSUME NEW m \in flight'
        PROVE  /\ m \in Messages /\ m.conn = conn /\ sess # "away"
               /\ m \in flight \/ \E h \in held[c] : h.id = m.id /\ h.peer = m.peer /\ h.age = m.age
    <3>1. CASE m \in flight
      BY <3>1 DEF LatType, SessionTrue
    <3>2. CASE m \notin flight
      <4>1. PICK h \in held[c] : m = [id |-> h.id, peer |-> h.peer, age |-> h.age, conn |-> c]
        BY <2>1, <3>2
      <4>2. h \in Probes
        BY DEF LatType
      <4> QED BY <2>1, <3>2, <4>1, <4>2 DEF Probes, Messages, SessionTrue
    <3> QED BY <3>1, <3>2
  <2>4. LatType'
    BY <2>1, <2>2, <2>3 DEF LatType
  <2>5. MapFollows'
    BY <2>1 DEF MapFollows
  <2>6. SessionTrue'
    BY <2>1, <2>3 DEF SessionTrue
  <2>7. ProbesMatch'
    BY <2>1, <2>2, <2>3 DEF ProbesMatch, IsProbe
  <2> QED BY <2>4, <2>5, <2>6, <2>7
<1> QED BY <1>1, <1>2, <1>3, <1>4 DEF TrackerStep

\* What the relay and readControl do with a message or a list.
LEMMA ReaderStep ==
  ASSUME LatInv,
         \/ Delivery
         \/ \E c \in Conns : RecordLatencyPong(c) \/ \E l \in Lists : UpdatePeers(c, l)
  PROVE  LatInv'
<1> USE DEF LatInv
<1>1. ASSUME NEW m \in flight, LoseMessage(m) PROVE LatInv'
  <2>1. /\ UNCHANGED <<sess, conn, open, left, connected, me, order, lat, tracker, held, pong>>
        /\ flight' = flight \ {m}
    BY <1>1 DEF LoseMessage, sessVars, statusVars
  <2>2. LatType' /\ MapFollows' /\ SessionTrue'
    BY <2>1 DEF LatType, MapFollows, SessionTrue
  <2> QED BY <2>1, <2>2, MatchKept
<1>2. ASSUME NEW m \in flight, NEW c \in Conns, HandlePong(c, m) PROVE LatInv'
  <2>1. /\ UNCHANGED <<sess, conn, open, left, connected, me, order, lat, tracker, held>>
        /\ flight' = flight \ {m} /\ m.conn = c /\ me = c
        /\ pong' = [pong EXCEPT ![c] = {m}]
    BY <1>2 DEF HandlePong, sessVars, statusVars
  <2>2. /\ pong' \in [Conns -> SUBSET Messages] /\ pong'[c] = {m}
        /\ \A d \in Conns : d # c => pong'[d] = pong[d]
    BY <2>1 DEF LatType
  <2>3. LatType' /\ MapFollows' /\ SessionTrue'
    BY <2>1, <2>2 DEF LatType, MapFollows, SessionTrue
  <2>4. ProbesMatch'
    BY <2>1, <2>2 DEF ProbesMatch, IsProbe
  <2> QED BY <2>3, <2>4
<1>3. ASSUME NEW c \in Conns, RecordLatencyPong(c) PROVE LatInv'
  <2>1. /\ UNCHANGED <<sess, conn, open, left, connected, me, order, tracker, held, flight>>
        /\ pong' = [pong EXCEPT ![c] = {}]
    BY <1>3 DEF RecordLatencyPong, sessVars
  <2>2. PICK m \in pong[c] :
          lat' = IF Answers(m)
                 THEN [lat EXCEPT ![m.peer] = [@ EXCEPT !.state = "ok", !.pending = FALSE,
                                                        !.id = None, !.rtt = lat[m.peer].age]]
                 ELSE lat
    BY <1>3 DEF RecordLatencyPong
  <2>3. m.peer \in Others /\ lat[m.peer] \in Entries
    BY DEF LatType, Messages
  <2>4. /\ lat' \in [Others -> Entries]
        /\ \A p \in Others : \/ lat'[p] = lat[p]
                             \/ /\ lat[p].pending /\ lat'[p].state = "ok"
                                /\ lat'[p].pending = FALSE /\ lat'[p].id = None
    <3>1. CASE Answers(m)
      <4> DEFINE e == [lat[m.peer] EXCEPT !.state = "ok", !.pending = FALSE,
                                          !.id = None, !.rtt = lat[m.peer].age]
      <4>1. e \in Entries /\ e.state = "ok" /\ e.pending = FALSE /\ e.id = None
        BY <2>3 DEF Entries, States
      <4>2. lat' = [lat EXCEPT ![m.peer] = e]
        BY <2>2, <3>1
      <4> HIDE DEF e
      <4> QED BY <2>3, <3>1, <4>1, <4>2 DEF Answers, LatType
    <3>2. CASE ~Answers(m)
      BY <2>2, <3>2 DEF LatType
    <3> QED BY <3>1, <3>2
  <2>5. /\ pong' \in [Conns -> SUBSET Messages]
        /\ \A d \in Conns : pong'[d] \subseteq pong[d]
    BY <2>1 DEF LatType
  <2>6. LatType'
    BY <2>1, <2>4, <2>5 DEF LatType
  <2>7. MapFollows'
    BY <2>1, <2>4 DEF MapFollows
  <2>8. SessionTrue'
    BY <2>1, <2>4 DEF SessionTrue
  <2>9. ProbesMatch'
    BY <2>1, <2>4, <2>5, MatchKept
  <2> QED BY <2>6, <2>7, <2>8, <2>9
<1>4. ASSUME NEW c \in Conns, NEW l \in Lists, UpdatePeers(c, l) PROVE LatInv'
  <2>1. /\ UNCHANGED <<sess, conn, open, left, connected, me, tracker, held, pong, flight>>
        /\ KeepLatencyPeers(l)
    BY <1>4 DEF UpdatePeers, sessVars
  <2>2. /\ order' \in Seq(Others) /\ IsInjective(order)' /\ lat' \in [Others -> Entries]
        /\ MapFollows'
        /\ \A p \in Others : lat'[p].pending => lat[p].pending /\ lat'[p] = lat[p]
    BY <2>1, KeepEffect
  <2>3. LatType'
    BY <2>1, <2>2 DEF LatType
  <2>4. SessionTrue'
    BY <2>1, <2>2 DEF SessionTrue
  <2>5. ProbesMatch'
    BY <2>1, <2>2, MatchKept
  <2> QED BY <2>2, <2>3, <2>4, <2>5
<1> QED BY <1>1, <1>2, <1>3, <1>4 DEF Delivery

\* Time makes a probe and the messages about it older alike.
LEMMA TickStep == ASSUME LatInv, Tick PROVE LatInv'
<1> USE DEF LatInv
<1>1. /\ UNCHANGED <<sess, conn, open, left, connected, me, order, tracker>>
      /\ lat' = [p \in Others |-> [lat[p] EXCEPT !.age = Older(@)]]
      /\ held' = [c \in Conns |-> OlderAll(held[c])]
      /\ pong' = [c \in Conns |-> OlderAll(pong[c])]
      /\ flight' = OlderAll(flight)
  BY DEF Tick, sessVars
<1>2. ASSUME NEW p \in Others
      PROVE  /\ lat'[p] \in Entries /\ lat'[p].age = Older(lat[p].age)
             /\ lat'[p].state = lat[p].state /\ lat'[p].pending = lat[p].pending
             /\ lat'[p].id = lat[p].id
  <2>1. lat[p] \in Entries /\ lat'[p] = [lat[p] EXCEPT !.age = Older(@)]
    BY <1>1 DEF LatType
  <2>2. Older(lat[p].age) \in Ages
    BY <2>1, EntryTypes DEF Entries
  <2> QED BY <2>1, <2>2 DEF Entries
<1>3. ASSUME NEW S \in SUBSET Messages, NEW n \in OlderAll(S)
      PROVE  /\ n \in Messages
             /\ \E m \in S : /\ n.id = m.id /\ n.peer = m.peer /\ n.conn = m.conn
                             /\ n.age = Older(m.age)
  <2>1. PICK m \in S : n = [m EXCEPT !.age = Older(@)]
    BY <1>3 DEF OlderAll
  <2>2. m \in Messages /\ Older(m.age) \in Ages
    BY <2>1, EntryTypes DEF Messages
  <2> QED BY <2>1, <2>2 DEF Messages
<1>4. ASSUME NEW S \in SUBSET Probes, NEW n \in OlderAll(S)
      PROVE  /\ n \in Probes
             /\ \E m \in S : n.id = m.id /\ n.peer = m.peer /\ n.age = Older(m.age)
  <2>1. PICK m \in S : n = [m EXCEPT !.age = Older(@)]
    BY <1>4 DEF OlderAll
  <2>2. m \in Probes /\ Older(m.age) \in Ages
    BY <2>1, EntryTypes DEF Probes
  <2> QED BY <2>1, <2>2 DEF Probes
<1>5. /\ \A c \in Conns : /\ held[c] \in SUBSET Probes /\ held'[c] = OlderAll(held[c])
                          /\ pong[c] \in SUBSET Messages /\ pong'[c] = OlderAll(pong[c])
      /\ flight \in SUBSET Messages
  BY <1>1 DEF LatType
<1>6. LatType'
  <2>1. lat' \in [Others -> Entries]
    BY <1>1, <1>2
  <2>2. held' \in [Conns -> SUBSET Probes]
    BY <1>1, <1>4, <1>5
  <2>3. pong' \in [Conns -> SUBSET Messages] /\ flight' \in SUBSET Messages
    BY <1>1, <1>3, <1>5
  <2> QED BY <1>1, <2>1, <2>2, <2>3 DEF LatType
<1>7. MapFollows'
  BY <1>1, <1>2 DEF MapFollows
<1>8. SessionTrue'
  <2>1. flight = {} => flight' = {}
    BY <1>1 DEF OlderAll
  <2>2. \A m \in flight' : m.conn = conn
    BY <1>1, <1>3, <1>5 DEF SessionTrue
  <2> QED BY <1>1, <1>2, <2>1, <2>2 DEF SessionTrue
<1>9. ASSUME NEW p \in Others, lat'[p].pending
      PROVE  /\ \A m \in flight' : IsProbe(m, p)'
             /\ \A c \in Conns : /\ \A m \in held'[c] : IsProbe(m, p)'
                                 /\ \A m \in pong'[c] : /\ IsProbe(m, p)'
                                                        /\ m.id = lat'[p].id => m.conn = me'
  <2>1. /\ lat[p].pending /\ lat'[p].id = lat[p].id /\ lat'[p].age = Older(lat[p].age)
        /\ me' = me
    BY <1>1, <1>2, <1>9
  <2>2. \A m \in flight' : IsProbe(m, p)'
    BY <1>1, <1>3, <1>5, <2>1 DEF ProbesMatch, IsProbe
  <2>3. ASSUME NEW c \in Conns PROVE \A m \in held'[c] : IsProbe(m, p)'
    BY <1>4, <1>5, <2>1 DEF ProbesMatch, IsProbe
  <2>4. ASSUME NEW c \in Conns
        PROVE  \A m \in pong'[c] : IsProbe(m, p)' /\ (m.id = lat'[p].id => m.conn = me')
    BY <1>3, <1>5, <2>1 DEF ProbesMatch, IsProbe
  <2> QED BY <2>2, <2>3, <2>4
<1> QED BY <1>6, <1>7, <1>8, <1>9 DEF ProbesMatch

\* Every step keeps the invariant of the latency state.
LEMMA LatStep == LatInv /\ [Next]_vars => LatInv'
<1> SUFFICES ASSUME LatInv, [Next]_vars PROVE LatInv'
  OBVIOUS
<1>1. CASE UNCHANGED vars
  BY <1>1 DEF LatInv, LatType, MapFollows, SessionTrue, ProbesMatch, IsProbe,
              vars, sessVars, statusVars
<1>2. CASE Next
  BY <1>2, SessionStep, TrackersStep, ReaderStep, TickStep DEF Next
<1> QED BY <1>1, <1>2

-----------------------------------------------------------------------------
\* The invariant holds in every reachable state.
THEOREM LatInvariant == Spec => []LatInv
BY LatInit, LatStep, PTL DEF Spec

\* The latency state keeps its types: the map has an entry for each listed peer
\* and for no other, however lists, sessions and probes follow each other.
THEOREM LatencyTypes == Spec => []TypeOK
<1>1. LatInv => TypeOK
  <2> SUFFICES ASSUME LatInv PROVE TypeOK
    OBVIOUS
  <2>1. me \in {0, conn}
    BY DEF LatInv, SessionTrue, LatType
  <2>2. \A p \in Others : /\ lat[p].state \in States
                          /\ lat[p].age \in Ages /\ lat[p].rtt \in Ages
    BY DEF LatInv, LatType, Entries
  <2>3. \A m \in flight : m.id \in ProbeIDs /\ m.peer \in Others /\ m.conn \in Conns
    BY DEF LatInv, LatType, Messages
  <2> QED BY <2>1, <2>2, <2>3 DEF LatInv, LatType, MapFollows, TypeOK, States
<1> QED BY <1>1, LatInvariant, PTL

\* A recorded round trip is the age of the ping that was answered, of the peer
\* that answered it, on the present connection: for any number of reconnects and
\* of trackers that outlive their connection.
THEOREM RoundTripsAreGenuine == Spec => RoundTripsGenuine
<1>1. ASSUME LatInv, [Next]_vars, NEW p \in Others,
             lat[p].state = "pending", lat'[p].state = "ok"
      PROVE  \E c \in Conns : \E m \in pong[c] :
               m.peer = p /\ m.age = lat'[p].rtt /\ m.conn = me
  <2>1. lat[p].pending /\ lat[p] \in Entries
    BY <1>1 DEF LatInv, MapFollows, LatType
  <2>2. ASSUME NEW c \in Conns, RecordLatencyPong(c)
        PROVE  \E m \in pong[c] : m.peer = p /\ m.age = lat'[p].rtt /\ m.conn = me
    <3>1. PICK m \in pong[c] :
            lat' = IF Answers(m)
                   THEN [lat EXCEPT ![m.peer] = [@ EXCEPT !.state = "ok", !.pending = FALSE,
                                                          !.id = None, !.rtt = lat[m.peer].age]]
                   ELSE lat
      BY <2>2 DEF RecordLatencyPong
    <3>2. Answers(m) /\ m.peer = p
      BY <1>1, <3>1 DEF LatInv, LatType
    <3>3. lat'[p].rtt = lat[p].age
      <4> DEFINE e == [lat[p] EXCEPT !.state = "ok", !.pending = FALSE,
                                     !.id = None, !.rtt = lat[p].age]
      <4>1. e.rtt = lat[p].age
        BY <2>1 DEF Entries
      <4>2. lat' = [lat EXCEPT ![p] = e] /\ lat \in [Others -> Entries]
        BY <1>1, <3>1, <3>2 DEF LatInv, LatType
      <4> HIDE DEF e
      <4> QED BY <4>1, <4>2
    <3>4. m.age = lat[p].age /\ m.conn = me
      BY <1>1, <2>1, <3>2 DEF LatInv, ProbesMatch, IsProbe, Answers
    <3> QED BY <3>2, <3>3, <3>4
  <2>3. \E c \in Conns : RecordLatencyPong(c)
    <3>1. \A q \in Others : lat[q] \in Entries
      BY <1>1 DEF LatInv, LatType
    <3>2. ~\E l \in Lists : KeepLatencyPeers(l)
      BY <1>1, EntryTypes DEF KeepLatencyPeers
    <3>3. ~EndSession
      BY <1>1, EntryTypes DEF EndSession
    <3>4. ASSUME NEW c \in Conns PROVE ~ExpireLatencyProbes(c)
      <4> DEFINE e == [lat[p] EXCEPT !.state = "timeout", !.pending = FALSE, !.id = None]
      <4>1. e.state = "timeout"
        BY <2>1 DEF Entries
      <4>2. ExpireLatencyProbes(c) => lat'[p] = lat[p] \/ lat'[p] = e
        BY DEF ExpireLatencyProbes
      <4> HIDE DEF e
      <4> QED BY <1>1, <4>1, <4>2
    <3>5. ASSUME NEW c \in Conns PROVE ~NextLatencyProbe(c)
      <4> SUFFICES ASSUME NextLatencyProbe(c) PROVE FALSE
        OBVIOUS
      <4>1. \E q : lat' = [lat EXCEPT ![q] = Pending(NonceHex)]
        BY DEF NextLatencyProbe
      <4>2. lat'[p] = lat[p] \/ lat'[p] = Pending(NonceHex)
        BY <1>1, <4>1 DEF LatInv, LatType
      <4>3. Pending(NonceHex).state = "pending"
        BY DEF Pending
      <4> QED BY <1>1, <4>2, <4>3
    <3>6. ~Tick
      BY <1>1, <2>1 DEF Tick, Entries
    <3>7. lat' # lat
      BY <1>1
    <3> QED
      BY <1>1, <3>2, <3>3, <3>4, <3>5, <3>6, <3>7
         DEF Next, vars, statusVars, Joined, Start, Lose, Leave, TrackerStep, NoProbe, WritePing,
             StopTracker, UpdatePeers, Delivery, LoseMessage, HandlePong
  <2> QED BY <2>2, <2>3
<1>2. LatInv /\ [Next]_vars =>
        [\A p \in Others : lat[p].state = "pending" /\ lat'[p].state = "ok" =>
           \E c \in Conns : \E m \in pong[c] :
             m.peer = p /\ m.age = lat'[p].rtt /\ m.conn = me]_vars
  BY <1>1
<1> QED BY <1>2, LatInvariant, PTL DEF Spec, RoundTripsGenuine
-----------------------------------------------------------------------------
(* Probes end.  The fairness of Latency is written with enabling conditions   *)
(* in place of ENABLED, which the provers do not reason about.                *)

\* The session works, has been accepted only, or is about to return.
Up       == sess = "up" /\ open /\ ~left
Starting == sess = "joined" /\ open /\ ~left
Broken   == sess # "away" /\ (~open \/ left)
Away     == sess = "away"

\* WF_vars(Tick): a tick changes something while some entry is young.
Young == \E p \in Others : lat[p].age < Interval
TimePasses == []<>~Young \/ []<><<Tick>>_vars

\* WF_vars(Start), and the same for the return of a session without a connection or
\* a context.
StartRuns == []<>~(sess = "joined" /\ open) \/ []<><<Start>>_vars
EndRuns   == []<>~Broken \/ []<><<EndSession /\ (~open \/ left)>>_vars

\* The tracker of the working connection runs on.  This follows from
\* WF_vars(TrackerStep(c)) for each c, as conn does not change while a session is up.
TrackerRuns == []<>~Up \/ []<><<Up /\ TrackerStep(conn)>>_vars

\* Where the tracker of the working connection is.
UpAt(l) == Up /\ conn \in Conns /\ tracker[conn] = l

\* A session that is up has a tracker that has not ended.
TrackerSound == Up => UpAt("wait") \/ UpAt("pick") \/ UpAt("write")

\* The steps of the session's tracker while it is up.
LEMMA TrackerMoves ==
  ASSUME LatInv, Up, TrackerStep(conn)
  PROVE  /\ UpAt("wait") => UpAt("pick")'
         /\ UpAt("pick") => UpAt("wait")' \/ UpAt("write")'
         /\ UpAt("write") => UpAt("wait")'
<1>1. conn \in Conns /\ tracker \in [Conns -> {"off", "wait", "pick", "write", "done"}]
  BY DEF LatInv, SessionTrue, LatType, Up
<1> USE DEF Up, UpAt
<1>2. CASE ExpireLatencyProbes(conn)
  BY <1>1, <1>2 DEF ExpireLatencyProbes, sessVars
<1>3. CASE NextLatencyProbe(conn)
  <2>1. /\ tracker[conn] = "pick" /\ tracker' = [tracker EXCEPT ![conn] = "write"]
        /\ UNCHANGED <<sess, conn, open, left>>
    BY <1>3 DEF NextLatencyProbe, sessVars
  <2> QED BY <1>1, <2>1
<1>4. CASE NoProbe(conn)
  BY <1>1, <1>4 DEF NoProbe, sessVars
<1>5. CASE WritePing(conn)
  BY <1>1, <1>5 DEF WritePing, sessVars
<1> QED BY <1>2, <1>3, <1>4, <1>5 DEF TrackerStep

\* Only its own steps move the tracker of a session that is up, and only a failure
\* or Leave takes the session from there.
LEMMA UpStays ==
  ASSUME LatInv, [Next]_vars, Up, ~TrackerStep(conn)
  PROVE  \/ Up' /\ conn' = conn /\ tracker'[conn] = tracker[conn]
         \/ Broken' \/ Away'
<1>1. conn \in Conns /\ tracker \in [Conns -> {"off", "wait", "pick", "write", "done"}]
  BY DEF LatInv, SessionTrue, LatType, Up
<1> USE DEF Up, Broken, Away
<1>2. CASE UNCHANGED vars
  BY <1>2 DEF vars, sessVars
<1>3. CASE (\E l \in Lists : Joined(l)) \/ Start \/ Lose \/ Leave \/ EndSession
  BY <1>1, <1>3 DEF Joined, Start, Lose, Leave, EndSession
<1>4. ASSUME NEW c \in Conns, TrackerStep(c)
      PROVE  UNCHANGED <<sess, open, left, conn>> /\ tracker'[conn] = tracker[conn]
  <2>1. c # conn
    BY <1>4
  <2>2. /\ UNCHANGED <<sess, open, left, conn>>
        /\ \E l : tracker' = [tracker EXCEPT ![c] = l]
    <3>1. CASE ExpireLatencyProbes(c) \/ NoProbe(c)
      BY <3>1 DEF ExpireLatencyProbes, NoProbe, sessVars
    <3>2. CASE NextLatencyProbe(c)
      BY <3>2 DEF NextLatencyProbe, sessVars
    <3>3. CASE WritePing(c)
      BY <3>3 DEF WritePing, sessVars
    <3> QED BY <1>4, <3>1, <3>2, <3>3 DEF TrackerStep
  <2> QED BY <1>1, <2>1, <2>2
<1>5. ASSUME NEW c \in Conns,
             \/ StopTracker(c) \/ RecordLatencyPong(c)
             \/ \E l \in Lists : UpdatePeers(c, l)
      PROVE  UNCHANGED <<sess, open, left, conn>> /\ tracker'[conn] = tracker[conn]
  BY <1>5 DEF StopTracker, RecordLatencyPong, UpdatePeers, sessVars
<1>6. CASE Delivery \/ Tick
  BY <1>6 DEF Delivery, LoseMessage, HandlePong, Tick, sessVars
<1> QED BY <1>2, <1>3, <1>4, <1>5, <1>6 DEF Next

\* How the session goes on until it is up.
LEMMA StageSteps ==
  ASSUME LatInv, [Next]_vars
  PROVE  /\ Start /\ ~left => UpAt("wait")'
         /\ ~Up /\ Up' => Start /\ ~left
         /\ Starting => Starting' \/ Up' \/ Broken' \/ Away'
         /\ Broken => Broken' \/ Away'
<1>1. tracker \in [Conns -> {"off", "wait", "pick", "write", "done"}]
  BY DEF LatInv, LatType
<1>2. Start /\ ~left => UpAt("wait")'
  BY <1>1 DEF Start, UpAt, Up, LatInv, SessionTrue
<1>3. \/ UNCHANGED <<sess, open, left>>
      \/ Start
      \/ sess = "away" /\ sess' = "joined"
      \/ UNCHANGED <<sess, left>> /\ ~open'
      \/ UNCHANGED <<sess, open>> /\ left'
      \/ sess' = "away"
  BY DEF Next, vars, sessVars, Joined, Start, Lose, Leave, EndSession, TrackerStep,
         ExpireLatencyProbes, NextLatencyProbe, NoProbe, WritePing, StopTracker,
         RecordLatencyPong, UpdatePeers, Delivery, LoseMessage, HandlePong, Tick
<1>4. Start => sess = "joined" /\ sess' = "up" /\ UNCHANGED <<open, left>>
  BY DEF Start
<1>5. left \in BOOLEAN /\ open \in BOOLEAN
  BY DEF LatInv, LatType
<1> QED BY <1>2, <1>3, <1>4, <1>5 DEF Up, Starting, Broken, Away

\* The tracker of a session that is up stays alive.
LEMMA TrackerInvariant == Spec => []TrackerSound
<1>1. Init => TrackerSound
  BY DEF Init, TrackerSound, Up
<1>2. LatInv /\ TrackerSound /\ [Next]_vars => TrackerSound'
  <2> SUFFICES ASSUME LatInv, TrackerSound, [Next]_vars, Up'
               PROVE  (UpAt("wait") \/ UpAt("pick") \/ UpAt("write"))'
    BY DEF TrackerSound
  <2>1. CASE ~Up
    BY <2>1, StageSteps
  <2>2. CASE Up /\ TrackerStep(conn)
    BY <2>2, TrackerMoves DEF TrackerSound
  <2>3. CASE Up /\ ~TrackerStep(conn)
    <3>1. Up' /\ conn' = conn /\ tracker'[conn] = tracker[conn]
      BY <2>3, UpStays DEF Up, Broken, Away
    <3> QED BY <2>3, <3>1 DEF TrackerSound, UpAt
  <2> QED BY <2>1, <2>2, <2>3
<1> QED BY <1>1, <1>2, LatInvariant, PTL DEF Spec

\* What a step makes of a pending probe: it ends it, or lets it grow older.
LEMMA PendingStep ==
  ASSUME LatInv, [Next]_vars, NEW p \in Others, lat[p].pending
  PROVE  \/ ~lat'[p].pending
         \/ lat'[p] = lat[p]
         \/ Tick /\ lat'[p].age = Older(lat[p].age)
<1>1. lat \in [Others -> Entries] /\ lat[p] \in Entries
  BY DEF LatInv, LatType
<1>2. ASSUME NEW l \in Lists, KeepLatencyPeers(l) PROVE ~lat'[p].pending \/ lat'[p] = lat[p]
  BY <1>2, KeepEffect DEF LatInv
<1>3. CASE EndSession
  BY <1>3, EntryTypes DEF EndSession
<1>4. ASSUME NEW c \in Conns, ExpireLatencyProbes(c) PROVE ~lat'[p].pending \/ lat'[p] = lat[p]
  <2> DEFINE e == [lat[p] EXCEPT !.state = "timeout", !.pending = FALSE, !.id = None]
  <2>1. e.pending = FALSE
    BY <1>1 DEF Entries
  <2>2. lat'[p] = lat[p] \/ lat'[p] = e
    BY <1>4 DEF ExpireLatencyProbes
  <2> HIDE DEF e
  <2> QED BY <2>1, <2>2
<1>5. ASSUME NEW c \in Conns, NextLatencyProbe(c) PROVE lat'[p] = lat[p]
  <2>1. PICK i \in 1..Len(order) :
          FirstDue(i) /\ lat' = [lat EXCEPT ![order[i]] = Pending(NonceHex)]
    BY <1>5 DEF NextLatencyProbe
  <2>2. order[i] # p
    BY <2>1 DEF FirstDue, Due
  <2> QED BY <1>1, <2>1, <2>2
<1>6. ASSUME NEW c \in Conns, RecordLatencyPong(c) PROVE ~lat'[p].pending \/ lat'[p] = lat[p]
  <2>1. PICK m \in pong[c] :
          lat' = IF Answers(m)
                 THEN [lat EXCEPT ![m.peer] = [@ EXCEPT !.state = "ok", !.pending = FALSE,
                                                        !.id = None, !.rtt = lat[m.peer].age]]
                 ELSE lat
    BY <1>6 DEF RecordLatencyPong
  <2> DEFINE e == [lat[p] EXCEPT !.state = "ok", !.pending = FALSE,
                                 !.id = None, !.rtt = lat[p].age]
  <2>2. e.pending = FALSE
    BY <1>1 DEF Entries
  <2>3. lat'[p] = lat[p] \/ lat'[p] = e
    <3>1. CASE Answers(m) /\ m.peer = p
      BY <1>1, <2>1, <3>1
    <3>2. CASE ~(Answers(m) /\ m.peer = p)
      BY <1>1, <2>1, <3>2
    <3> QED BY <3>1, <3>2
  <2> HIDE DEF e
  <2> QED BY <2>2, <2>3
<1>7. CASE Tick
  BY <1>1, <1>7 DEF Tick, Entries
<1>8. CASE UNCHANGED lat
  BY <1>8
<1> QED
  BY <1>2, <1>3, <1>4, <1>5, <1>6, <1>7, <1>8
     DEF Next, vars, statusVars, Joined, Start, Lose, Leave, TrackerStep, NoProbe, WritePing,
         StopTracker, UpdatePeers, Delivery, LoseMessage, HandlePong

\* A pending probe that has k ticks and not its timeout behind it, and one that is
\* to be expired.
Waits(p, k) == lat[p].pending /\ lat[p].age >= k /\ lat[p].age < Timeout
Overdue(p)  == lat[p].pending /\ lat[p].age >= Timeout

\* Time takes a pending probe to its timeout; nothing makes it younger.
LEMMA Ageing ==
  ASSUME LatInv, [Next]_vars, NEW p \in Others, NEW k \in Nat
  PROVE  /\ Waits(p, k) => Waits(p, k)' \/ Overdue(p)' \/ ~lat'[p].pending
         /\ Waits(p, k) /\ Tick => Waits(p, k + 1)' \/ Overdue(p)' \/ ~lat'[p].pending
         /\ Overdue(p) => Overdue(p)' \/ ~lat'[p].pending
<1>1. lat[p].age \in Nat /\ lat[p].age <= Interval /\ Timeout \in Nat /\ Interval \in Nat
      /\ Timeout <= Interval
  BY LatencyAssumption DEF LatInv, LatType, Entries, Ages
<1>2. lat[p].pending => \/ ~lat'[p].pending
                        \/ lat'[p] = lat[p]
                        \/ Tick /\ lat'[p].age = Older(lat[p].age)
  BY PendingStep
<1>3. /\ Older(lat[p].age) \in Nat /\ Older(lat[p].age) >= lat[p].age
      /\ lat[p].age < Timeout => Older(lat[p].age) = lat[p].age + 1
  BY <1>1 DEF Older
<1>4. Tick => lat'[p].age = Older(lat[p].age)
  BY DEF Tick, LatInv, LatType, Entries
<1> QED BY <1>1, <1>2, <1>3, <1>4 DEF Waits, Overdue

\* ProbesEnd for one peer.
ProbeEnds(p) == lat[p].pending ~> ~lat[p].pending

\* With the program's timeout of three ticks, or a shorter one, no probe stays
\* pending, whatever becomes of the tracker that sent it and of its connection: time
\* takes it to its timeout, and a session that is up has a tracker that expires it,
\* while one that is not comes up or ends and drops it.
THEOREM ProbesAlwaysEnd ==
  ASSUME Timeout <= 3
  PROVE  Spec /\ TimePasses /\ StartRuns /\ EndRuns /\ TrackerRuns => ProbesEnd
<1> SUFFICES ASSUME NEW p \in Others
             PROVE  Spec /\ TimePasses /\ StartRuns /\ EndRuns /\ TrackerRuns => ProbeEnds(p)
  BY DEF ProbesEnd, ProbeEnds
<1> DEFINE P == lat[p].pending
<1>1. LatInv => /\ P => Waits(p, 0) \/ Overdue(p)
                /\ ~Waits(p, 3)
                /\ Waits(p, 0) => Young
                /\ Waits(p, 1) => Young
                /\ Waits(p, 2) => Young
                /\ Overdue(p) => P
  BY LatencyAssumption DEF LatInv, LatType, Entries, Ages, Waits, Overdue, Young
<1>2. LatInv /\ [Next]_vars
        => /\ Waits(p, 0) => Waits(p, 0)' \/ Overdue(p)' \/ ~P'
           /\ Waits(p, 1) => Waits(p, 1)' \/ Overdue(p)' \/ ~P'
           /\ Waits(p, 2) => Waits(p, 2)' \/ Overdue(p)' \/ ~P'
           /\ Waits(p, 0) /\ Tick => Waits(p, 1)' \/ Overdue(p)' \/ ~P'
           /\ Waits(p, 1) /\ Tick => Waits(p, 2)' \/ Overdue(p)' \/ ~P'
           /\ Waits(p, 2) /\ Tick => Waits(p, 3)' \/ Overdue(p)' \/ ~P'
           /\ Overdue(p) => Overdue(p)' \/ ~P'
  BY Ageing
<1>3. Spec /\ TimePasses => (P ~> ~P \/ Overdue(p))
  BY <1>1, <1>2, LatInvariant, PTL DEF Spec, TimePasses
<1>4. LatInv => /\ P => Up \/ Starting \/ Broken
                /\ Starting => sess = "joined" /\ open
                /\ P => ~Away
  BY DEF LatInv, SessionTrue, LatType, Up, Starting, Broken, Away
<1>5. LatInv /\ [Next]_vars
        => /\ Starting => Starting' \/ Up' \/ Broken' \/ Away'
           /\ Starting /\ Start => Up'
           /\ Broken => Broken' \/ Away'
  BY StageSteps DEF Starting, UpAt
<1>6. EndSession => ~P'
  BY EntryTypes DEF EndSession
<1>7. LatInv /\ [Next]_vars
        => /\ UpAt("wait") /\ ~TrackerStep(conn) => UpAt("wait")' \/ Broken' \/ Away'
           /\ UpAt("pick") /\ ~TrackerStep(conn) => UpAt("pick")' \/ Broken' \/ Away'
           /\ UpAt("write") /\ ~TrackerStep(conn) => UpAt("write")' \/ Broken' \/ Away'
  BY UpStays DEF UpAt
<1>8. LatInv /\ Up /\ TrackerStep(conn)
        => /\ UpAt("pick") => UpAt("wait")' \/ UpAt("write")'
           /\ UpAt("write") => UpAt("wait")'
  BY TrackerMoves
<1>9. LatInv /\ UpAt("wait") /\ TrackerStep(conn) /\ Overdue(p) => ~P'
  <2> SUFFICES ASSUME LatInv, UpAt("wait"), TrackerStep(conn), Overdue(p) PROVE ~P'
    OBVIOUS
  <2>1. ExpireLatencyProbes(conn)
    BY DEF UpAt, TrackerStep, NextLatencyProbe, NoProbe, WritePing
  <2>2. lat[p] \in Entries
    BY DEF LatInv, LatType
  <2> QED BY <2>1, <2>2 DEF ExpireLatencyProbes, Expired, Overdue, Entries
<1>10. UpAt("wait") \/ UpAt("pick") \/ UpAt("write") => Up
  BY DEF UpAt
<1>11. TrackerSound /\ Up => UpAt("wait") \/ UpAt("pick") \/ UpAt("write")
  BY DEF TrackerSound
<1> HIDE DEF P
<1>12. Spec /\ StartRuns /\ EndRuns /\ TrackerRuns => (Overdue(p) ~> ~P)
  BY <1>1, <1>2, <1>4, <1>5, <1>6, <1>7, <1>8, <1>9, <1>10, <1>11, LatInvariant,
     TrackerInvariant, PTL DEF Spec, StartRuns, EndRuns, TrackerRuns
<1> QED BY <1>3, <1>12, PTL DEF ProbeEnds, P
=============================================================================
