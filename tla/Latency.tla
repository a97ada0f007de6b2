------------------------------- MODULE Latency -------------------------------
(***************************************************************************)
(* The client's peerLatencyTracker (internal/client/client.go): once a tick *)
(* it expires old probes and pings one peer of the room; the peer's pong    *)
(* comes back through the relay's notify channels.  Every connection starts *)
(* a tracker on the context of the Join, so the tracker of a connection     *)
(* that is gone goes on beside its successor and shares its Status.         *)
(*                                                                          *)
(* One Join is modelled, with reconnects and Leave.  Time is counted in     *)
(* ticks and kept as the ages of probes and messages, up to Interval: an    *)
(* older one is treated like one of that age.  The client itself and peers  *)
(* without the latency feature are never probed and left out of the lists.  *)
(***************************************************************************)
EXTENDS Naturals, Sequences, SequencesExt

CONSTANTS
  Others,        \* IDs of the other peers
  Lists,         \* the peer lists the server sends
  ProbeIDs,      \* nonces of probes; one in use is not drawn again
  MaxConns,      \* bound: connections of this Join
  Interval,      \* peerLatencyProbeInterval, in ticks
  Timeout,       \* peerLatencyProbeTimeout, in ticks
  None           \* the empty probe ID

ASSUME LatencyAssumption ==
  /\ MaxConns \in Nat /\ Interval \in Nat /\ Timeout \in 1..Interval
  /\ None \notin ProbeIDs
  /\ \A l \in Lists : l \in Seq(Others) /\ IsInjective(l)

VARIABLES
  sess,          \* runSession: "away", "joined" (no goroutines yet) or "up"
  conn,          \* connections so far; the last one is the current one
  open,          \* the current connection works
  left,          \* Leave has cancelled the context
  connected,     \* Status.state is "connected"
  me,            \* Status.peerID, as the number of the connection, or 0
  order,         \* the listed peers by PeerLatency.Order
  lat,           \* Status.peerLatency
  tracker,       \* where each connection's tracker is in run
  held,          \* the probe a tracker is about to write
  pong,          \* the pong a connection's readControl is about to record
  flight         \* pings on their way to a peer and the pongs that answer them

statusVars == <<connected, me, order, lat>>
sessVars   == <<sess, conn, open, left>>
vars == <<sessVars, statusVars, tracker, held, pong, flight>>

Conns == 1..MaxConns

Absent  == [state |-> "none", pending |-> FALSE, id |-> None, age |-> Interval, rtt |-> 0]
Unknown == [Absent EXCEPT !.state = "unknown"]

\* An entry with a probe sent just now.  The old RTT is read in state "ok" only.
Pending(id) == [state |-> "pending", pending |-> TRUE, id |-> id, age |-> 0, rtt |-> 0]

Init ==
  /\ sess = "away" /\ conn = 0 /\ open = FALSE /\ left = FALSE
  /\ connected = FALSE /\ me = 0
  /\ order = << >>
  /\ lat = [p \in Others |-> Absent]
  /\ tracker = [c \in Conns |-> "off"]
  /\ held = [c \in Conns |-> {}]
  /\ pong = [c \in Conns |-> {}]
  /\ flight = {}

-----------------------------------------------------------------------------
\* Mutation: entries of peers that are not listed any more are kept.
MutKeepLatencyPeers(l) ==
  /\ order' = l
  /\ lat' = [p \in Others |-> IF p \in Range(l) /\ lat[p].state = "none" THEN Unknown
                              ELSE lat[p]]

\* keepLatencyPeersLocked: the map follows the list, and so does the order.
KeepLatencyPeers(l) ==
  /\ order' = l
  /\ lat' = [p \in Others |-> IF p \notin Range(l) THEN Absent
                              ELSE IF lat[p].state = "none" THEN Unknown
                              ELSE lat[p]]

\* The join is accepted: Status.joined.
Joined(l) ==
  /\ sess = "away" /\ ~left /\ conn < MaxConns
  /\ sess' = "joined" /\ conn' = conn + 1 /\ open' = TRUE
  /\ connected' = TRUE /\ me' = conn + 1
  /\ KeepLatencyPeers(l)
  /\ UNCHANGED <<left, tracker, held, pong, flight>>

\* The data stream is there and the goroutines are started.
Start ==
  /\ sess = "joined" /\ open
  /\ sess' = "up"
  /\ tracker' = [tracker EXCEPT ![conn] = "wait"]
  /\ UNCHANGED <<conn, open, left, statusVars, held, pong, flight>>

\* The connection fails.
Lose ==
  /\ open
  /\ open' = FALSE
  /\ UNCHANGED <<sess, conn, left, statusVars, tracker, held, pong, flight>>

\* Leave: the state is set, the context cancelled.
Leave ==
  /\ sess # "away" /\ ~left
  /\ left' = TRUE /\ connected' = FALSE
  /\ UNCHANGED <<sess, conn, open, me, order, lat, tracker, held, pong, flight>>

\* runSession has returned, for whatever reason: its streams are closed, and
\* Status.endSession clears the peers.  What is on its way is never read.
EndSession ==
  /\ sess # "away"
  /\ sess' = "away" /\ open' = FALSE
  /\ connected' = FALSE /\ me' = 0
  /\ order' = << >> /\ lat' = [p \in Others |-> Absent]
  /\ flight' = {}
  /\ UNCHANGED <<conn, left, tracker, held, pong>>

-----------------------------------------------------------------------------
(* peerLatencyTracker.run                                                    *)

\* Mutation: a probe never times out.
MutExpired(e) == FALSE

\* The probe is pending and was sent at least Timeout ago.
Expired(e) == e.pending /\ e.age >= Timeout

\* A tick: expireLatencyProbes.
ExpireLatencyProbes(c) ==
  /\ tracker[c] = "wait"
  /\ lat' = [p \in Others |->
               IF Expired(lat[p])
               THEN [lat[p] EXCEPT !.state = "timeout", !.pending = FALSE, !.id = None]
               ELSE lat[p]]
  /\ tracker' = [tracker EXCEPT ![c] = "pick"]
  /\ UNCHANGED <<sessVars, connected, me, order, held, pong, flight>>

\* Nonces that no probe and no message uses.
Used  == {m.id : m \in flight \cup UNION {held[c] \cup pong[c] : c \in Conns}}
            \cup {lat[p].id : p \in Others}
Fresh == ProbeIDs \ Used

\* nonceHex: which unused nonce it returns makes no difference.
NonceHex == CHOOSE id \in Fresh : TRUE

\* The peers nextLatencyProbe may pick.
Due(p) ==
  /\ connected /\ me # 0
  /\ p \in Range(order) /\ ~lat[p].pending /\ lat[p].age >= Interval

\* The i-th peer by Order is the one nextLatencyProbe picks.
FirstDue(i) == Due(order[i]) /\ \A j \in 1..i - 1 : ~Due(order[j])

\* Mutation: Order is not set to the time of the probe.
MutNextLatencyProbe(c) ==
  /\ tracker[c] = "pick" /\ Fresh # {}
  /\ \E i \in 1..Len(order) :
       /\ FirstDue(i)
       /\ lat' = [lat EXCEPT ![order[i]] = Pending(NonceHex)]
       /\ held' = [held EXCEPT ![c] = {[id |-> NonceHex, peer |-> order[i], age |-> 0]}]
  /\ tracker' = [tracker EXCEPT ![c] = "write"]
  /\ UNCHANGED <<sessVars, connected, me, order, pong, flight>>

\* nextLatencyProbe takes the first due peer and moves it to the end: its Order
\* becomes the present time, which is beyond every other one.  In the code
\* SentAt, NextProbe and Order are the tick's timestamp, read just before the
\* locks are taken; the wait for the locks is left out, so that the probe's age
\* starts with this step.
NextLatencyProbe(c) ==
  /\ tracker[c] = "pick" /\ Fresh # {}
  /\ \E i \in 1..Len(order) :
       /\ FirstDue(i)
       /\ lat' = [lat EXCEPT ![order[i]] = Pending(NonceHex)]
       /\ held' = [held EXCEPT ![c] = {[id |-> NonceHex, peer |-> order[i], age |-> 0]}]
       /\ order' = Append(RemoveAt(order, i), order[i])
  /\ tracker' = [tracker EXCEPT ![c] = "write"]
  /\ UNCHANGED <<sessVars, connected, me, pong, flight>>

\* nextLatencyProbe returns false: nobody is due, or nonceHex failed.
NoProbe(c) ==
  /\ tracker[c] = "pick"
  /\ (\A p \in Others : ~Due(p)) \/ Fresh = {}
  /\ tracker' = [tracker EXCEPT ![c] = "wait"]
  /\ UNCHANGED <<sessVars, statusVars, held, pong, flight>>

\* The ping is written to the tracker's own connection.  If that is gone, the
\* write fails and the tracker returns.
WritePing(c) ==
  /\ tracker[c] = "write"
  /\ held' = [held EXCEPT ![c] = {}]
  /\ IF c = conn /\ open
     THEN /\ flight' = flight \cup {[id |-> m.id, peer |-> m.peer, age |-> m.age, conn |-> c]
                                  : m \in held[c]}
          /\ tracker' = [tracker EXCEPT ![c] = "wait"]
     ELSE tracker' = [tracker EXCEPT ![c] = "done"] /\ UNCHANGED flight
  /\ UNCHANGED <<sessVars, statusVars, pong>>

\* ctx.Done.
StopTracker(c) ==
  /\ tracker[c] = "wait" /\ left
  /\ tracker' = [tracker EXCEPT ![c] = "done"]
  /\ UNCHANGED <<sessVars, statusVars, held, pong, flight>>

-----------------------------------------------------------------------------
(* The relay, the other peers and readControl                                *)

\* A notify channel is full or the peer is gone.
LoseMessage(m) ==
  /\ m \in flight
  /\ flight' = flight \ {m}
  /\ UNCHANGED <<sessVars, statusVars, tracker, held, pong>>

Reading(c) == tracker[c] # "off" /\ pong[c] = {}

\* The relay has passed the ping on, the peer's handlePing has answered it with
\* the same ID, and the relay has passed the pong back (forwardPeerPing and
\* forwardPeerPong).  readControl has read it, and handlePong has found it to be
\* for the peer this client is now.
HandlePong(c, m) ==
  /\ Reading(c)
  /\ m \in flight /\ m.conn = c /\ me = c
  /\ flight' = flight \ {m}
  /\ pong' = [pong EXCEPT ![c] = {m}]
  /\ UNCHANGED <<sessVars, statusVars, tracker, held>>

\* Mutation: the probe ID is not compared.
MutAnswers(m) == lat[m.peer].pending

\* The pong is the answer to the probe that is pending.
Answers(m) == lat[m.peer].pending /\ lat[m.peer].id = m.id

\* recordLatencyPong, which takes the lock anew.
RecordLatencyPong(c) ==
  \E m \in pong[c] :
    /\ lat' = IF Answers(m)
              THEN [lat EXCEPT ![m.peer] = [@ EXCEPT !.state = "ok", !.pending = FALSE,
                                                     !.id = None, !.rtt = lat[m.peer].age]]
              ELSE lat
    /\ pong' = [pong EXCEPT ![c] = {}]
    /\ UNCHANGED <<sessVars, connected, me, order, tracker, held, flight>>

\* readControl has read a peer list: updatePeers, whatever has happened to the
\* session since.  A reader whose connection is gone has at most one more list
\* to apply; here it may have several.
UpdatePeers(c, l) ==
  /\ Reading(c)
  /\ KeepLatencyPeers(l)
  /\ UNCHANGED <<sessVars, connected, me, tracker, held, pong, flight>>

\* A tick passes.
Older(n) == IF n < Interval THEN n + 1 ELSE n
OlderAll(S) == {[m EXCEPT !.age = Older(@)] : m \in S}
Tick ==
  /\ lat' = [p \in Others |-> [lat[p] EXCEPT !.age = Older(@)]]
  /\ held' = [c \in Conns |-> OlderAll(held[c])]
  /\ pong' = [c \in Conns |-> OlderAll(pong[c])]
  /\ flight' = OlderAll(flight)
  /\ UNCHANGED <<sessVars, connected, me, order, tracker>>

-----------------------------------------------------------------------------
TrackerStep(c) ==
  ExpireLatencyProbes(c) \/ NextLatencyProbe(c) \/ NoProbe(c) \/ WritePing(c)

Delivery == \E m \in flight : LoseMessage(m) \/ \E c \in Conns : HandlePong(c, m)

Next ==
  \/ \E l \in Lists : Joined(l)
  \/ Start \/ Lose \/ Leave \/ EndSession
  \/ \E c \in Conns : \/ TrackerStep(c) \/ StopTracker(c) \/ RecordLatencyPong(c)
                      \/ \E l \in Lists : UpdatePeers(c, l)
  \/ Delivery
  \/ Tick

Spec == Init /\ [][Next]_vars

\* Goroutines run on and time passes.  A session whose connection or context is
\* gone returns; one that is accepted starts its goroutines or fails.  A message
\* is delivered or lost.
FairSpec ==
  /\ Spec
  /\ WF_vars(Tick) /\ WF_vars(Start) /\ WF_vars(EndSession /\ (~open \/ left))
  /\ WF_vars(Delivery)
  /\ \A c \in Conns : /\ WF_vars(TrackerStep(c)) /\ WF_vars(RecordLatencyPong(c))

-----------------------------------------------------------------------------
Ages == 0..Interval

\* Type invariant of the latency state: the map has an entry for each listed
\* peer and for no other, and a pending entry has a probe ID.
TypeOK ==
  /\ sess \in {"away", "joined", "up"} /\ conn \in 0..MaxConns /\ me \in {0, conn}
  /\ open \in BOOLEAN /\ left \in BOOLEAN /\ connected \in BOOLEAN
  /\ order \in Seq(Others) /\ IsInjective(order)
  /\ \A p \in Others :
       /\ lat[p].state \in {"none", "unknown", "pending", "ok", "timeout"}
       /\ lat[p].state = "none" <=> p \notin Range(order)
       /\ lat[p].pending <=> lat[p].state = "pending"
       /\ IF lat[p].pending THEN lat[p].id \in ProbeIDs ELSE lat[p].id = None
       /\ lat[p].age \in Ages /\ lat[p].rtt \in Ages
  /\ tracker \in [Conns -> {"off", "wait", "pick", "write", "done"}]
  /\ \A m \in flight : m.id \in ProbeIDs /\ m.peer \in Others /\ m.conn \in Conns

\* A latency is recorded only for the peer that answered, and it is the time
\* since the very ping that was answered was sent, on this connection: no late
\* pong, no pong of an earlier connection and no probe of another tracker makes
\* recordLatencyPong record a wrong round trip.
RoundTripsGenuine ==
  [][\A p \in Others :
       lat[p].state = "pending" /\ lat'[p].state = "ok" =>
         \E c \in Conns : \E m \in pong[c] :
           m.peer = p /\ m.age = lat'[p].rtt /\ m.conn = me]_vars

\* A probe does not stay pending: it is answered, expires or is dropped with its
\* peer or its session, also when the tracker that sent it has ended.
ProbesEnd == \A p \in Others : lat[p].pending ~> ~lat[p].pending

Probed(p) == \E c \in Conns : \E m \in held[c] : m.peer = p
Stable(p) == sess = "up" /\ open /\ ~left /\ p \in Range(order)

\* While the connection works and the list does not change, every peer in it is
\* probed again and again, however many there are (PeerLatency.Order).
NobodyStarves ==
  \A p \in Others :
    <>[]Stable(p) => \/ []<>Probed(p)
                     \/ []<><<\E c \in Conns, l \in Lists : UpdatePeers(c, l)>>_vars
=============================================================================
