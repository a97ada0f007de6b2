------------------------------- MODULE DataPath -------------------------------
(***************************************************************************)
(* The way of a frame from one client to the others of its room: the client *)
(* with an IP device (readIPAsEthernet, writeEthernetAsIP, arpReply) or     *)
(* with an Ethernet device (readTAP, writeTAP), the data stream, the main   *)
(* loop of its handler with the recorder and the rate limit, Room.Forward   *)
(* and the receivers' filters.  Clients leave and come back with other      *)
(* addresses, and learn of it late: peer lists are applied at any time.     *)
(*                                                                          *)
(* Forward and the Enqueue calls that follow are one step, and the queues   *)
(* do not overflow: Forwarding has those.  Each client's own recorder is    *)
(* left out: it is the same code as the server's.                           *)
(***************************************************************************)
EXTENDS Wire, RateLimit, Recorder

CONSTANTS
  Guests,        \* clients with an Ethernet device; the others have an IP device
  IPs,           \* the addresses of the room
  Group,         \* a multicast or broadcast address
  MACs,
  BroadcastMAC,
  HeaderSize,    \* of the Ethernet header: 14
  ARPSize,       \* of an ARP frame: 42
  HomeIP, HomeMAC,   \* what the clients are given first
  Scenarios      \* bounds: who sends what, how often, and how often clients move

\* What a scenario says.
Plans ==
  [senders : SUBSET Peers, to : SUBSET (IPs \cup {Group}), sizes : SUBSET Nat, packets : Nat,
   requests : Nat, moves : Nat, ticks : Nat, switches : Nat]

ASSUME DataPathAssumption ==
  /\ Clients = Peers /\ Recorders = Peers /\ Guests \subseteq Peers
  /\ Group \notin IPs /\ BroadcastMAC \notin MACs
  /\ HeaderSize \in Nat /\ ARPSize \in 0..MaxFrameSize
  /\ Scenarios \subseteq Plans
  /\ HomeIP \in [Peers -> IPs] /\ HomeMAC \in [Peers -> MACs]
  /\ \A p, q \in Peers : p # q => HomeIP[p] # HomeIP[q] /\ HomeMAC[p] # HomeMAC[q]

VARIABLES
  members,       \* Room.peers
  ip, mac,       \* the address and the MAC of each member
  view,          \* the peer list of each client's status: the MAC of each address
  handling,      \* the frame each handler has read, Nobody between two reads
  down,          \* frames on their way to each client
  due,           \* history: each frame's kind and the clients it is still to reach
  stray,         \* history: the kinds of frames that reached a client they were not due to
  left           \* what is left of the scenario; its sizes are what the MTU lets through

roomVars == <<members, ip, mac>>
history == <<due, stray>>
vars == <<wireVars, rateVars, recVars, roomVars, view, handling, down, history, left>>

Others(p) == members \ {p}

\* Room.Snapshot as a client's list shows it.
Listing(S) == [i \in IPs |-> IF \E p \in S : ip[p] = i
                             THEN mac[CHOOSE p \in S : ip[p] = i] ELSE Nobody]

Spend(what) ==
  /\ left[what] > 0
  /\ left' = [left EXCEPT ![what] = @ - 1]

\* All clients are in and know each other.
Init ==
  /\ WireInit /\ RateInit /\ RecInit
  /\ members = Peers
  /\ ip = HomeIP
  /\ mac = HomeMAC
  /\ view = [p \in Peers |-> Listing(Peers)]
  /\ handling = [p \in Peers |-> Nobody]
  /\ down = [p \in Peers |-> << >>]
  /\ due = << >>
  /\ stray = {}
  /\ left \in Scenarios

Frame(kind, src, dst, to, size) ==
  [n |-> Len(due) + 1, kind |-> kind, src |-> src, dst |-> dst, to |-> to, size |-> size]

\* Goroutine g of client p sends a new frame.
SendFrame(p, g, frame) ==
  /\ CallWriteFrame(p, g, frame)
  /\ due' = Append(due, [kind |-> frame.kind, at |-> {}])
  /\ UNCHANGED <<up, mu, ended>>

-----------------------------------------------------------------------------
(* Clients.                                                                  *)

\* Status.peerMACForIPv4, and broadcastMAC for an address that is not listed.
DestinationMAC(p, i) ==
  IF i \in IPs \ {ip[p]} /\ view[p][i] # Nobody THEN view[p][i] ELSE BroadcastMAC

\* readIPAsEthernet: the IP device has an IPv4 packet for somebody else.
ReadIPAsEthernet(p, i, size) ==
  /\ p \in members \ (Guests \cup ended) /\ writing[p]["tx"] = Nobody
  /\ p \in left.senders /\ i \in left.to \ {ip[p]} /\ Spend("packets")
  /\ SendFrame(p, "tx", Frame("ip", mac[p], DestinationMAC(p, i), i, size + HeaderSize))
  /\ UNCHANGED <<rateVars, recVars, roomVars, view, handling, down, stray>>

\* readTAP: the host behind an Ethernet device asks for the MAC of address i.
ReadTAP(p, i) ==
  /\ p \in members \cap Guests /\ writing[p]["tx"] = Nobody
  /\ i # ip[p] /\ Spend("requests")
  /\ SendFrame(p, "tx", Frame("arp", mac[p], BroadcastMAC, i, ARPSize))
  /\ UNCHANGED <<rateVars, recVars, roomVars, view, handling, down, stray>>

\* It sends an IPv4 packet to the MAC that its own ARP table has for address i,
\* however old that is.  readTAP's buffer is as long as a message may be.
ReadTAPPacket(p, i, m, size) ==
  /\ p \in members \cap Guests /\ writing[p]["tx"] = Nobody
  /\ p \in left.senders /\ i \in left.to \ {ip[p]} /\ Spend("packets")
  /\ i = Group => m = BroadcastMAC
  /\ size + HeaderSize <= MaxFrameSize
  /\ SendFrame(p, "tx", Frame("ip", mac[p], m, i, size + HeaderSize))
  /\ UNCHANGED <<rateVars, recVars, roomVars, view, handling, down, stray>>

WriteStep(p, g) ==
  /\ WriteHeader(p, g) \/ WritePayload(p, g) \/ WriteTooLarge(p, g)
  /\ UNCHANGED <<rateVars, recVars, roomVars, view, handling, down, history, left>>

\* Mutation: a reply to every request.
MutIsARPRequestForIPv4(f, own) == f.kind = "arp"

isARPRequestForIPv4(f, own) == f.kind = "arp" /\ f.to = own
shouldDeliverIPv4ToTUN(f, own) == f.to \in {own, Group}

\* The host behind p takes frame f: the filters of an IP device, or those of the
\* host's own network stack behind an Ethernet device.
Takes(p, f) ==
  IF p \in Guests
  THEN /\ f.dst \in {mac[p], BroadcastMAC}
       /\ f.kind = "ip" => f.to \in {ip[p], Group}
       /\ f.kind = "arp" => FALSE   \* what a guest answers is its own affair
  ELSE \/ isARPRequestForIPv4(f, ip[p])
       \/ f.kind = "ip" /\ shouldDeliverIPv4ToTUN(f, ip[p])

\* f reaches the host behind p.
Note(p, f) ==
  /\ stray' = IF p \in due[f.n].at THEN stray ELSE stray \cup {f.kind}
  /\ due' = [due EXCEPT ![f.n].at = @ \ {p}]

\* The next frame is read from the data stream and dropped or given to the device.
Deliver(p) ==
  /\ p \in members /\ down[p] # << >> /\ writing[p]["rx"] = Nobody
  /\ down' = [down EXCEPT ![p] = Tail(@)]
  /\ LET f == Head(down[p]) IN
       /\ f.kind # "arp" \/ ~Takes(p, f)
       /\ IF Takes(p, f) THEN Note(p, f) ELSE UNCHANGED history
  /\ UNCHANGED <<wireVars, rateVars, recVars, roomVars, view, handling, left>>

WriteTAP(p) == p \in Guests /\ Deliver(p)
WriteEthernetAsIP(p) == p \notin Guests /\ Deliver(p)

\* writeEthernetAsIP answers a request for its address through the same writer.
arpReply(p) ==
  /\ p \in members /\ down[p] # << >> /\ writing[p]["rx"] = Nobody
  /\ down' = [down EXCEPT ![p] = Tail(@)]
  /\ LET f == Head(down[p]) IN
       /\ f.kind = "arp" /\ Takes(p, f)
       /\ CallWriteFrame(p, "rx", Frame("reply", mac[p], f.src, f.to, ARPSize))
       /\ stray' = IF p \in due[f.n].at THEN stray ELSE stray \cup {f.kind}
       /\ due' = Append([due EXCEPT ![f.n].at = @ \ {p}], [kind |-> "reply", at |-> {}])
  /\ UNCHANGED <<up, mu, ended, rateVars, recVars, roomVars, view, handling, left>>

\* readControl applies the newest peer list.
UpdatePeers(p) ==
  /\ p \in members /\ view[p] # Listing(members)
  /\ view' = [view EXCEPT ![p] = Listing(members)]
  /\ UNCHANGED <<wireVars, rateVars, recVars, roomVars, handling, down, history, left>>

-----------------------------------------------------------------------------
(* The server.                                                               *)

\* The main loop of handleStream reads a frame and calls Record.
ReadFrame(p) ==
  /\ p \in members /\ handling[p] = Nobody
  /\ ReadMessage(p)
  /\ handling' = [handling EXCEPT ![p] = up[p][1].frame]
  /\ BeginRecord(p)
  /\ UNCHANGED <<rateVars, roomVars, view, down, history, left>>

Record(p) ==
  /\ AddEvent(p)
  /\ UNCHANGED <<wireVars, rateVars, roomVars, view, handling, down, history, left>>

\* Mutation: a frame for an unknown MAC goes to nobody.
MutTargets(p, f) ==
  IF f.dst = BroadcastMAC THEN Others(p) ELSE {q \in Others(p) : mac[q] = f.dst}

\* Room.Forward: a member's MAC is in macToPeer from AddPeer to RemovePeer.
Targets(p, f) ==
  IF f.dst # BroadcastMAC /\ \E q \in Others(p) : mac[q] = f.dst
  THEN {q \in Others(p) : mac[q] = f.dst}
  ELSE Others(p)

\* The clients whose hosts f is meant for.  A frame that a stale list gave the
\* MAC of another member is lost: nobody's host takes it.
Misled(p, f) == \E q \in Others(p) : mac[q] = f.dst /\ ip[q] # f.to
Addressees(p, f) ==
  CASE f.kind = "ip" -> {q \in Others(p) : /\ ~Misled(p, f) /\ f.to \in {ip[q], Group}
                                           /\ q \in Guests => f.dst \in {mac[q], BroadcastMAC}}
    [] f.kind = "arp" -> {q \in Others(p) \ Guests : ip[q] = f.to}
    [] f.kind = "reply" -> {q \in Others(p) \cap Guests : mac[q] = f.dst}

\* AllowFrame, Forward and Enqueue; a frame with a foreign source is dropped.
RelayFrame(p) ==
  /\ handling[p] # Nobody /\ p \notin begun
  /\ handling' = [handling EXCEPT ![p] = Nobody]
  /\ LET f == handling[p] IN
       /\ AllowFrame(p, f.size)
       /\ IF Allowed(p, f.size) /\ f.src = mac[p]
          THEN /\ down' = [q \in Peers |-> IF q \in Targets(p, f) THEN Append(down[q], f)
                                           ELSE down[q]]
               /\ due' = [due EXCEPT ![f.n].at = Addressees(p, f)]
          ELSE UNCHANGED <<down, due>>
  /\ UNCHANGED <<wireVars, recVars, roomVars, view, stray, left>>

\* The connection ends, because the client leaves or its session ended, and the
\* handler removes the peer.
RemovePeer(p) ==
  /\ p \in members /\ handling[p] = Nobody
  /\ Spend("moves") \/ (p \in ended /\ UNCHANGED left)
  /\ members' = members \ {p}
  /\ ResetWire(p)
  /\ down' = [down EXCEPT ![p] = << >>]
  /\ due' = [n \in 1..Len(due) |-> [due[n] EXCEPT !.at = @ \ {p}]]
  /\ UNCHANGED <<rateVars, recVars, ip, mac, view, handling, stray>>

\* The client is back as a new peer, with an address and a MAC that are free.
AddPeer(p, i, m) ==
  /\ p \notin members /\ \A q \in members : ip[q] # i /\ mac[q] # m
  /\ members' = members \cup {p}
  /\ ip' = [ip EXCEPT ![p] = i]
  /\ mac' = [mac EXCEPT ![p] = m]
  /\ view' = [view EXCEPT ![p] = [Listing(members) EXCEPT ![i] = m]]
  /\ NewPeerRate(p)
  /\ UNCHANGED <<wireVars, recVars, handling, down, history, left>>

TimePasses ==
  /\ Spend("ticks") /\ Tick
  /\ UNCHANGED <<wireVars, recVars, roomVars, view, handling, down, history>>

Switch ==
  /\ Spend("switches") /\ (Enable \/ Disable)
  /\ UNCHANGED <<wireVars, rateVars, roomVars, view, handling, down, history>>

Next ==
  \/ TimePasses \/ Switch
  \/ \E p \in Peers :
       \/ \E i \in IPs \cup {Group}, s \in left.sizes :
            \/ ReadIPAsEthernet(p, i, s)
            \/ \E m \in MACs \cup {BroadcastMAC} : ReadTAPPacket(p, i, m, s)
       \/ \E i \in IPs : ReadTAP(p, i)
       \/ \E g \in Goroutines : WriteStep(p, g)
       \/ WriteTAP(p) \/ WriteEthernetAsIP(p) \/ arpReply(p) \/ UpdatePeers(p)
       \/ ReadFrame(p) \/ Record(p) \/ RelayFrame(p)
       \/ RemovePeer(p)
       \/ \E i \in IPs, m \in MACs : AddPeer(p, i, m)

Spec == Init /\ [][Next]_vars

-----------------------------------------------------------------------------
\* No frame ends the session that sends it, unless the MTU that the server
\* announces, which nobody checks, leaves no room for the Ethernet header within
\* what WriteMessage takes.
FramesFit == ended # {} => \E s \in left.sizes : s + HeaderSize > MaxFrameSize

\* Frame n waits for client p.
Waits(n, p) == \E k \in 1..Len(down[p]) : down[p][k].n = n

ReachesOwners(kinds) ==
  /\ stray \cap kinds = {}
  /\ \A n \in 1..Len(due) :
       due[n].kind \in kinds => \A p \in due[n].at : Waits(n, p)

\* Every IPv4 packet that the rate limit lets through reaches the hosts it is
\* addressed to, once, and no other host, however late the sender learns of the
\* members' addresses; except a packet that a stale list gave a MAC which now
\* belongs to another member, or which the guest it is for no longer has.
PacketsReachOwners == ReachesOwners({"ip"})

\* Every ARP request reaches the one member with an IP device that holds the
\* address, which answers it once, and the answer reaches the guest that asked.
OneARPAnswer == ReachesOwners({"arp", "reply"})
=============================================================================
