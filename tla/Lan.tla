--------------------------------- MODULE Lan ---------------------------------
(***************************************************************************)
(* What the relay promises about frames, with no rooms, queues or writers:  *)
(* peers attached under one name share a LAN.  A frame is on its way to     *)
(* peers that shared the sender's LAN when it was sent, and to nobody else; *)
(* each receives it once or not at all, and receives the frames of one      *)
(* sender in the order in which they were sent.  Forwarding is shown to     *)
(* implement this specification.                                            *)
(***************************************************************************)
EXTENDS Integers, Sequences

CONSTANTS
  Peers, Names, Nobody,
  Rooms          \* the labels of frames, of no meaning here

VARIABLES
  lan,           \* the name a peer is attached under, or Nobody
  sent,          \* per peer: how many frames it has sent
  pending,       \* per peer: the frames on their way to it
  inbox          \* per peer: the frames it has received, in order

lanVars == <<lan, sent, pending, inbox>>

LanInit ==
  /\ lan = [p \in Peers |-> Nobody]
  /\ sent = [p \in Peers |-> 0]
  /\ pending = [p \in Peers |-> {}]
  /\ inbox = [p \in Peers |-> << >>]

Attach(p, n) ==
  /\ lan[p] = Nobody
  /\ lan' = [lan EXCEPT ![p] = n]
  /\ UNCHANGED <<sent, pending, inbox>>

\* Frames on their way to a peer that leaves may still arrive.
Detach(p) ==
  /\ lan[p] # Nobody
  /\ lan' = [lan EXCEPT ![p] = Nobody]
  /\ UNCHANGED <<sent, pending, inbox>>

\* A new client takes the place of one that has left, and hears nothing of what
\* was sent to the old one.
Renew(p) ==
  /\ lan[p] = Nobody
  /\ pending' = [pending EXCEPT ![p] = {}]
  /\ inbox' = [inbox EXCEPT ![p] = << >>]
  /\ UNCHANGED <<lan, sent>>

\* Those who share p's LAN now.
Mates(p) == {q \in Peers \ {p} : lan[q] = lan[p]}

\* Peer p sends its next frame, labelled r, to some of its mates.
Transmit(p, r, to) ==
  /\ lan[p] # Nobody
  /\ to \subseteq Mates(p)
  /\ sent' = [sent EXCEPT ![p] = @ + 1]
  /\ pending' = [q \in Peers |->
                   IF q \in to
                   THEN pending[q] \cup {[src |-> p, seq |-> sent[p] + 1, room |-> r]}
                   ELSE pending[q]]
  /\ UNCHANGED <<lan, inbox>>

\* The earliest frame of its sender arrives.
Receive(q, f) ==
  /\ \A e \in pending[q] : e.src = f.src => f.seq <= e.seq
  /\ pending' = [pending EXCEPT ![q] = @ \ {f}]
  /\ inbox' = [inbox EXCEPT ![q] = Append(@, f)]
  /\ UNCHANGED <<lan, sent>>

Lose(q, f) ==
  /\ pending' = [pending EXCEPT ![q] = @ \ {f}]
  /\ UNCHANGED <<lan, sent, inbox>>

LanNext ==
  \E p \in Peers :
    \/ \E n \in Names : Attach(p, n)
    \/ Detach(p) \/ Renew(p)
    \/ \E r \in Rooms, to \in SUBSET Peers : Transmit(p, r, to)
    \/ \E f \in pending[p] : Receive(p, f) \/ Lose(p, f)

LanSpec == LanInit /\ [][LanNext]_lanVars
=============================================================================
