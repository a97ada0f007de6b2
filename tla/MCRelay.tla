------------------------------- MODULE MCRelay -------------------------------
(* Small instances of Relay: three handlers, rooms of two host addresses, and *)
(* fewer room objects than handlers, so that rooms fill up, die and are       *)
(* created again, and indices, hosts and room objects are reused.             *)
EXTENDS Relay

CONSTANTS h1, h2, h3, a, b, r1, r2, r3, mA, mR, mBad

PoolNet10 == 10 * 256 * 256

\* The clients of h1 and h2 play in room a; the client of h3 goes to either room.
Asks(h) == IF h = h3 THEN Names ELSE {a}

MCNext ==
  \E h \in Handlers :
    \/ \E n \in Asks(h), m \in RequestMACs \cup {Null} : StartJoin(h, n, m)
    \/ Step(h)
    \/ Forward(h)
    \/ RemovePeer(h)

MCFairSpec == Init /\ [][MCNext]_vars /\ \A h \in Handlers : WF_vars(Step(h))
=============================================================================
