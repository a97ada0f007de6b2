---------------------------- MODULE MCForwarding ----------------------------
(* Small instances of Forwarding: three peers, of which two or all three meet *)
(* in a room, with queues of one or two frames, so that frames wait behind    *)
(* one another, queues fill up, and peers leave while frames are on their way *)
(* to them.                                                                   *)
EXTENDS Forwarding

CONSTANTS h1, h2, h3, a, b, c, r1, r2, r3, mA, mB, mG

PoolNet10 == 10 * 256 * 256

\* Fields of room objects nobody refers to are never read: see MCRelay.
Seen(f) == [r \in RoomIds \cap Reachable |-> f[r]]
View == <<managerVars, Seen(roomName), Seen(index), Seen(peers), Seen(macToPeer),
          Seen(nextHost), Seen(freeHosts), Seen(closed), pc, want, room, peerVars, dataVars>>
\* Bound: joins and frames together, so that two peers exchange three frames, or
\* three peers two.
MaxWork == 5
MCNext == FwNext /\ joins' + TotalSent' <= MaxWork
MCSpec == FwInit /\ [][MCNext]_allVars

Symmetry == Permutations(Handlers) \cup Permutations(Names) \cup Permutations(RoomIds)
=============================================================================
