----------------------------- MODULE MCPeerList -----------------------------
(* Two or three connections to one room name.                               *)
EXTENDS PeerList, TLC
CONSTANTS p1, p2, p3

Serial == ~overlap /\ ~dropped

\* An overlap or a loss is never forgotten, and after one SerialChangesAgree says
\* nothing.  From there on the search tells states apart by what decides who is a
\* member and where each handler is; what is in the channels and in the clients' lists
\* has no influence on that.
View ==
  IF Serial
  THEN vars
  ELSE <<pc, roomVars, limits, lost, targets,
         [p \in {q \in Peers : pc[q] = "accept"} |-> list[p]]>>

Symmetry == Permutations(Peers)
=============================================================================
