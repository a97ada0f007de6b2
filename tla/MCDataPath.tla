------------------------------ MODULE MCDataPath ------------------------------
(* Two clients with IP devices, x and y, and a guest with an Ethernet device. *)
EXTENDS DataPath
CONSTANTS x, y, z, i1, i2, i3, i4, m1, m2, m3, m4

Home3IP == [p \in Peers |-> CASE p = x -> i1 [] p = y -> i2 [] OTHER -> i3]
Home3MAC == [p \in Peers |-> CASE p = x -> m1 [] p = y -> m2 [] OTHER -> m3]

Scenario(senders, to, sizes, packets, requests, moves, ticks, switches) ==
  [senders |-> senders, to |-> to, sizes |-> sizes, packets |-> packets,
   requests |-> requests, moves |-> moves, ticks |-> ticks, switches |-> switches]

\* The rate limit, with more packets than two windows let through; the recorder;
\* packets, requests and a guest's packets while clients move; two writers of one
\* stream; and an MTU that is too large.
SevenScenarios ==
  {Scenario({x}, {i2}, {1, 3}, 6, 0, 0, 3, 0),
   Scenario({x, y}, {Group}, {1}, 3, 0, 0, 0, 3),
   Scenario({x}, IPs \cup {Group}, {2}, 1, 0, 2, 0, 0),
   Scenario({}, {}, {}, 0, 1, 2, 0, 0),
   Scenario({z}, IPs \cup {Group}, {2}, 1, 0, 2, 0, 0),
   Scenario({x, y}, {i2, i3, Group}, {2}, 2, 1, 0, 0, 0),
   Scenario({x}, {i2, i4}, {1, 4}, 2, 1, 0, 0, 0)}
=============================================================================
