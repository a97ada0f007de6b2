---------------------------- MODULE MCController ----------------------------
(* Two or three sessions alive at once, two Leave requests, two rooms.       *)
EXTENDS Controller, TLC
CONSTANTS s1, s2, s3, k1, k2, cA, cB

Symmetry == Permutations(Sessions) \cup Permutations(Callers) \cup Permutations(Configs)
=============================================================================
