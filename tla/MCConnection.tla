---------------------------- MODULE MCConnection ----------------------------
(* One client that dials again and again over two connections: one can be    *)
(* the rest of an ended session while the other one joins.                   *)
EXTENDS Connection
CONSTANTS c1, c2
=============================================================================
