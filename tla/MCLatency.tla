------------------------------ MODULE MCLatency ------------------------------
(* Two other peers and one reconnect.                                        *)
EXTENDS Latency
CONSTANTS a, b, i1, i2

\* Both peers, or one of them.
TwoLists == {<<a, b>>, <<b>>}
=============================================================================
