--------------------------- MODULE MCWsConnections ---------------------------
(* Instances of WsConnections for TLC.                                     *)
EXTENDS WsConnections

CONSTANTS r1, c1, m1, u1
=============================================================================
