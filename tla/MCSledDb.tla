------------------------------ MODULE MCSledDb ------------------------------
(* An instance of SledDb for TLC.                                          *)
EXTENDS SledDb

CONSTANTS k1, k2, v1, r1
=============================================================================
