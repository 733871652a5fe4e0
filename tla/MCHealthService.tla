--------------------------- MODULE MCHealthService ---------------------------
(* An instance of HealthService for TLC.                                   *)
EXTENDS HealthService

CONSTANTS r1, r2

Answer(b, s) == [block_number |-> b, syncing |-> s]
ThreeAnswers == {Answer({1}, "false"), Answer({0}, "false"), Answer({}, "none")}
=============================================================================
