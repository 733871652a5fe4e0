------------------------------ MODULE MCRpcPool ------------------------------
(* Instances of RpcPool for TLC.                                           *)
EXTENDS RpcPool, TLC

CONSTANTS r1, r2, r3

(* The RPCs of the configuration are interchangeable.                      *)
ConfiguredSymmetry == Permutations(Configured)

(* Every combination of height and sync state, as an answer that says so   *)
(* or as one that fails.                                                   *)
Answer(b, s) == [block_number |-> b, syncing |-> s]
AllAnswers == {Answer({1}, "false"), Answer({1}, "object"), Answer({}, "false"), Answer({0}, "none")}
=============================================================================
