----------------------------- MODULE MCHeadCache -----------------------------
(* Instances of HeadCache for TLC.                                         *)
EXTENDS HeadCache, TLC

CONSTANTS k1, c1, c2

(* A key about the second block.                                           *)
SecondBlock == (k1 :> 2)

(* Clients are interchangeable.                                            *)
ClientSymmetry == Permutations(Req)
=============================================================================
