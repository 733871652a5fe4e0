---------------------------- MODULE MCForwarding ----------------------------
(* Instances of Forwarding for TLC.                                        *)
EXTENDS Forwarding, TLC

CONSTANTS r1, r2, c1

(* r1 may be called twice in a row and must rest, r2 once and need not.    *)
Rows     == (r1 :> 2) @@ (r2 :> 1)
Rests    == (r1 :> 1) @@ (r2 :> 0)

(* r2 was added by an admin request with no length for the average.        *)
NoSample == (r1 :> 1) @@ (r2 :> 0)
=============================================================================
