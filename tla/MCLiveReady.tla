----------------------------- MODULE MCLiveReady -----------------------------
(* An instance of LiveReady for TLC: channels of one message, so that       *)
(* every sender has to wait.                                                *)
EXTENDS LiveReady

CONSTANTS p1, p2
=============================================================================
