--------------------------- MODULE MCSubscriptions ---------------------------
(* Instances of Subscriptions for TLC.                                     *)
EXTENDS Subscriptions, TLC

CONSTANTS u1, u2, newHeads, logs, x1, x2, n1, n2, listener, heads

(* Users, nodes, the ids they give and the two tasks that move are         *)
(* interchangeable.                                                        *)
Symmetry ==
  Permutations(User) \cup Permutations(Node) \cup Permutations(SubId) \cup Permutations(Mover)
=============================================================================
