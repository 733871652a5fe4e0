---------------------------- MODULE MCCachedCalls ----------------------------
(* An instance of CachedCalls for TLC.  One client asks for a balance at   *)
(* a numbered block, or gives a block that is too short; the other for one *)
(* at the latest block, and it calls a method that is not cached.          *)
EXTENDS CachedCalls, TLC

CONSTANTS h1, w1

Balance(p) == [method |-> "eth_getBalance", params |-> <<Tag("other"), p>>]

SomeAsks ==
  h1 :> {Balance(Num(1)), Balance(Tag("short"))}
    @@ w1 :> {Balance(Tag("latest")),
              [method |-> "eth_getTransactionCount", params |-> <<Tag("other"), Tag("finalized")>>]}
=============================================================================
