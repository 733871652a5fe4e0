----------------------------- MODULE Forwarding -----------------------------
(***************************************************************************)
(* Forwarding a request the cache cannot answer: which active RPC is       *)
(* picked, and what happens when it fails.                                 *)
(*                                                                         *)
(* Every task that forwards picks under the lock of the list (`pick',      *)
(* selection/select.rs, with the default features), waits for the RPC      *)
(* without it, and takes the lock again to update the RPC's latency.  HTTP *)
(* requests retry (fetch_from_rpc, accept_http.rs); messages of WS clients *)
(* are only picked for (client.rs).  Meanwhile the health check, dropped   *)
(* connections and admins change the list.  The fields of an RPC move with *)
(* it between the lists, so they are functions of its id here.             *)
(***************************************************************************)
EXTENDS Integers, Sequences, FiniteSets, Folds

CONSTANTS
  Rpc,             \* ids of the RPCs
  max_consecutive, \* how often each may be picked in a row
  min_time_delta,  \* for how long each rests after it was picked
  ma_length,       \* how many samples its moving average takes
  Req,             \* clients, each with one request at a time
  max_retries,     \* the configuration's
  ttl,             \* the configuration's, in units of latency
  Durations,       \* how long an RPC may take to answer, or to fail
  MaxClockBack,    \* bound on how far the system clock is set back
  MaxClockAhead    \* bound on how far it is set ahead between two picks

ASSUME ForwardingAssumption ==
  /\ max_consecutive \in [Rpc -> Nat]
  /\ min_time_delta \in [Rpc -> Nat]
  /\ ma_length \in [Rpc -> Nat]
  /\ max_retries \in Nat
  /\ ttl \in Nat
  /\ Durations \subseteq 0..ttl
  /\ MaxClockBack \in Nat /\ MaxClockAhead \in Nat

VARIABLES
  active,        \* the RPCs in rpc_list
  consecutive,   \* Rpc.consecutive
  since,         \* now - Rpc.last_used by the system clock, see Older
  latency_data,  \* Status.latency_data
  pc,            \* what each client's request is doing
  via,           \* the RPC it was sent to last
  retries,       \* its failed attempts
  spent,         \* the time it took so far
  last, row,     \* history: the RPC picked last, and how often in a row
  excused,       \* history: that row has a pick that was not counted
  rest,          \* history: the time that really passed since each was picked
  ahead,         \* history: how far the system clock was set ahead since then
  unrecorded     \* history: RPCs whose last pick left no trace

picks   == <<consecutive, since>>
history == <<last, row, excused, rest, ahead, unrecorded>>
reqVars == <<pc, via, retries, spent>>
vars    == <<active, picks, latency_data, reqVars, history>>

NoRpc == "no_rpc"

-----------------------------------------------------------------------------
(* Selection.                                                              *)

(* Status.latency, as the whole number argsort compares.                   *)
Latency(r) ==
  IF latency_data[r] = <<>> THEN 0
  ELSE MapThenFoldSet(+, 0, LAMBDA i : latency_data[r][i],
                      LAMBDA S : CHOOSE i \in S : TRUE, DOMAIN latency_data[r])
       \div Len(latency_data[r])

(* argsort is unstable: among equals any may come first.                   *)
Fastest(S) == {r \in S : \A s \in S : Latency(r) <= Latency(s)}

SaturatingSince(r) == IF since[r] < 0 THEN 0 ELSE since[r]

(* algo's condition; the mutants count one call too many, and forget the   *)
(* rest an RPC is due.                                                     *)
AllowedOnceMore(r) ==
  max_consecutive[r] >= consecutive[r] /\ SaturatingSince(r) > min_time_delta[r]
AllowedRestless(r) == max_consecutive[r] > consecutive[r]
Allowed(r) ==
  max_consecutive[r] > consecutive[r] /\ SaturatingSince(r) > min_time_delta[r]

(* What pick may return: the fastest RPC that is allowed, or the fastest   *)
(* one if none is.                                                         *)
Choices ==
  IF \E r \in active : Allowed(r) THEN Fastest({r \in active : Allowed(r)})
                                  ELSE Fastest(active)

(* The counter of the RPC algo picked: the fallback starts anew.           *)
Counted(r) == (IF Allowed(r) THEN consecutive[r] ELSE 0) + 1

(* algo clears every other counter of the list.                            *)
Algo(r) ==
  /\ consecutive' = [s \in Rpc |-> CASE s = r                     -> Counted(r)
                                     [] s # r /\ s \in active     -> 0
                                     [] s # r /\ s \notin active  -> consecutive[s]]
  /\ since' = [since EXCEPT ![r] = 0]

(* Calls in a row, as they happen; from max_consecutive on they all count  *)
(* the same.                                                               *)
NextInRow(r) ==
  IF last # r THEN 1
  ELSE IF row >= max_consecutive[r] THEN row ELSE row + 1

(* pick returns r.  A list of one RPC is not touched at all.               *)
Pick(r) ==
  /\ r \in Choices
  /\ IF active = {r} THEN UNCHANGED picks ELSE Algo(r)
  /\ last' = r
  /\ row' = NextInRow(r)
  /\ excused' = \/ active = {r} \/ ~Allowed(r)
                \/ last = r /\ excused
  /\ rest' = [rest EXCEPT ![r] = 0]
  /\ ahead' = [ahead EXCEPT ![r] = 0]
  /\ unrecorded' = IF active = {r} THEN unrecorded \cup {r} ELSE unrecorded \ {r}

(* Rpc::update_latency's window of samples; the mutant lets it grow.       *)
WindowGrowing(data, n) == IF Len(data) > n THEN Tail(data) ELSE data
Window(data, n)        == IF Len(data) >= n THEN Tail(data) ELSE data

(* Removing the first sample of an empty window panics.                    *)
UpdatePanics(r) == r \in active /\ ma_length[r] = 0 /\ latency_data[r] = <<>>

(* update_rpc_latency does nothing if the RPC has left the list.           *)
UpdateRpcLatency(r, t) ==
  latency_data' = IF r \in active /\ ~UpdatePanics(r)
                  THEN [latency_data EXCEPT ![r] = Append(Window(@, ma_length[r]), t)]
                  ELSE latency_data

-----------------------------------------------------------------------------
(* An HTTP request.                                                        *)

RequestArrives(q) ==
  /\ pc[q] \in {"idle", "panicked"}
  /\ pc' = [pc EXCEPT ![q] = "pick"]
  /\ UNCHANGED <<active, picks, latency_data, via, retries, spent, history>>

(* The request's task is over, and with it its locals.                     *)
Ends(q, how) ==
  /\ pc' = [pc EXCEPT ![q] = how]
  /\ via' = [via EXCEPT ![q] = NoRpc]
  /\ retries' = [retries EXCEPT ![q] = 0]
  /\ spent' = [spent EXCEPT ![q] = 0]

Forward(q) ==
  /\ pc[q] = "pick"
  /\ \E r \in Choices : Pick(r) /\ via' = [via EXCEPT ![q] = r]
  /\ pc' = [pc EXCEPT ![q] = "sent"]
  /\ UNCHANGED <<active, latency_data, retries, spent>>

(* An empty list is answered with an error; the mutant waits for an RPC.   *)
NoRpcWaits(q) == pc[q] = "pick" /\ active = {} /\ UNCHANGED vars
NoRpcAvailable(q) ==
  /\ pc[q] = "pick"
  /\ active = {}
  /\ Ends(q, "idle")
  /\ UNCHANGED <<active, picks, latency_data, history>>

Response(q, t) ==
  /\ pc[q] = "sent"
  /\ spent' = [spent EXCEPT ![q] = @ + t]
  /\ pc' = [pc EXCEPT ![q] = "answered"]
  /\ UNCHANGED <<active, picks, latency_data, via, retries, history>>

(* accept_request updates the latency of the RPC that answered, with the   *)
(* time the whole request took, failed attempts at other RPCs included.    *)
Measure(q) ==
  /\ pc[q] = "answered"
  /\ UpdateRpcLatency(via[q], spent[q])
  /\ Ends(q, IF UpdatePanics(via[q]) THEN "panicked" ELSE "idle")
  /\ UNCHANGED <<active, picks, history>>

(* The RPC failed or timed out: it is charged the whole ttl, whatever the  *)
(* failure took, and the request is sent again or given up.                *)
AttemptFails(q, t) ==
  /\ pc[q] = "sent"
  /\ UpdateRpcLatency(via[q], ttl)
  /\ \/ UpdatePanics(via[q]) /\ Ends(q, "panicked")
     \/ /\ ~UpdatePanics(via[q])
        /\ retries[q] + 1 >= max_retries
        /\ Ends(q, "idle")
     \/ /\ ~UpdatePanics(via[q])
        /\ retries[q] + 1 < max_retries
        /\ pc' = [pc EXCEPT ![q] = "pick"]
        /\ retries' = [retries EXCEPT ![q] = @ + 1]
        /\ spent' = [spent EXCEPT ![q] = @ + t]
        /\ UNCHANGED via
  /\ UNCHANGED <<active, picks, history>>

-----------------------------------------------------------------------------
(* WS messages, the pool and the clock.                                    *)

(* WsConnections::send picks an RPC for a client's message.                *)
WsSend ==
  /\ \E r \in Choices : Pick(r)
  /\ UNCHANGED <<active, latency_data, reqVars>>

(* ws_conn times the handling of a message, not the node: next to nothing. *)
(* If the update panics the connection's task ends, which changes nothing  *)
(* here.                                                                   *)
WsMessage(r) ==
  /\ UpdateRpcLatency(r, 0)
  /\ UNCHANGED <<active, picks, reqVars, history>>

(* RpcPool's evictions and removals, and its escapes and additions.        *)
Leaves(r) ==
  /\ r \in active
  /\ active' = active \ {r}
  /\ UNCHANGED <<picks, latency_data, reqVars, history>>

Joins(r) ==
  /\ r \notin active
  /\ active' = active \cup {r}
  /\ UNCHANGED <<picks, latency_data, reqVars, history>>

(* Only whether an RPC has rested for longer than its min_time_delta       *)
(* matters.                                                                *)
Older(r, n) == IF n > min_time_delta[r] THEN n ELSE n + 1

(* What the clock would show at most if it were never set back.            *)
Shown(r) == rest[r] + ahead[r]

Tick ==
  /\ since' = [r \in Rpc |-> Older(r, since[r])]
  /\ rest' = [r \in Rpc |-> Older(r, Shown(r)) - ahead[r]]
  /\ UNCHANGED <<active, consecutive, latency_data, reqVars, last, row, excused, ahead,
                 unrecorded>>

(* The system clock is set back; last_used may lie in the future then.  An *)
(* RPC last used long ago may have rested enough even so.                  *)
ClockSetBack ==
  /\ \A r \in Rpc : since[r] > -MaxClockBack
  /\ \E longAgo \in SUBSET {r \in Rpc : since[r] > min_time_delta[r]} :
       since' = [r \in Rpc |-> IF r \in longAgo THEN since[r] ELSE since[r] - 1]
  /\ UNCHANGED <<active, consecutive, latency_data, reqVars, history>>

(* It is set ahead: the time it skips is no rest, but looks like it.       *)
ClockSetAhead ==
  /\ \A r \in Rpc : ahead[r] < MaxClockAhead
  /\ since' = [r \in Rpc |-> Older(r, since[r])]
  /\ ahead' = [r \in Rpc |-> Older(r, Shown(r)) - rest[r]]
  /\ UNCHANGED <<active, consecutive, latency_data, reqVars, last, row, excused, rest,
                 unrecorded>>

(* sort_by_latency took a sample of each RPC that starts active; the       *)
(* others start in the poverty list, or are added later.                   *)
Init ==
  /\ active \in SUBSET {r \in Rpc : ma_length[r] > 0}
  /\ \E sample \in [Rpc -> Durations] :
       latency_data = [r \in Rpc |-> IF r \in active THEN <<sample[r]>> ELSE <<>>]
  /\ consecutive = [r \in Rpc |-> 0]
  /\ since = [r \in Rpc |-> min_time_delta[r] + 1]
  /\ pc = [q \in Req |-> "idle"]
  /\ via = [q \in Req |-> NoRpc]
  /\ retries = [q \in Req |-> 0]
  /\ spent = [q \in Req |-> 0]
  /\ last = NoRpc /\ row = 0 /\ excused = FALSE
  /\ rest = [r \in Rpc |-> min_time_delta[r] + 1]
  /\ ahead = [r \in Rpc |-> 0]
  /\ unrecorded = {}

RequestStep(q) ==
  \/ Forward(q) \/ NoRpcAvailable(q) \/ Measure(q)
  \/ \E t \in Durations : Response(q, t) \/ AttemptFails(q, t)

Next ==
  \/ \E q \in Req : RequestArrives(q) \/ RequestStep(q)
  \/ WsSend
  \/ \E r \in Rpc : WsMessage(r) \/ Leaves(r) \/ Joins(r)
  \/ Tick
  \/ ClockSetBack \/ ClockSetAhead

Spec == Init /\ [][Next]_vars

(* Each request is a task of its own, and its wait for an RPC ends after   *)
(* ttl.                                                                    *)
FairSpec == Spec /\ \A q \in Req : WF_vars(RequestStep(q))

-----------------------------------------------------------------------------
(* The types of the variables; no window holds more samples than           *)
(* update_latency's moving average takes.                                  *)
TypeOK ==
  /\ active \subseteq Rpc
  /\ consecutive \in [Rpc -> Nat]
  /\ since \in [Rpc -> Int]
  /\ latency_data \in [Rpc -> Seq(Nat)]
  /\ \A r \in Rpc : Len(latency_data[r]) <= ma_length[r]
  /\ pc \in [Req -> {"idle", "pick", "sent", "answered", "panicked"}]
  /\ via \in [Req -> Rpc \cup {NoRpc}]
  /\ retries \in [Req -> Nat]
  /\ spent \in [Req -> Nat]
  /\ last \in Rpc \cup {NoRpc}
  /\ row \in Nat
  /\ excused \in BOOLEAN
  /\ rest \in [Rpc -> Nat]
  /\ ahead \in [Rpc -> Nat]
  /\ unrecorded \subseteq Rpc

SomeoneAllowed == Cardinality(active) > 1 /\ \E r \in active : Allowed(r)

(* As long as algo need not fall back, it does not pick an RPC that has    *)
(* been called max_consecutive times in a row, unless a call of that row   *)
(* was not counted: it was made while the RPC was alone in the list, or as *)
(* the fallback when no RPC was allowed.                                   *)
RowRespected ==
  SomeoneAllowed =>
    \A r \in Choices : last = r /\ row >= max_consecutive[r] => excused

(* As long as algo need not fall back, it does not pick an RPC within its  *)
(* min_time_delta, however the system clock is set back.  What it is set   *)
(* ahead since the RPC's last call counts as rest, and no more than that;  *)
(* the exception is an RPC whose last call was made while it was alone in  *)
(* the list.                                                               *)
RateRespected ==
  SomeoneAllowed =>
    \A r \in Choices : Shown(r) <= min_time_delta[r] => r \in unrecorded

(* What makes the two inductive: Rpc.consecutive counts at least the row,  *)
(* and the system clock shows no more rest than there was and it skipped.  *)
RowCounted  == \A r \in Rpc : last = r /\ ~excused => consecutive[r] >= row
RestCovered == \A r \in Rpc \ unrecorded : since[r] <= Shown(r)
ForwardingInv == TypeOK /\ RowCounted /\ RestCovered

(* Every request comes to an end, however the RPCs fail and whatever the   *)
(* pool does meanwhile.                                                    *)
RequestsEnd == \A q \in Req : pc[q] = "pick" ~> pc[q] \in {"idle", "panicked"}
=============================================================================
