------------------------------- MODULE RpcPool -------------------------------
(***************************************************************************)
(* The pool of upstream RPCs: the active list (`rpc_list') requests are    *)
(* balanced over, and the poverty list of RPCs that are out of service.    *)
(*                                                                         *)
(* Two tasks and the admin namespace change the two lists:                 *)
(*   - the health check (health/check.rs) polls the heads of the active    *)
(*     RPCs, evicts the ones that lag, polls the poverty list and takes    *)
(*     back the ones that recovered, then reports to the liveness monitor; *)
(*   - the dropped listener evicts an RPC whose WS connection broke;       *)
(*   - admin requests add and remove RPCs.                                 *)
(* Each one holds the locks of the lists for one action at most; between   *)
(* two actions of a task every other task may run.                         *)
(*                                                                         *)
(* A list is the set of its entries.  Order only decides which entry an    *)
(* admin index names, and AdminRemove ranges over all of them.  Two equal  *)
(* entries would need a push of an id the list already holds: OneHome says *)
(* no RPC is ever in a second place it could be pushed from.               *)
(***************************************************************************)
EXTENDS Naturals, Sequences

CONSTANTS
  Rpc,          \* the ids Rpc::new hands out; NEXT_RPC_ID never repeats one
  Configured,   \* the RPCs of the configuration file
  MaxHead,      \* bound on the block height a node reports
  Answers,      \* the pairs of answers to a head check that are considered:
                \* a set with the height or without, and eth_syncing's result
  MaxWsErr,     \* bound on the Closed messages in flight
  Readonly      \* the admin namespace's readonly setting

ASSUME PoolAssumption ==
  /\ Configured \subseteq Rpc
  /\ MaxHead \in Nat
  /\ Answers \subseteq [block_number : {{}} \cup {{h} : h \in 0..MaxHead},
                      syncing      : {"false", "true", "object", "none"}]
  /\ MaxWsErr \in Nat
  /\ Readonly \in BOOLEAN

VARIABLES
  rpc_list,      \* the active list
  poverty_list,  \* the RPCs taken out of service
  node,          \* what each node would answer to a head check right now
  check_pc,      \* where the health check task is
  snapshot,      \* ids head_check cloned before it awaits the answers
  agreed_head,   \* the height make_poverty returned
  report,        \* the HealthState escape_poverty returned, until it is sent
  ws_err,        \* the channel of WsChannelErr::Closed ids
  dropped_pc,    \* where the dropped listener is
  known,         \* ids created so far
  removed        \* history: ids an admin request removed

lists     == <<rpc_list, poverty_list>>
checkVars == <<check_pc, snapshot, agreed_head, report>>
wsVars    == <<ws_err, dropped_pc>>
adminVars == <<known, removed>>
vars      == <<lists, node, checkVars, wsVars, adminVars>>

Heads       == 0..MaxHead
Entry       == [id : Rpc, is_erroring : BOOLEAN]
HealthState == {"Healthy", "MissingRpcs", "Unhealthy"}

Ids(list)        == {e.id : e \in list}
Fresh(ids)       == {[id |-> r, is_erroring |-> FALSE] : r \in ids}
Erroring(ids)    == {[id |-> r, is_erroring |-> TRUE]  : r \in ids}
Without(list, S) == {e \in list : e.id \notin S}

-----------------------------------------------------------------------------
(* The health check.                                                       *)

(* extract_sync, as a set that is empty on an error.  An object with the   *)
(* progress of a sync means that there is one; "none" is an answer that is *)
(* missing or cannot be parsed.                                            *)
ExtractSync(answer) == IF answer = "none" THEN {} ELSE {answer # "false"}

(* block_number().unwrap_or(0) and syncing().unwrap_or(true).              *)
UnwrapOr(result, default) == IF result = {} THEN default ELSE CHOOSE x \in result : TRUE
BlockNumber(r) == UnwrapOr(node[r].block_number, 0)
Syncing(r)     == UnwrapOr(ExtractSync(node[r].syncing), TRUE)

(* What head_check puts in a HeadResult; a timeout is an error of both.    *)
(* The two calls are read together: nodes change freely, so any mixed pair *)
(* is also the answer of a node that passed through that state.            *)
HeadResult(r) == [head |-> BlockNumber(r), syncing |-> Syncing(r)]

IsHighest(h, ids) ==
  /\ \A r \in ids : HeadResult(r).head <= h
  /\ h = 0 \/ \E r \in ids : HeadResult(r).head = h

(* make_poverty's test; the mutant forgets the nodes that are syncing.      *)
BehindHeadOnly(r, h) == HeadResult(r).head < h
Behind(r, h)         == HeadResult(r).head < h \/ HeadResult(r).syncing

(* escape_poverty's test; the mutant asks for more than the agreed head.   *)
FollowingStrictly(r, h) == HeadResult(r).head > h /\ ~HeadResult(r).syncing
Following(r, h)         == HeadResult(r).head >= h /\ ~HeadResult(r).syncing

(* Both functions look an RPC up again under the lock, because the lists   *)
(* may have changed since head_check; the mutant trusts the snapshot.      *)
StillListedStale(ids, list) == ids
StillListed(ids, list)      == ids \cap Ids(list)

(* escape_poverty clears the flag of an RPC it takes back; the mutant      *)
(* pushes the clone as it was.                                             *)
RecoveredUncleared(ids) == Erroring(ids)
Recovered(ids)          == Fresh(ids)

(* escape_poverty's retain; the mutant is make_poverty's, copied over.     *)
RetainErroringInverted(list) == {e \in list : ~e.is_erroring}
RetainErroring(list)         == {e \in list : e.is_erroring}

(* The state escape_poverty reports.  One mutant calls the service healthy *)
(* as long as some list has an RPC; the other has no report for a pool     *)
(* that is empty altogether.                                               *)
StatusEmptyMissed(active, poverty) ==
  CASE active = {} /\ poverty = {}    -> "none_left"
    [] active = {} /\ poverty # {}    -> "Unhealthy"
    [] active # {} /\ poverty = {}    -> "Healthy"
    [] active # {} /\ poverty # {}    -> "MissingRpcs"
StatusOfAny(active, poverty) ==
  CASE active \cup poverty = {}                      -> "Unhealthy"
    [] active \cup poverty # {} /\ poverty = {}      -> "Healthy"
    [] active \cup poverty # {} /\ poverty # {}      -> "MissingRpcs"
Status(active, poverty) ==
  CASE active = {}                    -> "Unhealthy"
    [] active # {} /\ poverty = {}    -> "Healthy"
    [] active # {} /\ poverty # {}    -> "MissingRpcs"

(* health_check wakes up and head_check clones the active list.            *)
StartCheck ==
  /\ check_pc = "sleep"
  /\ snapshot' = Ids(rpc_list)
  /\ check_pc' = "heads"
  /\ UNCHANGED <<lists, node, agreed_head, report, wsVars, adminVars>>

(* All answers are in: evict the RPCs behind the highest head, or syncing, *)
(* looking each one up again because the list may have changed.            *)
MakePoverty ==
  /\ check_pc = "heads"
  /\ \E highest \in Heads :
       /\ IsHighest(highest, snapshot)
       /\ LET evicted == {r \in StillListed(snapshot, rpc_list) : Behind(r, highest)}
          IN  /\ poverty_list' = poverty_list \cup Erroring(evicted \ Ids(poverty_list))
              /\ rpc_list' = {e \in Without(rpc_list, evicted) : ~e.is_erroring}
       /\ agreed_head' = highest
  /\ snapshot' = {}
  /\ check_pc' = "agreed"
  /\ UNCHANGED <<node, report, wsVars, adminVars>>

(* The second head_check clones the poverty list.                          *)
StartPovertyCheck ==
  /\ check_pc = "agreed"
  /\ snapshot' = Ids(poverty_list)
  /\ check_pc' = "poverty_heads"
  /\ UNCHANGED <<lists, node, agreed_head, report, wsVars, adminVars>>

(* Take back the RPCs at or above the agreed head, and only retain the     *)
(* entries of the poverty list that are flagged as erroring.               *)
EscapePoverty ==
  /\ check_pc = "poverty_heads"
  /\ LET back == {r \in StillListed(snapshot, poverty_list) : Following(r, agreed_head)}
     IN  /\ rpc_list' = rpc_list \cup Recovered(back \ Ids(rpc_list))
         /\ poverty_list' = RetainErroring(Without(poverty_list, back))
  /\ report' = Status(rpc_list', poverty_list')
  /\ snapshot' = {}
  /\ agreed_head' = 0
  /\ check_pc' = "report"
  /\ UNCHANGED <<node, wsVars, adminVars>>

(* The report is sent to the liveness monitor (see HealthService).         *)
SendReport ==
  /\ check_pc = "report"
  /\ report' = "none"
  /\ check_pc' = "sleep"
  /\ UNCHANGED <<lists, node, snapshot, agreed_head, wsVars, adminVars>>

-----------------------------------------------------------------------------
(* WS connections, as far as they change the pool.                         *)

(* A connection breaks.  The manager opens connections to active RPCs at   *)
(* any time, and the task of a connection it replaced long ago may still   *)
(* report, so any RPC there ever was may be named here.                    *)
ConnectionCloses(r) ==
  /\ r \in known
  /\ Len(ws_err) < MaxWsErr
  /\ ws_err' = Append(ws_err, r)
  /\ UNCHANGED <<lists, node, checkVars, dropped_pc, adminVars>>

(* send_dropped_to_poverty moves the entry as it is, then awaits           *)
(* move_subscriptions.                                                     *)
SendDroppedToPoverty ==
  /\ dropped_pc = "recv"
  /\ ws_err # <<>>
  /\ LET entry == {e \in rpc_list : e.id = Head(ws_err)}
     IN  /\ rpc_list' = rpc_list \ entry
         /\ poverty_list' = poverty_list \cup Without(entry, Ids(poverty_list))
  /\ ws_err' = Tail(ws_err)
  /\ dropped_pc' = "moving"
  /\ UNCHANGED <<node, checkVars, adminVars>>

(* move_subscriptions returned, whatever it returned; the Reconnect that   *)
(* follows leaves the pool alone.                                          *)
DroppedDone ==
  /\ dropped_pc = "moving"
  /\ dropped_pc' = "recv"
  /\ UNCHANGED <<lists, node, checkVars, ws_err, adminVars>>

-----------------------------------------------------------------------------
(* Admin requests.  Only the methods that change the lists are here; one   *)
(* that cannot be parsed, or has no valid token where tokens are required, *)
(* is answered with an error and changes nothing.                          *)

(* execute_method refuses them all when the namespace is readonly.         *)
WriteProtectionEnabled == Readonly

(* NEXT_RPC_ID.fetch_add; the mutant only avoids the ids of one list.      *)
NewIdOfList(r) == r \notin Ids(rpc_list)
NewId(r)       == r \notin known

(* admin_add_rpc pushes a new RPC, with a new id and no error flag.        *)
AdminAddToRpcList(r) ==
  /\ ~WriteProtectionEnabled
  /\ NewId(r)
  /\ rpc_list' = rpc_list \cup Fresh({r})
  /\ known' = known \cup {r}
  /\ UNCHANGED <<poverty_list, node, checkVars, wsVars, removed>>

AdminAddToPovertyList(r) ==
  /\ ~WriteProtectionEnabled
  /\ NewId(r)
  /\ poverty_list' = poverty_list \cup Fresh({r})
  /\ known' = known \cup {r}
  /\ UNCHANGED <<rpc_list, node, checkVars, wsVars, removed>>

(* admin_remove_rpc removes the entry at an index inside the list.         *)
AdminRemoveFromRpcList(e) ==
  /\ ~WriteProtectionEnabled
  /\ rpc_list' = rpc_list \ {e}
  /\ removed' = removed \cup {e.id}
  /\ UNCHANGED <<poverty_list, node, checkVars, wsVars, known>>

AdminRemoveFromPovertyList(e) ==
  /\ ~WriteProtectionEnabled
  /\ poverty_list' = poverty_list \ {e}
  /\ removed' = removed \cup {e.id}
  /\ UNCHANGED <<rpc_list, node, checkVars, wsVars, known>>

-----------------------------------------------------------------------------
(* The nodes themselves: they advance, fall behind, sync and fail freely.  *)
NodeChanges(r) ==
  /\ \E a \in Answers \ {node[r]} : node' = [node EXCEPT ![r] = a]
  /\ UNCHANGED <<lists, checkVars, wsVars, adminVars>>

(* sort_by_latency starts the RPCs that fail or sync in the poverty list.  *)
Init ==
  /\ \E failing \in SUBSET Configured :
       /\ rpc_list = Fresh(Configured \ failing)
       /\ poverty_list = Erroring(failing)
  /\ node \in [Rpc -> Answers]
  /\ check_pc = "sleep"
  /\ snapshot = {}
  /\ agreed_head = 0
  /\ report = "none"
  /\ ws_err = <<>>
  /\ dropped_pc = "recv"
  /\ known = Configured
  /\ removed = {}

HealthCheck == StartCheck \/ MakePoverty \/ StartPovertyCheck \/ EscapePoverty \/ SendReport
Dropped     == SendDroppedToPoverty \/ DroppedDone
Admin ==
  \/ \E r \in Rpc : AdminAddToRpcList(r) \/ AdminAddToPovertyList(r)
  \/ \E e \in rpc_list : AdminRemoveFromRpcList(e)
  \/ \E e \in poverty_list : AdminRemoveFromPovertyList(e)

Next ==
  \/ HealthCheck
  \/ Dropped
  \/ Admin
  \/ \E r \in Rpc : ConnectionCloses(r) \/ NodeChanges(r)

Spec == Init /\ [][Next]_vars

-----------------------------------------------------------------------------
(* The types of the variables: the lists hold entries of existing ids, a   *)
(* report exists only between escape_poverty and its sending.              *)
TypeOK ==
  /\ rpc_list \subseteq Entry
  /\ poverty_list \subseteq Entry
  /\ node \in [Rpc -> Answers]
  /\ check_pc \in {"sleep", "heads", "agreed", "poverty_heads", "report"}
  /\ snapshot \subseteq Rpc
  /\ agreed_head \in Heads
  /\ report \in HealthState \cup {"none"}
  /\ ws_err \in Seq(Rpc) /\ Len(ws_err) <= MaxWsErr
  /\ dropped_pc \in {"recv", "moving"}
  /\ known \subseteq Rpc
  /\ removed \subseteq Rpc

(* An RPC has at most one entry in the two lists together, in whatever     *)
(* order health check, dropped connections and admin requests move it:     *)
(* were it in both, requests would go to an RPC that is out of service and *)
(* one health check would evict and readmit it at once.                    *)
OneHome ==
  /\ \A e, f \in rpc_list : e.id = f.id => e = f
  /\ \A e, f \in poverty_list : e.id = f.id => e = f
  /\ Ids(rpc_list) \cap Ids(poverty_list) = {}

(* No active RPC carries the error flag.  make_poverty drops flagged       *)
(* entries of the active list without moving them, so a flag that stayed   *)
(* up when escape_poverty took the RPC back would lose it in the next      *)
(* round.                                                                  *)
ActiveNotErroring == \A e \in rpc_list : ~e.is_erroring

(* An RPC an admin removed stays out of both lists: a head check that      *)
(* cloned the list before the removal does not bring it back, and neither  *)
(* does a Closed message of its old connection.                            *)
RemovedStaysOut == removed \cap (Ids(rpc_list) \cup Ids(poverty_list)) = {}

(* Every id in use was created: with RemovedStaysOut this makes a new id   *)
(* different from all that are listed or ever were.                        *)
ListedKnown ==
  /\ Ids(rpc_list) \cup Ids(poverty_list) \subseteq known
  /\ removed \subseteq known

(* The inductive invariant behind the theorems of RpcPoolProofs.           *)
PoolInv == TypeOK /\ OneHome /\ ActiveNotErroring /\ RemovedStaysOut /\ ListedKnown

(* What the health check took out of service is never forgotten: a flagged *)
(* RPC of the poverty list leaves the pool only by an admin request.       *)
ErroringNeverLost ==
  [][\A e \in poverty_list :
        e.is_erroring => e.id \in Ids(rpc_list') \cup Ids(poverty_list') \cup removed']_vars

(* Every RPC that was configured or added, and not removed by an admin, is *)
(* in one of the lists: what the comments of send_dropped_to_poverty       *)
(* (health/check.rs:359, 374) say of a dropped RPC.  The code loses it:    *)
(* the entry is moved without the error flag that escape_poverty retains.  *)
NoRpcLost == known \ removed \subseteq Ids(rpc_list) \cup Ids(poverty_list)

(* Node r answers with height h, no node answers with a higher one.        *)
AtHead(r, h) ==
  /\ HeadResult(r) = [head |-> h, syncing |-> FALSE]
  /\ \A s \in Rpc : HeadResult(s).head <= h

(* A node that follows the head, and keeps doing so, does not stay in the  *)
(* poverty list, whatever the other nodes, connections and admins do.      *)
GoodEscapes ==
  \A r \in Rpc, h \in Heads : []<>~(AtHead(r, h) /\ r \in Ids(poverty_list))

(* A node that keeps syncing, or does not answer, does not stay active.    *)
SyncingLeaves == \A r \in Rpc : []<>~(HeadResult(r).syncing /\ r \in Ids(rpc_list))

(* With no active RPC left, any node of the poverty list that answers and  *)
(* is not syncing is let back in, however far behind: the agreed head of   *)
(* an empty list is 0.                                                     *)
ServiceReturns ==
  \A r \in Rpc : []<>~( /\ rpc_list = {}
                        /\ r \in Ids(poverty_list)
                        /\ ~HeadResult(r).syncing )

=============================================================================
