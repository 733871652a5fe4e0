---------------------------- MODULE HealthService ----------------------------
(***************************************************************************)
(* The health check and the liveness monitor together: what a /health      *)
(* probe is told about the two lists of the pool.  The health check task   *)
(* cannot start its next round before the monitor took its last report     *)
(* into the channel.                                                       *)
(***************************************************************************)
EXTENDS RpcPool

CONSTANTS Probe, UpdateCap, RequestCap

VARIABLES updates, main_pc, readiness, health, requests, probe, outcome, after_ready

Live == INSTANCE LiveReady

monitorVars == <<updates, main_pc, readiness, health, requests, probe, outcome, after_ready>>
serviceVars == <<vars, monitorVars>>

ServiceInit == Init /\ Live!LiveInit

(* check: escape_poverty's result is sent while no lock is held, and waits *)
(* for room.                                                               *)
Report == SendReport /\ Live!SendHealth(report)

PoolStep ==
  /\ \/ StartCheck \/ MakePoverty \/ StartPovertyCheck \/ EscapePoverty
     \/ Dropped
     \/ Admin
     \/ \E r \in Rpc : ConnectionCloses(r) \/ NodeChanges(r)
  /\ UNCHANGED monitorVars

MonitorStep == Live!Monitor /\ UNCHANGED vars

ServiceNext == PoolStep \/ Report \/ MonitorStep

(* tokio keeps polling the health check: every wait of its ends, with an   *)
(* answer or with a timeout.  Its report competes with main's announcement *)
(* for room in the channel, which wakes waiting senders in turn.  Nothing  *)
(* is assumed of the nodes, of connections, of admins, or of               *)
(* move_subscriptions, which waits for an answer without a timeout.        *)
ServiceSpec ==
  /\ ServiceInit
  /\ [][ServiceNext]_serviceVars
  /\ WF_serviceVars((StartCheck \/ MakePoverty \/ StartPovertyCheck \/ EscapePoverty)
                     /\ UNCHANGED monitorVars)
  /\ SF_serviceVars(Report)
  /\ SF_serviceVars(Live!AnnounceReady /\ UNCHANGED vars)
  /\ WF_serviceVars(Live!LivenessListener /\ UNCHANGED vars)

-----------------------------------------------------------------------------
(* What /health answers catches up with the lists once these settle: 503   *)
(* with no active RPC, 200 with all of them active, 202 in between.  The   *)
(* report is computed under the locks but stored two tasks later, so this  *)
(* cannot hold in every state.                                             *)
HealthCatchesUp ==
  /\ <>[](rpc_list = {}) => <>[](Live!HealthCode(health) = 503)
  /\ <>[](rpc_list # {} /\ poverty_list = {}) => <>[](Live!HealthCode(health) = 200)
  /\ <>[](rpc_list # {} /\ poverty_list # {}) => <>[](Live!HealthCode(health) = 202)
=============================================================================
