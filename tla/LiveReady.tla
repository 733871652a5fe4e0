------------------------------ MODULE LiveReady ------------------------------
(***************************************************************************)
(* The liveness monitor of the admin namespace (admin/liveready.rs).       *)
(*                                                                         *)
(* The health check and main send updates through a bounded channel to the *)
(* listener task; /ready and /health probes go through a second bounded    *)
(* channel to the request processor, which answers each one with a copy of *)
(* the status it reads under the lock.  The two tasks only share status.   *)
(***************************************************************************)
EXTENDS Naturals, Sequences

CONSTANTS
  Probe,       \* probes, each made once
  UpdateCap,   \* capacity of the update channel (16, main.rs)
  RequestCap   \* capacity of the request channel (16, admin/listener.rs)

ASSUME LiveReadyAssumption ==
  /\ UpdateCap \in Nat \ {0}
  /\ RequestCap \in Nat \ {0}

VARIABLES
  updates,     \* the update channel
  main_pc,     \* whether main has announced readiness
  readiness,   \* LiveReady.readiness
  health,      \* LiveReady.health
  requests,    \* the request channel
  probe,       \* what each probe is doing
  outcome,     \* the HTTP status each probe was answered with, 0 before
  after_ready  \* history: probes that began after /ready had answered 200

liveVars  == <<updates, main_pc, readiness, health>>
probeVars == <<requests, probe, outcome, after_ready>>
lrVars    == <<liveVars, probeVars>>

Health == {"Healthy", "MissingRpcs", "Unhealthy"}

(* The status codes of accept_readiness_request and accept_health_request. *)
(* The mutant answers a missing RPC like an outage.                        *)
HealthCodeStrict(h) == IF h = "Healthy" THEN 200 ELSE 503
HealthCode(h) ==
  CASE h = "Healthy" -> 200 [] h = "MissingRpcs" -> 202 [] h = "Unhealthy" -> 503
ReadyCode(r) == IF r = "Ready" THEN 200 ELSE 503

(* The update channel is bounded; the mutant miscounts its room.           *)
UpdateRoomOver == Len(updates) <= UpdateCap
UpdateRoom     == Len(updates) < UpdateCap

(* The health check's liveness_tx.send, which waits for room.              *)
SendHealth(h) ==
  /\ UpdateRoom
  /\ updates' = Append(updates, h)
  /\ UNCHANGED <<main_pc, readiness, health, probeVars>>

(* main has started every task and announces readiness, once.              *)
AnnounceReady ==
  /\ main_pc = "setup"
  /\ UpdateRoom
  /\ updates' = Append(updates, "Ready")
  /\ main_pc' = "serving"
  /\ UNCHANGED <<readiness, health, probeVars>>

(* liveness_listener stores each update in the field it is for; the mutant *)
(* replaces the whole status, so a health update takes readiness back.     *)
StoreWhole(update) ==
  IF update \in Health THEN health' = update /\ readiness' = "Setup"
                       ELSE readiness' = update /\ health' = "Healthy"
Store(update) ==
  IF update \in Health THEN health' = update /\ UNCHANGED readiness
                       ELSE readiness' = update /\ UNCHANGED health

LivenessListener ==
  /\ updates # <<>>
  /\ Store(Head(updates))
  /\ updates' = Tail(updates)
  /\ UNCHANGED <<main_pc, probeVars>>

(* A probe of either kind comes in and is about to be sent on.             *)
ProbeArrives(p, kind) ==
  /\ probe[p] = "none"
  /\ probe' = [probe EXCEPT ![p] = kind]
  /\ after_ready' = IF \E q \in Probe : probe[q] = "ready_done" /\ outcome[q] = 200
                    THEN after_ready \cup {p} ELSE after_ready
  /\ UNCHANGED <<liveVars, requests, outcome>>

(* liveness_request_sender.send waits for room; the mutant miscounts it.   *)
RequestRoomShort == Len(requests) + 1 < RequestCap
RequestRoom      == Len(requests) < RequestCap

ProbeSent(p) ==
  /\ probe[p] \in {"ready", "health"}
  /\ \A i \in 1..Len(requests) : requests[i] # p
  /\ RequestRoom
  /\ requests' = Append(requests, p)
  /\ UNCHANGED <<liveVars, probe, outcome, after_ready>>

(* liveness_request_processor takes the probes in order.                   *)
RequestProcessor ==
  /\ requests # <<>>
  /\ LET p == Head(requests)
     IN  IF probe[p] = "ready"
         THEN /\ outcome' = [outcome EXCEPT ![p] = ReadyCode(readiness)]
              /\ probe' = [probe EXCEPT ![p] = "ready_done"]
         ELSE /\ outcome' = [outcome EXCEPT ![p] = HealthCode(health)]
              /\ probe' = [probe EXCEPT ![p] = "health_done"]
  /\ requests' = Tail(requests)
  /\ UNCHANGED <<liveVars, after_ready>>

LiveInit ==
  /\ updates = <<>>
  /\ main_pc = "setup"
  /\ readiness = "Setup"
  /\ health = "Healthy"
  /\ requests = <<>>
  /\ probe = [p \in Probe |-> "none"]
  /\ outcome = [p \in Probe |-> 0]
  /\ after_ready = {}

Monitor ==
  \/ AnnounceReady
  \/ LivenessListener
  \/ \E p \in Probe : ProbeArrives(p, "ready") \/ ProbeArrives(p, "health") \/ ProbeSent(p)
  \/ RequestProcessor

LiveNext == Monitor \/ \E h \in Health : SendHealth(h)

LiveSpec == LiveInit /\ [][LiveNext]_lrVars

(* The monitor's tasks are polled whenever they have a message, and a      *)
(* sender is woken in turn when its channel has room again.  Nothing is    *)
(* assumed of when updates are sent or probes made.                        *)
LiveFair ==
  /\ SF_lrVars(AnnounceReady)
  /\ WF_lrVars(LivenessListener)
  /\ WF_lrVars(RequestProcessor)
  /\ \A p \in Probe : SF_lrVars(ProbeSent(p))

LiveFairSpec == LiveSpec /\ LiveFair

-----------------------------------------------------------------------------
(* The types of the variables; neither channel of liveready.rs ever holds  *)
(* more than its capacity.                                                 *)
LiveTypeOK ==
  /\ updates \in Seq(Health \cup {"Ready"}) /\ Len(updates) <= UpdateCap
  /\ main_pc \in {"setup", "serving"}
  /\ readiness \in {"Setup", "Ready"}
  /\ health \in Health
  /\ requests \in Seq(Probe) /\ Len(requests) <= RequestCap
  /\ probe \in [Probe -> {"none", "ready", "health", "ready_done", "health_done"}]
  /\ outcome \in [Probe -> {0, 200, 202, 503}]
  /\ after_ready \subseteq Probe

(* Readiness is not taken back: once a /ready probe has been answered 200, *)
(* every /ready probe that begins later is answered 200, whatever health   *)
(* updates pass through the same channel in between.                       *)
ReadyIsKept ==
  \A p \in after_ready : probe[p] = "ready_done" => outcome[p] = 200

(* Every probe is answered, also when it had to wait for a full channel.   *)
ProbesAnswered ==
  \A p \in Probe : probe[p] \in {"ready", "health"} ~> outcome[p] # 0

(* The announcement gets through a channel the health check also fills,    *)
(* and its effect stays.                                                   *)
BecomesReady == <>[](readiness = "Ready")
=============================================================================
