--------------------------- MODULE LiveReadyProofs ---------------------------
(***************************************************************************)
(* The liveness monitor, for every number of probes and every capacity of  *)
(* its two channels: readiness, once seen, is kept, and each probe is      *)
(* answered once.                                                          *)
(***************************************************************************)
EXTENDS LiveReady, SequenceTheorems, TLAPS

(* A /ready probe has been answered 200.                                   *)
SeenReady == \E q \in Probe : probe[q] = "ready_done" /\ outcome[q] = 200

(* Readiness was seen, or a probe began after it was seen, only while the  *)
(* status says Ready.                                                      *)
SeenIsStored == SeenReady \/ after_ready # {} => readiness = "Ready"

(* A probe waits in the channel at most once, and only unanswered; a probe *)
(* is answered exactly when it is done.                                    *)
QueuedOnce ==
  /\ \A i, j \in 1..Len(requests) : requests[i] = requests[j] => i = j
  /\ \A i \in 1..Len(requests) : probe[requests[i]] \in {"ready", "health"}
  /\ \A p \in Probe : outcome[p] # 0 <=> probe[p] \in {"ready_done", "health_done"}

ReadyInv == LiveTypeOK /\ ReadyIsKept /\ SeenIsStored /\ QueuedOnce

(* A probe is answered once: the status it got never changes.              *)
AnsweredOnce == [][\A p \in Probe : outcome[p] # 0 => outcome'[p] = outcome[p]]_lrVars

(* The status never goes back from Ready.                                  *)
ReadinessStays == [][readiness = "Ready" => readiness' = "Ready"]_lrVars

-----------------------------------------------------------------------------
(* The status codes are of the type of outcome, and none of them is 0.     *)
LEMMA CodeTypes ==
  /\ \A r \in {"Setup", "Ready"} : ReadyCode(r) \in {200, 503}
  /\ \A h \in Health : HealthCode(h) \in {200, 202, 503}
  BY DEF ReadyCode, HealthCode, Health

(* The initial state satisfies the invariant.                              *)
LEMMA InitReadyInv == LiveInit => ReadyInv
  BY LiveReadyAssumption
     DEF LiveInit, ReadyInv, LiveTypeOK, ReadyIsKept, SeenIsStored, SeenReady, QueuedOnce, Health

(* An update is queued: only the channel, and main's progress, change.     *)
LEMMA UpdateQueued ==
  ASSUME ReadyInv, NEW u \in Health \cup {"Ready"}, UpdateRoom,
         updates' = Append(updates, u), main_pc' \in {"setup", "serving"},
         UNCHANGED <<readiness, health, probeVars>>
  PROVE  ReadyInv'
  <1>1. LiveTypeOK'
    BY LiveReadyAssumption DEF ReadyInv, LiveTypeOK, UpdateRoom, probeVars
  <1> QED
    BY <1>1 DEF ReadyInv, ReadyIsKept, SeenIsStored, SeenReady, QueuedOnce, probeVars

(* The listener stores an update: readiness may only become Ready.         *)
LEMMA ListenerKeeps ==
  ASSUME ReadyInv, LivenessListener
  PROVE  ReadyInv' /\ (readiness = "Ready" => readiness' = "Ready")
  <1> DEFINE u == Head(updates)
  <1>1. updates # <<>> /\ updates' = Tail(updates) /\ UNCHANGED <<main_pc, probeVars>>
    BY DEF LivenessListener
  <1>2. /\ u \in Health \cup {"Ready"}
        /\ updates' \in Seq(Health \cup {"Ready"}) /\ Len(updates') <= UpdateCap
    <2>1. updates \in Seq(Health \cup {"Ready"}) /\ Len(updates) <= UpdateCap
      BY DEF ReadyInv, LiveTypeOK
    <2> HIDE DEF u
    <2>2. Head(updates) \in Health \cup {"Ready"} /\ Tail(updates) \in Seq(Health \cup {"Ready"})
          /\ Len(Tail(updates)) = Len(updates) - 1
      BY <1>1, <2>1, HeadTailProperties
    <2> QED BY <1>1, <2>1, <2>2, LiveReadyAssumption DEF u
  <1>3. /\ readiness' \in {"Setup", "Ready"} /\ health' \in Health
        /\ readiness = "Ready" => readiness' = "Ready"
    BY <1>2 DEF LivenessListener, Store, ReadyInv, LiveTypeOK
  <1>4. LiveTypeOK'
    BY <1>1, <1>2, <1>3 DEF ReadyInv, LiveTypeOK, probeVars
  <1> QED
    BY <1>1, <1>3, <1>4 DEF ReadyInv, ReadyIsKept, SeenIsStored, SeenReady, QueuedOnce, probeVars

(* A probe arrives; it counts as late only when readiness has been seen.   *)
LEMMA ArrivalKeeps ==
  ASSUME ReadyInv, NEW p \in Probe, NEW kind \in {"ready", "health"}, ProbeArrives(p, kind)
  PROVE  ReadyInv'
  <1>1. /\ probe[p] = "none" /\ probe' = [probe EXCEPT ![p] = kind]
        /\ UNCHANGED <<liveVars, requests, outcome>>
        /\ after_ready' = IF SeenReady THEN after_ready \cup {p} ELSE after_ready
    BY DEF ProbeArrives, SeenReady
  <1>2. LiveTypeOK'
    BY <1>1 DEF ReadyInv, LiveTypeOK, liveVars
  <1>3. \A q \in Probe : q # p => probe'[q] = probe[q]
    BY <1>1 DEF ReadyInv, LiveTypeOK
  <1>4. probe'[p] = kind
    BY <1>1 DEF ReadyInv, LiveTypeOK
  <1>5. ReadyIsKept'
    BY <1>1, <1>3, <1>4 DEF ReadyInv, ReadyIsKept, LiveTypeOK
  <1>6. SeenReady' => SeenReady
    BY <1>1, <1>3, <1>4 DEF SeenReady
  <1>7. SeenIsStored'
    BY <1>1, <1>6 DEF ReadyInv, SeenIsStored, liveVars
  <1>8. QueuedOnce'
    <2>1. \A i \in 1..Len(requests) : requests[i] \in Probe /\ requests[i] # p
      BY <1>1 DEF ReadyInv, LiveTypeOK, QueuedOnce
    <2> QED BY <1>1, <1>3, <1>4, <2>1 DEF ReadyInv, QueuedOnce
  <1> QED BY <1>2, <1>5, <1>7, <1>8 DEF ReadyInv

(* A probe is queued, once.                                                *)
LEMMA SentKeeps ==
  ASSUME ReadyInv, NEW p \in Probe, ProbeSent(p)
  PROVE  ReadyInv'
  <1>1. /\ probe[p] \in {"ready", "health"} /\ \A i \in 1..Len(requests) : requests[i] # p
        /\ requests' = Append(requests, p) /\ Len(requests) < RequestCap
        /\ UNCHANGED <<liveVars, probe, outcome, after_ready>>
    BY DEF ProbeSent, RequestRoom
  <1>2. requests \in Seq(Probe)
    BY DEF ReadyInv, LiveTypeOK
  <1>3. /\ requests' \in Seq(Probe) /\ Len(requests') = Len(requests) + 1
        /\ \A i \in 1..Len(requests) : requests'[i] = requests[i]
        /\ requests'[Len(requests) + 1] = p
    BY <1>1, <1>2
  <1>4. LiveTypeOK'
    BY <1>1, <1>2, <1>3, LiveReadyAssumption DEF ReadyInv, LiveTypeOK, liveVars
  <1>5. QueuedOnce'
    <2>1. \A i \in 1..Len(requests') : i \in 1..Len(requests) \/ i = Len(requests) + 1
      BY <1>2, <1>3
    <2>2. \A i, j \in 1..Len(requests') : requests'[i] = requests'[j] => i = j
      BY <1>1, <1>3, <2>1 DEF ReadyInv, QueuedOnce
    <2>3. \A i \in 1..Len(requests') : probe[requests'[i]] \in {"ready", "health"}
      BY <1>1, <1>3, <2>1 DEF ReadyInv, QueuedOnce
    <2> QED BY <1>1, <2>2, <2>3 DEF ReadyInv, QueuedOnce
  <1> QED
    BY <1>1, <1>4, <1>5 DEF ReadyInv, ReadyIsKept, SeenIsStored, SeenReady, liveVars

(* The processor answers the first probe, and no other outcome changes.    *)
LEMMA ProcessorKeeps ==
  ASSUME ReadyInv, RequestProcessor
  PROVE  ReadyInv' /\ \A p \in Probe : outcome[p] # 0 => outcome'[p] = outcome[p]
  <1> DEFINE p == Head(requests)
  <1>1. requests # <<>> /\ requests' = Tail(requests) /\ UNCHANGED <<liveVars, after_ready>>
    BY DEF RequestProcessor
  <1>2. /\ requests \in Seq(Probe) /\ Len(requests) <= RequestCap
        /\ readiness \in {"Setup", "Ready"} /\ health \in Health
        /\ outcome \in [Probe -> {0, 200, 202, 503}]
        /\ probe \in [Probe -> {"none", "ready", "health", "ready_done", "health_done"}]
    BY DEF ReadyInv, LiveTypeOK
  <1>3. p \in Probe /\ p = requests[1] /\ 1 \in 1..Len(requests)
    BY <1>1, <1>2
  <1>4. /\ requests' \in Seq(Probe) /\ Len(requests') = Len(requests) - 1
        /\ \A i \in 1..Len(requests') : requests'[i] = requests[i+1] /\ i+1 \in 1..Len(requests)
    BY <1>1, <1>2
  <1>5. /\ probe[p] \in {"ready", "health"} /\ outcome[p] = 0
        /\ \A i \in 1..Len(requests') : requests'[i] # p
    <2> HIDE DEF p
    <2>1. \A i \in 1..Len(requests') : i + 1 # 1
      BY <1>2, <1>4
    <2>2. probe[p] \in {"ready", "health"}
      BY <1>3 DEF ReadyInv, QueuedOnce
    <2>3. outcome[p] = 0
      BY <1>3, <2>2 DEF ReadyInv, QueuedOnce
    <2>4. \A i \in 1..Len(requests') : requests'[i] # p
      BY <1>3, <1>4, <2>1 DEF ReadyInv, QueuedOnce
    <2> QED BY <2>2, <2>3, <2>4
  <1>6. \/ /\ probe[p] = "ready" /\ probe' = [probe EXCEPT ![p] = "ready_done"]
           /\ outcome' = [outcome EXCEPT ![p] = ReadyCode(readiness)]
        \/ /\ probe[p] = "health" /\ probe' = [probe EXCEPT ![p] = "health_done"]
           /\ outcome' = [outcome EXCEPT ![p] = HealthCode(health)]
    BY <1>5 DEF RequestProcessor
  <1> HIDE DEF p
  <1>7. /\ outcome' \in [Probe -> {0, 200, 202, 503}] /\ outcome'[p] # 0
        /\ \A q \in Probe : q # p => outcome'[q] = outcome[q]
    BY <1>2, <1>3, <1>6, CodeTypes
  <1>8. /\ probe' \in [Probe -> {"none", "ready", "health", "ready_done", "health_done"}]
        /\ probe'[p] \in {"ready_done", "health_done"}
        /\ \A q \in Probe : q # p => probe'[q] = probe[q]
    BY <1>2, <1>3, <1>6
  <1>9. probe'[p] = "ready_done" => (outcome'[p] = 200 <=> readiness = "Ready")
    BY <1>2, <1>3, <1>6 DEF ReadyCode
  <1>10. LiveTypeOK'
    BY <1>1, <1>2, <1>4, <1>7, <1>8, LiveReadyAssumption DEF ReadyInv, LiveTypeOK, liveVars
  <1>11. ReadyIsKept'
    <2>1. ASSUME NEW q \in after_ready, probe'[q] = "ready_done" PROVE outcome'[q] = 200
      <3>1. q \in Probe /\ readiness = "Ready"
        BY DEF ReadyInv, LiveTypeOK, SeenIsStored
      <3>2. CASE q = p
        BY <1>9, <2>1, <3>1, <3>2
      <3>3. CASE q # p
        BY <1>7, <1>8, <2>1, <3>1, <3>3 DEF ReadyInv, ReadyIsKept
      <3> QED BY <3>2, <3>3
    <2> QED BY <1>1, <2>1 DEF ReadyIsKept
  <1>12. SeenIsStored'
    <2>1. SeenReady' => SeenReady \/ readiness = "Ready"
      BY <1>7, <1>8, <1>9 DEF SeenReady
    <2> QED BY <1>1, <2>1 DEF ReadyInv, SeenIsStored, liveVars
  <1>13. QueuedOnce'
    <2>1. \A i, j \in 1..Len(requests') : requests'[i] = requests'[j] => i = j
      <3>1. ASSUME NEW i \in 1..Len(requests'), NEW j \in 1..Len(requests'),
                   requests'[i] = requests'[j]
            PROVE  i = j
        <4>1. i + 1 = j + 1
          BY <1>4, <3>1 DEF ReadyInv, QueuedOnce
        <4> QED BY <4>1
      <3> QED BY <3>1
    <2>2. \A i \in 1..Len(requests') : probe'[requests'[i]] \in {"ready", "health"}
      <3>1. ASSUME NEW i \in 1..Len(requests')
            PROVE  probe'[requests'[i]] \in {"ready", "health"}
        <4>1. requests'[i] \in Probe /\ requests'[i] # p
          BY <1>2, <1>4, <1>5
        <4>2. probe'[requests'[i]] = probe[requests'[i]]
          BY <1>8, <4>1
        <4> QED BY <1>4, <4>2 DEF ReadyInv, QueuedOnce
      <3> QED BY <3>1
    <2>3. \A q \in Probe : outcome'[q] # 0 <=> probe'[q] \in {"ready_done", "health_done"}
      BY <1>7, <1>8 DEF ReadyInv, QueuedOnce
    <2> QED BY <2>1, <2>2, <2>3 DEF QueuedOnce
  <1> QED
    BY <1>5, <1>7, <1>10, <1>11, <1>12, <1>13 DEF ReadyInv

(* Every step keeps the invariant, every outcome and readiness.            *)
LEMMA NextReadyInv ==
  ReadyInv /\ [LiveNext]_lrVars =>
    /\ ReadyInv'
    /\ \A p \in Probe : outcome[p] # 0 => outcome'[p] = outcome[p]
    /\ readiness = "Ready" => readiness' = "Ready"
<1> SUFFICES ASSUME ReadyInv, [LiveNext]_lrVars
             PROVE  /\ ReadyInv'
                    /\ \A p \in Probe : outcome[p] # 0 => outcome'[p] = outcome[p]
                    /\ readiness = "Ready" => readiness' = "Ready"
  OBVIOUS
<1>1. ASSUME NEW h \in Health, SendHealth(h) PROVE ReadyInv' /\ UNCHANGED <<outcome, readiness>>
  BY <1>1, UpdateQueued DEF SendHealth, probeVars, ReadyInv, LiveTypeOK
<1>2. CASE AnnounceReady
  <2>1. UNCHANGED <<outcome, readiness>> /\ ReadyInv'
    BY <1>2, UpdateQueued DEF AnnounceReady, probeVars
  <2> QED BY <2>1
<1>3. CASE LivenessListener
  BY <1>3, ListenerKeeps DEF LivenessListener, probeVars
<1>4. ASSUME NEW p \in Probe, NEW kind \in {"ready", "health"}, ProbeArrives(p, kind)
      PROVE  ReadyInv' /\ UNCHANGED <<outcome, readiness>>
  BY <1>4, ArrivalKeeps DEF ProbeArrives, liveVars
<1>5. ASSUME NEW p \in Probe, ProbeSent(p) PROVE ReadyInv' /\ UNCHANGED <<outcome, readiness>>
  BY <1>5, SentKeeps DEF ProbeSent, liveVars
<1>6. CASE RequestProcessor
  BY <1>6, ProcessorKeeps DEF RequestProcessor, liveVars
<1>7. CASE UNCHANGED lrVars
  BY <1>7 DEF lrVars, liveVars, probeVars, ReadyInv, LiveTypeOK, ReadyIsKept, SeenIsStored,
              SeenReady, QueuedOnce
<1> QED
  BY <1>1, <1>2, <1>3, <1>4, <1>5, <1>6, <1>7 DEF LiveNext, Monitor

(* The invariant holds throughout.                                         *)
THEOREM ReadyInvariant == LiveSpec => []ReadyInv
  BY InitReadyInv, NextReadyInv, PTL DEF LiveSpec

(* Every variable has its type, and neither channel of liveready.rs holds  *)
(* more than its capacity.                                                 *)
THEOREM LiveTypeCorrect == LiveSpec => []LiveTypeOK
  <1>1. ReadyInv => LiveTypeOK
    BY DEF ReadyInv
  <1> QED BY <1>1, ReadyInvariant, PTL

(* accept_readiness_request: once /ready has answered 200, every later     *)
(* /ready probe is answered 200, whatever the health check sends meanwhile *)
(* through the same channel.                                               *)
THEOREM ReadyIsKeptHolds == LiveSpec => []ReadyIsKept
  <1>1. ReadyInv => ReadyIsKept
    BY DEF ReadyInv
  <1> QED BY <1>1, ReadyInvariant, PTL

(* liveness_request_processor answers a probe once: it is never in the     *)
(* request channel twice, nor there when it has its answer.                *)
THEOREM AnsweredOnceHolds == LiveSpec => AnsweredOnce
  <1>1. ReadyInv /\ [LiveNext]_lrVars
          => [\A p \in Probe : outcome[p] # 0 => outcome'[p] = outcome[p]]_lrVars
    BY NextReadyInv
  <1> QED BY <1>1, ReadyInvariant, PTL DEF LiveSpec, AnsweredOnce

(* liveness_listener never takes readiness back.                           *)
THEOREM ReadinessStaysHolds == LiveSpec => ReadinessStays
  <1>1. ReadyInv /\ [LiveNext]_lrVars => [readiness = "Ready" => readiness' = "Ready"]_lrVars
    BY NextReadyInv
  <1> QED BY <1>1, ReadyInvariant, PTL DEF LiveSpec, ReadinessStays
=============================================================================
