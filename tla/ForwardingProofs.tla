-------------------------- MODULE ForwardingProofs --------------------------
(***************************************************************************)
(* The limits of selection, for every set of RPCs, every configuration of  *)
(* them and every behaviour of clients, nodes, pool and clock.             *)
(***************************************************************************)
EXTENDS Forwarding, TLAPS

(* What pick returns is an active RPC, and an allowed one unless none is.  *)
LEMMA ChoicesActive ==
  /\ Choices \subseteq active
  /\ (\E r \in active : Allowed(r)) => \A r \in Choices : Allowed(r)
  BY DEF Choices, Fastest

(* The initial state satisfies the strengthened invariant.                 *)
LEMMA InitForwardingInv == Init => ForwardingInv
<1> SUFFICES ASSUME Init PROVE ForwardingInv
  OBVIOUS
<1> USE ForwardingAssumption
<1>1. latency_data \in [Rpc -> Seq(Nat)] /\ \A r \in Rpc : Len(latency_data[r]) <= ma_length[r]
  <2>1. PICK sample \in [Rpc -> Durations] :
           latency_data = [r \in Rpc |-> IF r \in active THEN <<sample[r]>> ELSE <<>>]
    BY DEF Init
  <2>2. \A r \in Rpc : sample[r] \in Nat
    <3>1. Durations \subseteq Nat
      OBVIOUS
    <3> QED BY <2>1, <3>1
  <2>3. \A r \in active : r \in Rpc /\ ma_length[r] > 0
    BY DEF Init
  <2>4. ASSUME NEW r \in Rpc
        PROVE  latency_data[r] \in Seq(Nat) /\ Len(latency_data[r]) <= ma_length[r]
    <3>1. CASE r \in active
      <4>1. latency_data[r] = <<sample[r]>>
        BY <2>1, <3>1
      <4>2. ma_length[r] \in Nat /\ ma_length[r] > 0
        BY <2>3, <3>1
      <4> QED BY <4>1, <4>2, <2>2
    <3>2. CASE r \notin active
      <4>1. latency_data[r] = <<>>
        BY <2>1, <3>2
      <4>2. ma_length[r] \in Nat
        OBVIOUS
      <4> QED BY <4>1, <4>2
    <3> QED BY <3>1, <3>2
  <2>5. latency_data = [r \in Rpc |-> latency_data[r]]
    BY <2>1
  <2> QED BY <2>4, <2>5
<1>2. \A r \in Rpc : min_time_delta[r] + 1 \in Nat
  OBVIOUS
<1>3. TypeOK
  <2>1. active \subseteq Rpc
    BY DEF Init
  <2>2. /\ consecutive \in [Rpc -> Nat] /\ since \in [Rpc -> Int]
        /\ rest \in [Rpc -> Nat] /\ ahead \in [Rpc -> Nat]
    BY <1>2 DEF Init
  <2>3. /\ pc \in [Req -> {"idle", "pick", "sent", "answered", "panicked"}]
        /\ via \in [Req -> Rpc \cup {NoRpc}]
        /\ retries \in [Req -> Nat] /\ spent \in [Req -> Nat]
    BY DEF Init
  <2>4. last \in Rpc \cup {NoRpc} /\ row \in Nat /\ excused \in BOOLEAN /\ unrecorded \subseteq Rpc
    BY DEF Init
  <2> QED BY <1>1, <2>1, <2>2, <2>3, <2>4 DEF TypeOK
<1>4. RowCounted
  BY DEF Init, RowCounted
<1>5. RestCovered
  BY <1>2 DEF Init, RestCovered, Shown
<1> QED
  BY <1>3, <1>4, <1>5 DEF ForwardingInv

(* pick keeps its own counters and the history in step.                    *)
LEMMA PickForwardingInv ==
  ASSUME ForwardingInv, NEW r \in Choices, Pick(r)
  PROVE  /\ consecutive' \in [Rpc -> Nat] /\ since' \in [Rpc -> Int]
         /\ last' \in Rpc \cup {NoRpc} /\ row' \in Nat /\ excused' \in BOOLEAN
         /\ rest' \in [Rpc -> Nat] /\ ahead' \in [Rpc -> Nat] /\ unrecorded' \subseteq Rpc
         /\ RowCounted' /\ RestCovered'
<1> USE ForwardingAssumption
<1>0. TypeOK /\ RowCounted /\ RestCovered
  BY DEF ForwardingInv
<1>1. r \in Rpc /\ r \in active
  BY <1>0, ChoicesActive DEF TypeOK
<1>2. Counted(r) \in Nat /\ Counted(r) > 0 /\ (Allowed(r) => Counted(r) = consecutive[r] + 1)
  BY <1>0, <1>1 DEF Counted, TypeOK
<1>3. consecutive' \in [Rpc -> Nat] /\ since' \in [Rpc -> Int]
  <2>1. CASE active = {r}
    BY <1>0, <2>1 DEF Pick, picks, TypeOK
  <2>2. CASE active # {r}
    <3>1. Algo(r)
      BY <2>2 DEF Pick
    <3>2. since' \in [Rpc -> Int]
      <4>1. since' = [since EXCEPT ![r] = 0]
        BY <3>1 DEF Algo
      <4>2. since \in [Rpc -> Int]
        BY <1>0 DEF TypeOK
      <4> QED BY <1>1, <4>1, <4>2
    <3> DEFINE c(s) == CASE s = r                     -> Counted(r)
                         [] s # r /\ s \in active     -> 0
                         [] s # r /\ s \notin active  -> consecutive[s]
    <3>3. ASSUME NEW s \in Rpc PROVE c(s) \in Nat
      <4>1. consecutive[s] \in Nat
        BY <1>0 DEF TypeOK
      <4>2. CASE s = r
        BY <1>2, <4>2
      <4>3. CASE s # r /\ s \in active
        BY <4>3
      <4>4. CASE s # r /\ s \notin active
        BY <4>1, <4>4
      <4> QED BY <4>2, <4>3, <4>4
    <3>4. consecutive' = [s \in Rpc |-> c(s)]
      BY <3>1 DEF Algo
    <3> HIDE DEF c
    <3> QED BY <3>2, <3>3, <3>4
  <2> QED BY <2>1, <2>2
<1>4. /\ last' = r /\ row' = NextInRow(r) /\ row' \in Nat
      /\ rest' = [rest EXCEPT ![r] = 0] /\ ahead' = [ahead EXCEPT ![r] = 0]
  BY <1>0, <1>1 DEF Pick, NextInRow, TypeOK
<1>5. excused' \in BOOLEAN
  BY <1>0 DEF Pick, TypeOK
<1>6. unrecorded' \subseteq Rpc /\ rest' \in [Rpc -> Nat] /\ ahead' \in [Rpc -> Nat]
  BY <1>0, <1>1, <1>4 DEF Pick, TypeOK
<1>7. RowCounted'
  <2> SUFFICES ASSUME ~excused' PROVE consecutive'[r] >= row'
    BY <1>4 DEF RowCounted
  <2>1. active # {r} /\ Allowed(r) /\ ~(last = r /\ excused)
    BY DEF Pick
  <2>2. consecutive'[r] = consecutive[r] + 1
    BY <1>1, <1>2, <2>1 DEF Pick, Algo
  <2>3. CASE last = r
    <3>1. consecutive[r] >= row
      BY <1>0, <1>1, <2>1, <2>3 DEF RowCounted
    <3>2. row' = row \/ row' = row + 1
      BY <1>4, <2>3 DEF NextInRow
    <3>3. consecutive[r] \in Nat /\ row \in Nat
      BY <1>0, <1>1 DEF TypeOK
    <3> QED BY <2>2, <3>1, <3>2, <3>3
  <2>4. CASE last # r
    <3>1. row' = 1
      BY <1>4, <2>4 DEF NextInRow
    <3>2. consecutive[r] \in Nat
      BY <1>0, <1>1 DEF TypeOK
    <3> QED BY <2>2, <3>1, <3>2
  <2> QED BY <2>3, <2>4
<1>8. RestCovered'
  <2> SUFFICES ASSUME NEW s \in Rpc, s \notin unrecorded' PROVE since'[s] <= rest'[s] + ahead'[s]
    BY DEF RestCovered, Shown
  <2>1. CASE s = r
    <3>1. active # {r}
      BY <2>1 DEF Pick
    <3>2. since'[r] = 0 /\ rest'[r] = 0 /\ ahead'[r] = 0
      BY <1>0, <1>1, <1>4, <3>1 DEF Pick, Algo, TypeOK
    <3> QED BY <2>1, <3>2
  <2>2. CASE s # r
    <3>1. s \notin unrecorded
      BY <2>2 DEF Pick
    <3>2. since'[s] = since[s]
      BY <1>0, <1>1, <2>2 DEF Pick, Algo, picks, TypeOK
    <3>3. rest'[s] = rest[s] /\ ahead'[s] = ahead[s]
      BY <1>0, <1>4, <2>2 DEF TypeOK
    <3> QED BY <1>0, <3>1, <3>2, <3>3 DEF RestCovered, Shown
  <2> QED BY <2>1, <2>2
<1> QED BY <1>3, <1>4, <1>5, <1>6, <1>1, <1>7, <1>8

(* update_latency never keeps more samples than the moving average takes.  *)
LEMMA UpdateKeepsWindow ==
  ASSUME TypeOK, NEW r, NEW t \in Nat, UpdateRpcLatency(r, t)
  PROVE  /\ latency_data' \in [Rpc -> Seq(Nat)]
         /\ \A s \in Rpc : Len(latency_data'[s]) <= ma_length[s]
<1> USE ForwardingAssumption
<1>1. CASE r \in active /\ ~UpdatePanics(r)
  <2>1. r \in Rpc /\ ma_length[r] \in Nat
    BY <1>1 DEF TypeOK
  <2> DEFINE data == latency_data[r]
             n    == ma_length[r]
  <2>2. data \in Seq(Nat) /\ Len(data) <= n
    BY <2>1 DEF TypeOK
  <2>3. n > 0
    <3> SUFFICES ASSUME n = 0 PROVE FALSE
      BY <2>1
    <3>1. data = <<>>
      BY <2>2
    <3> QED BY <1>1, <3>1 DEF UpdatePanics
  <2>4. Window(data, n) \in Seq(Nat) /\ Len(Window(data, n)) < n
    <3>1. CASE Len(data) >= n
      <4>1. data # <<>> /\ Len(data) = n
        BY <2>1, <2>2, <2>3, <3>1
      <4>2. Tail(data) \in Seq(Nat) /\ Len(Tail(data)) = Len(data) - 1
        BY <2>2, <4>1
      <4> QED BY <2>1, <3>1, <4>1, <4>2 DEF Window
    <3>2. CASE ~(Len(data) >= n)
      BY <2>1, <2>2, <3>2 DEF Window
    <3> QED BY <3>1, <3>2
  <2>5. Append(Window(data, n), t) \in Seq(Nat) /\ Len(Append(Window(data, n), t)) <= n
    BY <2>1, <2>4
  <2>6. latency_data' = [latency_data EXCEPT ![r] = Append(Window(data, n), t)]
    BY <1>1 DEF UpdateRpcLatency
  <2> HIDE DEF data, n
  <2>7. latency_data' \in [Rpc -> Seq(Nat)]
    BY <2>5, <2>6 DEF TypeOK
  <2>8. ASSUME NEW s \in Rpc PROVE Len(latency_data'[s]) <= ma_length[s]
    <3>1. CASE s = r
      BY <2>1, <2>5, <2>6, <3>1 DEF TypeOK, n
    <3>2. CASE s # r
      BY <2>6, <3>2 DEF TypeOK
    <3> QED BY <3>1, <3>2
  <2> QED BY <2>7, <2>8
<1>2. CASE ~(r \in active /\ ~UpdatePanics(r))
  BY <1>2 DEF UpdateRpcLatency, TypeOK
<1> QED BY <1>1, <1>2

(* Growing older, an RPC never falls behind, nor behind a younger one.     *)
LEMMA OlderMonotone ==
  \A r \in Rpc, n, m \in Int :
    Older(r, n) \in Int /\ Older(r, n) >= n /\ (n <= m => Older(r, n) <= Older(r, m))
  BY ForwardingAssumption DEF Older

(* Every step preserves the strengthened invariant.                        *)
LEMMA NextForwardingInv == ForwardingInv /\ [Next]_vars => ForwardingInv'
<1> SUFFICES ASSUME ForwardingInv, [Next]_vars PROVE ForwardingInv'
  OBVIOUS
<1> USE ForwardingAssumption
<1>0. TypeOK /\ RowCounted /\ RestCovered
  BY DEF ForwardingInv
<1>a. ASSUME UNCHANGED picks, UNCHANGED history PROVE RowCounted' /\ RestCovered'
  BY <1>0, <1>a DEF RowCounted, RestCovered, Shown, picks, history
<1>1. ASSUME NEW q \in Req, RequestArrives(q) PROVE ForwardingInv'
  <2>1. TypeOK'
    BY <1>0, <1>1 DEF RequestArrives, TypeOK, picks, history
  <2> QED BY <1>1, <1>a, <2>1 DEF ForwardingInv, RequestArrives
<1>2. ASSUME NEW q \in Req, Forward(q) PROVE ForwardingInv'
  <2>1. PICK r \in Choices : Pick(r) /\ via' = [via EXCEPT ![q] = r]
    BY <1>2 DEF Forward
  <2>2. r \in Rpc
    BY <1>0, ChoicesActive DEF TypeOK
  <2>3. TypeOK'
    BY <1>0, <1>2, <2>1, <2>2, PickForwardingInv DEF Forward, TypeOK
  <2> QED BY <2>1, <2>3, PickForwardingInv DEF ForwardingInv
<1>3. ASSUME NEW q \in Req, NoRpcAvailable(q) PROVE ForwardingInv'
  <2>1. TypeOK'
    BY <1>0, <1>3 DEF NoRpcAvailable, Ends, TypeOK, picks, history
  <2> QED BY <1>3, <1>a, <2>1 DEF ForwardingInv, NoRpcAvailable
<1>4. ASSUME NEW q \in Req, Measure(q) PROVE ForwardingInv'
  <2>1. spent[q] \in Nat
    BY <1>0 DEF TypeOK
  <2>2. UpdateRpcLatency(via[q], spent[q])
    BY <1>4 DEF Measure
  <2>3. PICK how \in {"panicked", "idle"} : Ends(q, how)
    BY <1>4 DEF Measure
  <2>4. /\ latency_data' \in [Rpc -> Seq(Nat)]
        /\ \A r \in Rpc : Len(latency_data'[r]) <= ma_length[r]
    BY <1>0, <2>1, <2>2, UpdateKeepsWindow
  <2>5. /\ pc' \in [Req -> {"idle", "pick", "sent", "answered", "panicked"}]
        /\ via' \in [Req -> Rpc \cup {NoRpc}]
        /\ retries' \in [Req -> Nat]
        /\ spent' \in [Req -> Nat]
    BY <1>0, <2>3 DEF Ends, TypeOK
  <2>6. TypeOK'
    BY <1>0, <1>4, <2>4, <2>5 DEF Measure, TypeOK, picks, history
  <2> QED BY <1>4, <1>a, <2>6 DEF ForwardingInv, Measure
<1>5. ASSUME NEW q \in Req, NEW t \in Durations, Response(q, t) PROVE ForwardingInv'
  <2>1. t \in Nat
    OBVIOUS
  <2>2. TypeOK'
    BY <1>0, <1>5, <2>1 DEF Response, TypeOK, picks, history
  <2> QED BY <1>5, <1>a, <2>2 DEF ForwardingInv, Response
<1>6. ASSUME NEW q \in Req, NEW t \in Durations, AttemptFails(q, t) PROVE ForwardingInv'
  <2>1. t \in Nat /\ ttl \in Nat
    OBVIOUS
  <2>2. UpdateRpcLatency(via[q], ttl)
    BY <1>6 DEF AttemptFails
  <2>3. /\ pc' \in [Req -> {"idle", "pick", "sent", "answered", "panicked"}]
        /\ via' \in [Req -> Rpc \cup {NoRpc}]
        /\ retries' \in [Req -> Nat]
        /\ spent' \in [Req -> Nat]
    <3>1. ASSUME NEW how \in {"panicked", "idle"}, Ends(q, how)
          PROVE  /\ pc' \in [Req -> {"idle", "pick", "sent", "answered", "panicked"}]
                 /\ via' \in [Req -> Rpc \cup {NoRpc}]
                 /\ retries' \in [Req -> Nat]
                 /\ spent' \in [Req -> Nat]
      BY <1>0, <3>1 DEF Ends, TypeOK
    <3>2. CASE Ends(q, "panicked")
      BY <3>1, <3>2
    <3>3. CASE Ends(q, "idle")
      BY <3>1, <3>3
    <3>4. CASE /\ pc' = [pc EXCEPT ![q] = "pick"]
               /\ retries' = [retries EXCEPT ![q] = @ + 1]
               /\ spent' = [spent EXCEPT ![q] = @ + t]
               /\ UNCHANGED via
      BY <1>0, <2>1, <3>4 DEF TypeOK
    <3> QED BY <1>6, <3>2, <3>3, <3>4 DEF AttemptFails
  <2>4. TypeOK'
    BY <1>0, <1>6, <2>1, <2>2, <2>3, UpdateKeepsWindow DEF AttemptFails, TypeOK, picks, history
  <2> QED BY <1>6, <1>a, <2>4 DEF ForwardingInv, AttemptFails
<1>7. ASSUME WsSend PROVE ForwardingInv'
  <2>1. PICK r \in Choices : Pick(r)
    BY <1>7 DEF WsSend
  <2>2. TypeOK'
    BY <1>0, <1>7, <2>1, PickForwardingInv DEF WsSend, TypeOK, reqVars
  <2> QED BY <2>1, <2>2, PickForwardingInv DEF ForwardingInv
<1>8. ASSUME NEW r \in Rpc, WsMessage(r) PROVE ForwardingInv'
  <2>1. UpdateRpcLatency(r, 0)
    BY <1>8 DEF WsMessage
  <2>2. TypeOK'
    BY <1>0, <1>8, <2>1, UpdateKeepsWindow DEF WsMessage, TypeOK, picks, reqVars, history
  <2> QED BY <1>8, <1>a, <2>2 DEF ForwardingInv, WsMessage
<1>9. ASSUME NEW r \in Rpc, Leaves(r) \/ Joins(r) PROVE ForwardingInv'
  <2>1. TypeOK'
    BY <1>0, <1>9 DEF Leaves, Joins, TypeOK, picks, reqVars, history
  <2> QED BY <1>9, <1>a, <2>1 DEF ForwardingInv, Leaves, Joins
<1>10. ASSUME Tick PROVE ForwardingInv'
  <2>1. since' \in [Rpc -> Int] /\ rest' \in [Rpc -> Nat]
    <3>1. ASSUME NEW r \in Rpc
          PROVE  Older(r, since[r]) \in Int /\ Older(r, Shown(r)) - ahead[r] \in Nat
      <4>1. since[r] \in Int /\ rest[r] \in Nat /\ ahead[r] \in Nat
        BY <1>0 DEF TypeOK
      <4>2. Shown(r) \in Int /\ Shown(r) >= ahead[r]
        BY <4>1 DEF Shown
      <4>3. Older(r, Shown(r)) \in Int /\ Older(r, Shown(r)) >= Shown(r)
        BY <4>2, OlderMonotone
      <4> QED BY <4>1, <4>2, <4>3, OlderMonotone
    <3> QED BY <1>10, <3>1 DEF Tick
  <2>3. TypeOK'
    BY <1>0, <1>10, <2>1 DEF Tick, TypeOK, reqVars
  <2>4. RowCounted'
    BY <1>0, <1>10 DEF Tick, RowCounted
  <2>6. RestCovered'
    BY <1>0, <1>10, OlderMonotone DEF Tick, RestCovered, Shown, TypeOK
  <2> QED BY <2>3, <2>4, <2>6 DEF ForwardingInv
<1>11. ASSUME ClockSetBack PROVE ForwardingInv'
  <2>1. PICK longAgo \in SUBSET {r \in Rpc : since[r] > min_time_delta[r]} :
           since' = [r \in Rpc |-> IF r \in longAgo THEN since[r] ELSE since[r] - 1]
    BY <1>11 DEF ClockSetBack
  <2>2. TypeOK'
    BY <1>0, <1>11, <2>1 DEF ClockSetBack, TypeOK, reqVars, history
  <2>3. RowCounted'
    BY <1>0, <1>11 DEF ClockSetBack, RowCounted, history
  <2>4. \A r \in Rpc : since'[r] <= since[r]
    BY <1>0, <2>1 DEF TypeOK
  <2>5. UNCHANGED <<rest, ahead, unrecorded>>
    BY <1>11 DEF ClockSetBack, history
  <2>6. RestCovered'
    BY <1>0, <2>2, <2>4, <2>5 DEF RestCovered, Shown, TypeOK
  <2> QED BY <2>2, <2>3, <2>6 DEF ForwardingInv
<1>13. ASSUME ClockSetAhead PROVE ForwardingInv'
  <2>1. since' \in [Rpc -> Int] /\ ahead' \in [Rpc -> Nat]
    <3>1. ASSUME NEW r \in Rpc
          PROVE  Older(r, since[r]) \in Int /\ Older(r, Shown(r)) - rest[r] \in Nat
      <4>1. since[r] \in Int /\ rest[r] \in Nat /\ ahead[r] \in Nat
        BY <1>0 DEF TypeOK
      <4>2. Shown(r) \in Int /\ Shown(r) >= rest[r]
        BY <4>1 DEF Shown
      <4>3. Older(r, Shown(r)) \in Int /\ Older(r, Shown(r)) >= Shown(r)
        BY <4>2, OlderMonotone
      <4> QED BY <4>1, <4>2, <4>3, OlderMonotone
    <3> QED BY <1>13, <3>1 DEF ClockSetAhead
  <2>2. TypeOK'
    BY <1>0, <1>13, <2>1 DEF ClockSetAhead, TypeOK, reqVars
  <2>3. RowCounted'
    BY <1>0, <1>13 DEF ClockSetAhead, RowCounted
  <2>4. RestCovered'
    BY <1>0, <1>13, OlderMonotone DEF ClockSetAhead, RestCovered, Shown, TypeOK
  <2> QED BY <2>2, <2>3, <2>4 DEF ForwardingInv
<1>12. ASSUME UNCHANGED vars PROVE ForwardingInv'
  <2>1. TypeOK'
    BY <1>0, <1>12 DEF vars, TypeOK, picks, reqVars, history
  <2> QED BY <1>12, <1>a, <2>1 DEF ForwardingInv, vars
<1> QED
  BY <1>1, <1>2, <1>3, <1>4, <1>5, <1>6, <1>7, <1>8, <1>9, <1>10, <1>11, <1>12, <1>13
  DEF Next, RequestStep

-----------------------------------------------------------------------------
(* The strengthened invariant holds in every reachable state.              *)
THEOREM ForwardingInvariant == Spec => []ForwardingInv
  BY InitForwardingInv, NextForwardingInv, PTL DEF Spec

(* The variables keep their types, and every window of samples its bound.  *)
THEOREM ForwardingTypeCorrect == Spec => []TypeOK
<1>1. ForwardingInv => TypeOK
  BY DEF ForwardingInv
<1> QED BY <1>1, ForwardingInvariant, PTL

(* Where algo need not fall back, max_consecutive holds for every row of   *)
(* calls that were all counted.                                            *)
THEOREM RowRespectedHolds == Spec => []RowRespected
<1>1. ForwardingInv => RowRespected
  <2> SUFFICES ASSUME ForwardingInv, SomeoneAllowed, NEW r \in Choices,
                      last = r, row >= max_consecutive[r], ~excused
               PROVE  FALSE
    BY DEF RowRespected, ForwardingInv, TypeOK
  <2>1. Allowed(r) /\ r \in active
    BY ChoicesActive DEF SomeoneAllowed
  <2>2. r \in Rpc /\ consecutive[r] \in Nat /\ row \in Nat /\ max_consecutive[r] \in Nat
    BY <2>1, ForwardingAssumption DEF ForwardingInv, TypeOK
  <2>3. max_consecutive[r] > consecutive[r]
    BY <2>1 DEF Allowed
  <2>4. consecutive[r] >= row
    BY <2>2 DEF ForwardingInv, RowCounted
  <2> QED BY <2>2, <2>3, <2>4
<1> QED BY <1>1, ForwardingInvariant, PTL

(* Where algo need not fall back, an RPC whose calls are recorded rests    *)
(* for min_time_delta, however the system clock is set back, less what it  *)
(* was set ahead in the meantime.                                          *)
THEOREM RateRespectedHolds == Spec => []RateRespected
<1>1. ForwardingInv => RateRespected
  <2> SUFFICES ASSUME ForwardingInv, SomeoneAllowed, NEW r \in Choices,
                      Shown(r) <= min_time_delta[r], r \notin unrecorded
               PROVE  FALSE
    BY DEF RateRespected
  <2>1. Allowed(r) /\ r \in active
    BY ChoicesActive DEF SomeoneAllowed
  <2>2. r \in Rpc /\ since[r] \in Int /\ Shown(r) \in Nat /\ min_time_delta[r] \in Nat
    BY <2>1, ForwardingAssumption DEF ForwardingInv, TypeOK, Shown
  <2>3. since[r] > min_time_delta[r]
    BY <2>1, <2>2 DEF Allowed, SaturatingSince
  <2>4. since[r] <= Shown(r)
    BY <2>2 DEF ForwardingInv, RestCovered
  <2> QED BY <2>2, <2>3, <2>4
<1> QED BY <1>1, ForwardingInvariant, PTL
=============================================================================
