---------------------------- MODULE RpcPoolProofs ----------------------------
(***************************************************************************)
(* The safety of the pool, for every set of RPCs, every bound and every    *)
(* answer of the nodes; and that the health service, where the pool waits  *)
(* for the liveness monitor, implements the pool, so that what is proved   *)
(* of the pool alone holds there too.                                      *)
(***************************************************************************)
EXTENDS HealthService, TLAPS

(* An id is listed exactly when some entry carries it.                     *)
LEMMA IdsMembers ==
  ASSUME NEW list
  PROVE  /\ \A e \in list : e.id \in Ids(list)
         /\ \A r \in Ids(list) : \E e \in list : e.id = r
  BY DEF Ids

(* The ids of two lists together.                                          *)
LEMMA IdsUnion ==
  ASSUME NEW L, NEW M
  PROVE  Ids(L \cup M) = Ids(L) \cup Ids(M)
  BY DEF Ids

(* Removing entries removes no id that stays, and adds none.               *)
LEMMA IdsSubset ==
  ASSUME NEW L, NEW M, L \subseteq M
  PROVE  Ids(L) \subseteq Ids(M)
  BY DEF Ids

(* Entries pushed for ids that are new or taken back: one per id, unflagged. *)
LEMMA FreshEntries ==
  ASSUME NEW S
  PROVE  /\ \A e \in Fresh(S) : e.id \in S /\ ~e.is_erroring
         /\ \A e, f \in Fresh(S) : e.id = f.id => e = f
         /\ Ids(Fresh(S)) = S
         /\ S \subseteq Rpc => Fresh(S) \subseteq Entry
<1>1. ASSUME NEW e \in Fresh(S)
      PROVE  /\ e.id \in S
             /\ ~e.is_erroring
             /\ e = [id |-> e.id, is_erroring |-> FALSE]
             /\ S \subseteq Rpc => e \in Entry
  <2>1. PICK r \in S : e = [id |-> r, is_erroring |-> FALSE]
    BY DEF Fresh
  <2>2. e.id = r
    BY <2>1
  <2>3. ~e.is_erroring
    BY <2>1
  <2>4. r \in Rpc => [id |-> r, is_erroring |-> FALSE] \in Entry
    BY DEF Entry
  <2> QED BY <2>1, <2>2, <2>3, <2>4
<1>2. ASSUME NEW r \in S PROVE r \in Ids(Fresh(S))
  <2>1. [id |-> r, is_erroring |-> FALSE] \in Fresh(S)
    BY DEF Fresh
  <2>2. [id |-> r, is_erroring |-> FALSE].id = r
    OBVIOUS
  <2> QED BY <2>1, <2>2, IdsMembers
<1>3. ASSUME NEW r \in Ids(Fresh(S)) PROVE r \in S
  BY <1>1, IdsMembers
<1>4. ASSUME NEW e \in Fresh(S), NEW f \in Fresh(S), e.id = f.id PROVE e = f
  BY <1>1, <1>4
<1> QED BY <1>1, <1>2, <1>3, <1>4

(* Entries pushed by make_poverty: one per id, flagged.                    *)
LEMMA ErroringEntries ==
  ASSUME NEW S
  PROVE  /\ \A e \in Erroring(S) : e.id \in S /\ e.is_erroring
         /\ \A e, f \in Erroring(S) : e.id = f.id => e = f
         /\ Ids(Erroring(S)) = S
         /\ S \subseteq Rpc => Erroring(S) \subseteq Entry
<1>1. ASSUME NEW e \in Erroring(S)
      PROVE  /\ e.id \in S
             /\ e.is_erroring
             /\ e = [id |-> e.id, is_erroring |-> TRUE]
             /\ S \subseteq Rpc => e \in Entry
  <2>1. PICK r \in S : e = [id |-> r, is_erroring |-> TRUE]
    BY DEF Erroring
  <2>2. e.id = r
    BY <2>1
  <2>3. e.is_erroring
    BY <2>1
  <2>4. r \in Rpc => [id |-> r, is_erroring |-> TRUE] \in Entry
    BY DEF Entry
  <2> QED BY <2>1, <2>2, <2>3, <2>4
<1>2. ASSUME NEW r \in S PROVE r \in Ids(Erroring(S))
  <2>1. [id |-> r, is_erroring |-> TRUE] \in Erroring(S)
    BY DEF Erroring
  <2>2. [id |-> r, is_erroring |-> TRUE].id = r
    OBVIOUS
  <2> QED BY <2>1, <2>2, IdsMembers
<1>3. ASSUME NEW r \in Ids(Erroring(S)) PROVE r \in S
  BY <1>1, IdsMembers
<1>4. ASSUME NEW e \in Erroring(S), NEW f \in Erroring(S), e.id = f.id PROVE e = f
  BY <1>1, <1>4
<1> QED BY <1>1, <1>2, <1>3, <1>4

(* The lists sort_by_latency makes satisfy the strengthened invariant.     *)
LEMMA InitPoolInv == Init => PoolInv
<1> SUFFICES ASSUME Init PROVE PoolInv
  OBVIOUS
<1> USE PoolAssumption
<1>1. PICK failing \in SUBSET Configured :
         /\ rpc_list = Fresh(Configured \ failing)
         /\ poverty_list = Erroring(failing)
  BY DEF Init
<1>2. TypeOK
  <2>1. rpc_list \subseteq Entry /\ poverty_list \subseteq Entry
    BY <1>1, FreshEntries, ErroringEntries
  <2>2. agreed_head \in Heads
    BY DEF Init, Heads
  <2>3. ws_err \in Seq(Rpc) /\ Len(ws_err) <= MaxWsErr
    BY DEF Init
  <2> QED BY <2>1, <2>2, <2>3 DEF Init, TypeOK
<1>3. OneHome
  <2>1. \A e, f \in rpc_list : e.id = f.id => e = f
    BY <1>1, FreshEntries
  <2>2. \A e, f \in poverty_list : e.id = f.id => e = f
    BY <1>1, ErroringEntries
  <2>3. Ids(rpc_list) = Configured \ failing /\ Ids(poverty_list) = failing
    BY <1>1, FreshEntries, ErroringEntries
  <2> QED BY <2>1, <2>2, <2>3 DEF OneHome
<1>4. ActiveNotErroring
  BY <1>1, FreshEntries DEF ActiveNotErroring
<1>5. RemovedStaysOut
  BY DEF Init, RemovedStaysOut
<1>6. ListedKnown
  BY <1>1, FreshEntries, ErroringEntries DEF Init, ListedKnown
<1> QED
  BY <1>2, <1>3, <1>4, <1>5, <1>6 DEF PoolInv

(* Evicting the RPCs that are behind preserves it.                         *)
LEMMA MakePovertyPoolInv == PoolInv /\ MakePoverty => PoolInv'
<1> SUFFICES ASSUME PoolInv, MakePoverty PROVE PoolInv'
  OBVIOUS
<1> USE PoolAssumption
<1>1. PICK highest \in Heads :
         /\ LET evicted == {r \in StillListed(snapshot, rpc_list) : Behind(r, highest)}
            IN  /\ poverty_list' = poverty_list \cup Erroring(evicted \ Ids(poverty_list))
                /\ rpc_list' = {e \in Without(rpc_list, evicted) : ~e.is_erroring}
         /\ agreed_head' = highest
  BY DEF MakePoverty
<1> DEFINE evicted == {r \in StillListed(snapshot, rpc_list) : Behind(r, highest)}
<1>2. evicted \subseteq Ids(rpc_list) /\ evicted \subseteq Rpc
  BY DEF StillListed, PoolInv, TypeOK
<1>3. /\ poverty_list' = poverty_list \cup Erroring(evicted \ Ids(poverty_list))
      /\ rpc_list' = {e \in rpc_list : e.id \notin evicted /\ ~e.is_erroring}
  BY <1>1 DEF Without
<1> HIDE DEF evicted
<1> DEFINE pushed == Erroring(evicted \ Ids(poverty_list))
<1>p. /\ \A e \in pushed : e.id \in evicted \ Ids(poverty_list)
      /\ \A e, f \in pushed : e.id = f.id => e = f
      /\ Ids(pushed) = evicted \ Ids(poverty_list)
      /\ pushed \subseteq Entry
  BY <1>2, ErroringEntries
<1>i. Ids(poverty_list') = Ids(poverty_list) \cup Ids(pushed)
  BY <1>3, IdsUnion
<1>j. Ids(rpc_list') \subseteq Ids(rpc_list) \ evicted
  <2>1. \A e \in rpc_list' : e \in rpc_list /\ e.id \notin evicted
    BY <1>3
  <2> QED BY <2>1, IdsMembers
<1> HIDE DEF pushed
<1>4. TypeOK'
  BY <1>1, <1>3, <1>p DEF MakePoverty, PoolInv, TypeOK, wsVars, adminVars, pushed
<1>5. OneHome'
  BY <1>2, <1>3, <1>p, <1>i, <1>j, IdsMembers DEF PoolInv, OneHome, pushed
<1>6. ActiveNotErroring'
  BY <1>3 DEF ActiveNotErroring
<1>7. Ids(rpc_list') \cup Ids(poverty_list') \subseteq Ids(rpc_list) \cup Ids(poverty_list)
  BY <1>2, <1>p, <1>i, <1>j
<1>8. RemovedStaysOut' /\ ListedKnown'
  BY <1>7 DEF MakePoverty, PoolInv, RemovedStaysOut, ListedKnown, adminVars
<1> QED
  BY <1>4, <1>5, <1>6, <1>8 DEF PoolInv

(* Taking back the RPCs that recovered preserves it.                       *)
LEMMA EscapePovertyPoolInv == PoolInv /\ EscapePoverty => PoolInv'
<1> SUFFICES ASSUME PoolInv, EscapePoverty PROVE PoolInv'
  OBVIOUS
<1> USE PoolAssumption
<1> DEFINE back == {r \in StillListed(snapshot, poverty_list) : Following(r, agreed_head)}
<1>1. back \subseteq Ids(poverty_list) /\ back \subseteq Rpc
  BY DEF StillListed, PoolInv, TypeOK
<1>2. /\ rpc_list' = rpc_list \cup Fresh(back \ Ids(rpc_list))
      /\ poverty_list' = {e \in poverty_list : e.id \notin back /\ e.is_erroring}
  BY DEF EscapePoverty, Recovered, RetainErroring, Without
<1> HIDE DEF back
<1>3. report' \in HealthState
  BY DEF EscapePoverty, Status, HealthState
<1> DEFINE pushed == Fresh(back \ Ids(rpc_list))
<1>p. /\ \A e \in pushed : e.id \in back \ Ids(rpc_list) /\ ~e.is_erroring
      /\ \A e, f \in pushed : e.id = f.id => e = f
      /\ Ids(pushed) = back \ Ids(rpc_list)
      /\ pushed \subseteq Entry
  BY <1>1, FreshEntries
<1>i. Ids(rpc_list') = Ids(rpc_list) \cup Ids(pushed)
  BY <1>2, IdsUnion
<1>j. Ids(poverty_list') \subseteq Ids(poverty_list) \ back
  <2>1. \A e \in poverty_list' : e \in poverty_list /\ e.id \notin back
    BY <1>2
  <2> QED BY <2>1, IdsMembers
<1> HIDE DEF pushed
<1>4. TypeOK'
  <2>1. rpc_list' \subseteq Entry /\ poverty_list' \subseteq Entry
    BY <1>2, <1>p DEF PoolInv, TypeOK, pushed
  <2>2. 0 \in Heads
    BY DEF Heads
  <2> QED BY <1>3, <2>1, <2>2 DEF EscapePoverty, PoolInv, TypeOK, wsVars, adminVars
<1>5. OneHome'
  BY <1>1, <1>2, <1>p, <1>i, <1>j, IdsMembers DEF PoolInv, OneHome, pushed
<1>6. ActiveNotErroring'
  BY <1>2, <1>p DEF PoolInv, ActiveNotErroring, pushed
<1>7. Ids(rpc_list') \cup Ids(poverty_list') \subseteq Ids(rpc_list) \cup Ids(poverty_list)
  BY <1>1, <1>p, <1>i, <1>j
<1>8. RemovedStaysOut' /\ ListedKnown'
  BY <1>7 DEF EscapePoverty, PoolInv, RemovedStaysOut, ListedKnown, adminVars
<1> QED
  BY <1>4, <1>5, <1>6, <1>8 DEF PoolInv

(* Evicting an RPC whose connection broke preserves it.                    *)
LEMMA DroppedPoolInv == PoolInv /\ SendDroppedToPoverty => PoolInv'
<1> SUFFICES ASSUME PoolInv, SendDroppedToPoverty PROVE PoolInv'
  OBVIOUS
<1> USE PoolAssumption
<1> DEFINE entry == {e \in rpc_list : e.id = Head(ws_err)}
<1>1. /\ rpc_list' = rpc_list \ entry
      /\ poverty_list' = poverty_list \cup {e \in entry : e.id \notin Ids(poverty_list)}
  BY DEF SendDroppedToPoverty, Without
<1>2. ws_err' \in Seq(Rpc) /\ Len(ws_err') <= MaxWsErr
  BY DEF SendDroppedToPoverty, PoolInv, TypeOK
<1>3. TypeOK'
  BY <1>1, <1>2 DEF SendDroppedToPoverty, PoolInv, TypeOK, checkVars, adminVars
<1>4. OneHome'
  BY <1>1 DEF PoolInv, OneHome, Ids
<1>5. ActiveNotErroring'
  BY <1>1 DEF PoolInv, ActiveNotErroring
<1>6. Ids(rpc_list') \cup Ids(poverty_list') \subseteq Ids(rpc_list) \cup Ids(poverty_list)
  BY <1>1 DEF Ids
<1>7. RemovedStaysOut' /\ ListedKnown'
  BY <1>6 DEF SendDroppedToPoverty, PoolInv, RemovedStaysOut, ListedKnown, adminVars
<1> QED
  BY <1>3, <1>4, <1>5, <1>7 DEF PoolInv

(* Adding and removing RPCs preserves it.                                  *)
LEMMA AdminPoolInv == PoolInv /\ Admin => PoolInv'
<1> SUFFICES ASSUME PoolInv, Admin PROVE PoolInv'
  OBVIOUS
<1> USE PoolAssumption
<1>1. ASSUME NEW r \in Rpc, AdminAddToRpcList(r) PROVE PoolInv'
  <2>1. /\ r \notin known
        /\ rpc_list' = rpc_list \cup Fresh({r})
        /\ known' = known \cup {r}
    BY <1>1 DEF AdminAddToRpcList, NewId
  <2>n. /\ \A e \in Fresh({r}) : e.id = r /\ ~e.is_erroring
        /\ \A e, f \in Fresh({r}) : e.id = f.id => e = f
        /\ Fresh({r}) \subseteq Entry
        /\ Ids(Fresh({r})) = {r}
    BY <1>1, FreshEntries
  <2>i. Ids(rpc_list') = Ids(rpc_list) \cup {r}
    BY <2>1, <2>n, IdsUnion
  <2>2. r \notin Ids(rpc_list) \cup Ids(poverty_list) \cup removed
    BY <2>1 DEF PoolInv, ListedKnown
  <2>3. TypeOK'
    BY <1>1, <2>1, <2>n DEF AdminAddToRpcList, PoolInv, TypeOK, checkVars, wsVars
  <2>4. OneHome'
    <3>1. \A e \in rpc_list : e.id # r
      BY <2>2, IdsMembers
    <3>2. \A e, f \in rpc_list' : e.id = f.id => e = f
      BY <2>1, <2>n, <3>1 DEF PoolInv, OneHome
    <3>3. Ids(rpc_list') \cap Ids(poverty_list') = {}
      BY <1>1, <2>2, <2>i DEF AdminAddToRpcList, PoolInv, OneHome
    <3> QED BY <1>1, <3>2, <3>3 DEF AdminAddToRpcList, PoolInv, OneHome
  <2>a. ActiveNotErroring'
    BY <1>1, <2>1, <2>n DEF AdminAddToRpcList, PoolInv, ActiveNotErroring
  <2>5. RemovedStaysOut' /\ ListedKnown'
    BY <1>1, <2>1, <2>2, <2>i DEF AdminAddToRpcList, PoolInv, RemovedStaysOut, ListedKnown
  <2> QED BY <2>3, <2>4, <2>a, <2>5 DEF PoolInv
<1>2. ASSUME NEW r \in Rpc, AdminAddToPovertyList(r) PROVE PoolInv'
  <2>1. /\ r \notin known
        /\ poverty_list' = poverty_list \cup Fresh({r})
        /\ known' = known \cup {r}
    BY <1>2 DEF AdminAddToPovertyList, NewId
  <2>n. /\ \A e \in Fresh({r}) : e.id = r /\ ~e.is_erroring
        /\ \A e, f \in Fresh({r}) : e.id = f.id => e = f
        /\ Fresh({r}) \subseteq Entry
        /\ Ids(Fresh({r})) = {r}
    BY <1>2, FreshEntries
  <2>i. Ids(poverty_list') = Ids(poverty_list) \cup {r}
    BY <2>1, <2>n, IdsUnion
  <2>2. r \notin Ids(rpc_list) \cup Ids(poverty_list) \cup removed
    BY <2>1 DEF PoolInv, ListedKnown
  <2>3. TypeOK'
    BY <1>2, <2>1, <2>n DEF AdminAddToPovertyList, PoolInv, TypeOK, checkVars, wsVars
  <2>4. OneHome'
    <3>1. \A e \in poverty_list : e.id # r
      BY <2>2, IdsMembers
    <3>2. \A e, f \in poverty_list' : e.id = f.id => e = f
      BY <2>1, <2>n, <3>1 DEF PoolInv, OneHome
    <3>3. Ids(rpc_list') \cap Ids(poverty_list') = {}
      BY <1>2, <2>2, <2>i DEF AdminAddToPovertyList, PoolInv, OneHome
    <3> QED BY <1>2, <3>2, <3>3 DEF AdminAddToPovertyList, PoolInv, OneHome
  <2>a. ActiveNotErroring'
    BY <1>2, <2>1, <2>n DEF AdminAddToPovertyList, PoolInv, ActiveNotErroring
  <2>5. RemovedStaysOut' /\ ListedKnown'
    BY <1>2, <2>1, <2>2, <2>i DEF AdminAddToPovertyList, PoolInv, RemovedStaysOut, ListedKnown
  <2> QED BY <2>3, <2>4, <2>a, <2>5 DEF PoolInv
<1>3. ASSUME NEW e \in rpc_list, AdminRemoveFromRpcList(e) PROVE PoolInv'
  <2>1. e.id \in Ids(rpc_list) /\ e.id \in Rpc /\ e.id \in known
    BY <1>3 DEF PoolInv, TypeOK, Entry, ListedKnown, Ids
  <2>2. TypeOK'
    BY <1>3, <2>1 DEF AdminRemoveFromRpcList, PoolInv, TypeOK, checkVars, wsVars
  <2>3. OneHome' /\ ActiveNotErroring'
    BY <1>3 DEF AdminRemoveFromRpcList, PoolInv, OneHome, ActiveNotErroring, Ids
  <2>4. e.id \notin Ids(rpc_list') /\ e.id \notin Ids(poverty_list')
    BY <1>3, <2>1 DEF AdminRemoveFromRpcList, PoolInv, OneHome, Ids
  <2>5. RemovedStaysOut' /\ ListedKnown'
    BY <1>3, <2>1, <2>4 DEF AdminRemoveFromRpcList, PoolInv, RemovedStaysOut, ListedKnown, Ids
  <2> QED BY <2>2, <2>3, <2>5 DEF PoolInv
<1>4. ASSUME NEW e \in poverty_list, AdminRemoveFromPovertyList(e) PROVE PoolInv'
  <2>1. e.id \in Ids(poverty_list) /\ e.id \in Rpc /\ e.id \in known
    BY <1>4 DEF PoolInv, TypeOK, Entry, ListedKnown, Ids
  <2>2. TypeOK'
    BY <1>4, <2>1 DEF AdminRemoveFromPovertyList, PoolInv, TypeOK, checkVars, wsVars
  <2>3. OneHome' /\ ActiveNotErroring'
    BY <1>4 DEF AdminRemoveFromPovertyList, PoolInv, OneHome, ActiveNotErroring, Ids
  <2>4. e.id \notin Ids(rpc_list') /\ e.id \notin Ids(poverty_list')
    BY <1>4, <2>1 DEF AdminRemoveFromPovertyList, PoolInv, OneHome, Ids
  <2>5. RemovedStaysOut' /\ ListedKnown'
    BY <1>4, <2>1, <2>4 DEF AdminRemoveFromPovertyList, PoolInv, RemovedStaysOut, ListedKnown, Ids
  <2> QED BY <2>2, <2>3, <2>5 DEF PoolInv
<1> QED
  BY <1>1, <1>2, <1>3, <1>4 DEF Admin

(* The other steps leave the lists, the ids and the removals alone.        *)
LEMMA ListsUnchangedPoolInv ==
  ASSUME PoolInv, TypeOK', UNCHANGED <<lists, adminVars>>
  PROVE  PoolInv'
  BY DEF PoolInv, OneHome, ActiveNotErroring, RemovedStaysOut, ListedKnown, lists, adminVars

(* Every step of the pool preserves it.                                    *)
LEMMA NextPoolInv == PoolInv /\ [Next]_vars => PoolInv'
<1> SUFFICES ASSUME PoolInv, [Next]_vars PROVE PoolInv'
  OBVIOUS
<1> USE PoolAssumption
<1>1. CASE StartCheck
  <2>1. Ids(rpc_list) \subseteq Rpc
    BY DEF PoolInv, TypeOK, ListedKnown
  <2>2. TypeOK'
    BY <1>1, <2>1 DEF StartCheck, PoolInv, TypeOK, lists, wsVars, adminVars
  <2> QED BY <1>1, <2>2, ListsUnchangedPoolInv DEF StartCheck
<1>2. CASE MakePoverty
  BY <1>2, MakePovertyPoolInv
<1>3. CASE StartPovertyCheck
  <2>1. Ids(poverty_list) \subseteq Rpc
    BY DEF PoolInv, TypeOK, ListedKnown
  <2>2. TypeOK'
    BY <1>3, <2>1 DEF StartPovertyCheck, PoolInv, TypeOK, lists, wsVars, adminVars
  <2> QED BY <1>3, <2>2, ListsUnchangedPoolInv DEF StartPovertyCheck
<1>4. CASE EscapePoverty
  BY <1>4, EscapePovertyPoolInv
<1>5. CASE SendReport
  <2>1. TypeOK'
    BY <1>5 DEF SendReport, PoolInv, TypeOK, lists, wsVars, adminVars
  <2> QED BY <1>5, <2>1, ListsUnchangedPoolInv DEF SendReport
<1>6. CASE SendDroppedToPoverty
  BY <1>6, DroppedPoolInv
<1>7. CASE DroppedDone
  <2>1. TypeOK'
    BY <1>7 DEF DroppedDone, PoolInv, TypeOK, lists, checkVars, adminVars
  <2> QED BY <1>7, <2>1, ListsUnchangedPoolInv DEF DroppedDone
<1>8. CASE Admin
  BY <1>8, AdminPoolInv
<1>9. ASSUME NEW r \in Rpc, ConnectionCloses(r) PROVE PoolInv'
  <2>1. ws_err' \in Seq(Rpc) /\ Len(ws_err') <= MaxWsErr
    BY <1>9 DEF ConnectionCloses, PoolInv, TypeOK
  <2>2. TypeOK'
    BY <1>9, <2>1 DEF ConnectionCloses, PoolInv, TypeOK, lists, checkVars, adminVars
  <2> QED BY <1>9, <2>2, ListsUnchangedPoolInv DEF ConnectionCloses
<1>10. ASSUME NEW r \in Rpc, NodeChanges(r) PROVE PoolInv'
  <2>1. node' \in [Rpc -> Answers]
    BY <1>10 DEF NodeChanges, PoolInv, TypeOK
  <2>2. TypeOK'
    BY <1>10, <2>1 DEF NodeChanges, PoolInv, TypeOK, lists, checkVars, wsVars, adminVars
  <2> QED BY <1>10, <2>2, ListsUnchangedPoolInv DEF NodeChanges
<1>11. CASE UNCHANGED vars
  <2>1. TypeOK'
    BY <1>11 DEF vars, PoolInv, TypeOK, lists, checkVars, wsVars, adminVars
  <2> QED BY <1>11, <2>1, ListsUnchangedPoolInv DEF vars
<1> QED
  BY <1>1, <1>2, <1>3, <1>4, <1>5, <1>6, <1>7, <1>8, <1>9, <1>10, <1>11
  DEF Next, HealthCheck, Dropped

-----------------------------------------------------------------------------
(* The strengthened invariant holds in every reachable state of the pool.  *)
THEOREM PoolInvariant == Spec => []PoolInv
  BY InitPoolInv, NextPoolInv, PTL DEF Spec

(* The variables of the pool keep their types.                             *)
THEOREM TypeCorrect == Spec => []TypeOK
<1>1. PoolInv => TypeOK
  BY DEF PoolInv
<1> QED BY <1>1, PoolInvariant, PTL

(* Health check, dropped connections and admin requests, however they      *)
(* interleave, never leave an RPC in both lists or twice in one.           *)
THEOREM OneHomeHolds == Spec => []OneHome
<1>1. PoolInv => OneHome
  BY DEF PoolInv
<1> QED BY <1>1, PoolInvariant, PTL

(* Requests are never balanced over an RPC that carries the error flag.    *)
THEOREM ActiveNotErroringHolds == Spec => []ActiveNotErroring
<1>1. PoolInv => ActiveNotErroring
  BY DEF PoolInv
<1> QED BY <1>1, PoolInvariant, PTL

(* The action of ErroringNeverLost, for one step.                          *)
LEMMA StepKeepsErroring ==
  ASSUME Next, NEW e \in poverty_list, e.is_erroring
  PROVE  e.id \in Ids(rpc_list') \cup Ids(poverty_list') \cup removed'
<1>1. e.id \in Ids(poverty_list)
  BY IdsMembers
<1>2. ASSUME poverty_list \subseteq poverty_list'
      PROVE  e.id \in Ids(poverty_list')
  BY <1>1, <1>2, IdsSubset
<1>3. CASE EscapePoverty
  <2> DEFINE back == {r \in StillListed(snapshot, poverty_list) : Following(r, agreed_head)}
  <2>1. /\ rpc_list' = rpc_list \cup Fresh(back \ Ids(rpc_list))
        /\ poverty_list' = {f \in poverty_list : f.id \notin back /\ f.is_erroring}
    BY <1>3 DEF EscapePoverty, Recovered, RetainErroring, Without
  <2> HIDE DEF back
  <2>2. CASE e.id \in back
    <3>1. Ids(rpc_list') = Ids(rpc_list) \cup (back \ Ids(rpc_list))
      BY <2>1, IdsUnion, FreshEntries
    <3> QED BY <2>2, <3>1
  <2>3. CASE e.id \notin back
    <3>1. e \in poverty_list'
      BY <2>1, <2>3
    <3> QED BY <3>1, IdsMembers
  <2> QED BY <2>2, <2>3
<1>4. ASSUME NEW f \in poverty_list, AdminRemoveFromPovertyList(f)
      PROVE  e.id \in Ids(poverty_list') \cup removed'
  <2>1. CASE e = f
    BY <1>4, <2>1 DEF AdminRemoveFromPovertyList
  <2>2. CASE e # f
    <3>1. e \in poverty_list'
      BY <1>4, <2>2 DEF AdminRemoveFromPovertyList
    <3> QED BY <3>1, IdsMembers
  <2> QED BY <2>1, <2>2
<1>5. CASE StartCheck \/ MakePoverty \/ StartPovertyCheck \/ SendReport \/ Dropped
  BY <1>2, <1>5
  DEF StartCheck, MakePoverty, StartPovertyCheck, SendReport, Dropped,
      SendDroppedToPoverty, DroppedDone, lists
<1>6. ASSUME NEW r \in Rpc,
             \/ AdminAddToRpcList(r) \/ AdminAddToPovertyList(r)
             \/ ConnectionCloses(r) \/ NodeChanges(r)
      PROVE  e.id \in Ids(poverty_list')
  BY <1>2, <1>6
  DEF AdminAddToRpcList, AdminAddToPovertyList, ConnectionCloses, NodeChanges, lists
<1>7. ASSUME NEW f \in rpc_list, AdminRemoveFromRpcList(f)
      PROVE  e.id \in Ids(poverty_list')
  BY <1>2, <1>7 DEF AdminRemoveFromRpcList
<1> QED
  BY <1>3, <1>4, <1>5, <1>6, <1>7 DEF Next, HealthCheck, Admin

(* An RPC the health check flagged leaves the pool only by an admin        *)
(* request.                                                                *)
THEOREM ErroringNeverLostHolds == Spec => ErroringNeverLost
<1>1. [Next]_vars =>
        [\A e \in poverty_list :
           e.is_erroring => e.id \in Ids(rpc_list') \cup Ids(poverty_list') \cup removed']_vars
  BY StepKeepsErroring
<1> QED BY <1>1, PTL DEF Spec, ErroringNeverLost

(* A head check in flight does not bring back an RPC an admin removed.     *)
THEOREM RemovedStaysOutHolds == Spec => []RemovedStaysOut
<1>1. PoolInv => RemovedStaysOut
  BY DEF PoolInv
<1> QED BY <1>1, PoolInvariant, PTL

-----------------------------------------------------------------------------
(* The health service.                                                     *)

(* A step of the service is one of the pool or none, in which a report may *)
(* have to wait for room in the monitor's channel.                         *)
LEMMA ServiceStepsPool == [ServiceNext]_serviceVars => [Next]_vars
<1> SUFFICES ASSUME [ServiceNext]_serviceVars PROVE [Next]_vars
  OBVIOUS
<1>1. CASE PoolStep
  BY <1>1 DEF PoolStep, Next, HealthCheck
<1>2. CASE Report
  BY <1>2 DEF Report, Next, HealthCheck
<1>3. CASE MonitorStep \/ UNCHANGED serviceVars
  BY <1>3 DEF MonitorStep, serviceVars
<1> QED BY <1>1, <1>2, <1>3 DEF ServiceNext

(* The health check under the monitor's backpressure does only what the    *)
(* pool's specification allows.                                            *)
THEOREM ServiceImplementsPool == ServiceSpec => Spec
<1>1. ServiceInit => Init
  BY DEF ServiceInit
<1> QED BY <1>1, ServiceStepsPool, PTL DEF ServiceSpec, Spec
=============================================================================
