--------------------------- MODULE HeadCacheProofs ---------------------------
(***************************************************************************)
(* The cache near the tip, for every set of requests, chain height, number *)
(* of clients, length of the database's queue and number of restarts:      *)
(* every stored response about a block that is not final is tracked in     *)
(* head_cache, and a reorg sweeps all of them.                             *)
(***************************************************************************)
EXTENDS HeadCache, SequenceTheorems, WellFoundedInduction, TLAPS

(* The requests of the database task's channel.                            *)
DbOp == [op : {"read"}, by : Req] \cup [op : {"write"}, key : Key]
        \cup [op : {"batch"}, keys : SUBSET Key]

(* What WillBeStored says, of any queue q, content d and pending batch b,  *)
(* and without the greatest index.                                         *)
Untouched(q, k)  == \A i \in 1..Len(q) : ~Touches(q[i], k)
LastIsWrite(q, k) ==
  \E i \in 1..Len(q) : /\ q[i].op = "write" /\ Touches(q[i], k)
                       /\ \A j \in 1..Len(q) : j > i => ~Touches(q[j], k)
Settles(q, d, k) == LastIsWrite(q, k) \/ (Untouched(q, k) /\ k \in d)

-----------------------------------------------------------------------------
(* The invariant.                                                          *)

(* No block is final that was not reported final.                          *)
FinalKnown == finalized <= ever_final

(* handle_reorg's keys are held only until they are sent.                  *)
BatchHeld == mgr_pc # "send" => batch = {}

(* A request is about a key from its first step to its last; it skips      *)
(* head_cache only when the block was final.                               *)
RequestKeys ==
  \A r \in Req : /\ req[r] # "idle" => key[r] \in Key
                 /\ req[r] = "write" => BlockOf[key[r]] <= ever_final

(* A client with a read in the queue is waiting for it, and has only one.  *)
ReadsWait ==
  \A i \in 1..Len(db_queue) : db_queue[i].op = "read" =>
    /\ req[db_queue[i].by] = "reading"
    /\ \A j \in 1..Len(db_queue) :
         db_queue[j].op = "read" /\ db_queue[j].by = db_queue[i].by => j = i

(* What keeps a key from being lost.                                       *)
Covered(k) == BlockOf[k] > ever_final => k \in head_cache[BlockOf[k]] \/ k \in escaped

(* A request that has pushed its key and not stored the response yet finds *)
(* the key covered, whatever passed in between.                            *)
PushedCovered == \A r \in Req : req[r] = "pushed" => Covered(key[r])

(* Tracked, said of the queue and the database.                            *)
StoredCovered ==
  \A k \in Key : k \notin batch /\ Settles(db_queue, db, k) => Covered(k)

CacheInv ==
  /\ TypeOK
  /\ FinalKnown
  /\ BatchHeld
  /\ RequestKeys
  /\ ReadsWait
  /\ PushedCovered
  /\ StoredCovered

-----------------------------------------------------------------------------
(* Operators.                                                              *)

(* What the requests of the database's channel are.                        *)
LEMMA OpTypes ==
  ASSUME NEW o \in DbOp
  PROVE  /\ o.op \in {"read", "write", "batch"}
         /\ o.op = "read" => o.by \in Req
         /\ o.op = "write" => o.key \in Key
         /\ o.op = "batch" => o.keys \in SUBSET Key
  BY DEF DbOp

(* What the three kinds of request touch.                                  *)
LEMMA OpsTouch ==
  /\ \A r \in Req : ReadOp(r) \in DbOp /\ ReadOp(r).op = "read" /\ ReadOp(r).by = r
  /\ \A k \in Key : WriteOp(k) \in DbOp /\ WriteOp(k).op = "write" /\ WriteOp(k).key = k
  /\ \A S \in SUBSET Key : BatchOp(S) \in DbOp /\ BatchOp(S).op = "batch" /\ BatchOp(S).keys = S
  BY DEF ReadOp, WriteOp, BatchOp, DbOp

(* A nonempty set of numbers up to n has a greatest element, and Max is it. *)
LEMMA MaxIsGreatest ==
  ASSUME NEW n \in Nat, NEW S \in SUBSET (1..n), S # {}
  PROVE  Max(S) \in S /\ \A y \in S : Max(S) >= y
  <1> DEFINE T == {n - x : x \in S}
  <1>1. T \subseteq Nat /\ T # {}
    <2>1. \A x \in S : x \in Int /\ x <= n
      OBVIOUS
    <2>2. \A x \in S : n - x \in Nat
      BY <2>1
    <2> QED BY <2>2
  <1>2. PICK t \in T : \A u \in T : ~(<<u, t>> \in OpToRel(<, Nat))
    <2> HIDE DEF T
    <2> QED BY <1>1, NatLessThanWellFounded, WFMin
  <1>3. PICK x \in S : t = n - x
    BY <1>2
  <1>4. \A y \in S : x >= y
    <2>1. ASSUME NEW y \in S, ~(x >= y) PROVE FALSE
      <3>1. n - y \in T /\ n - y \in Nat /\ t \in Nat /\ n - y < t
        BY <1>3, <2>1
      <3>2. <<n - y, t>> \in OpToRel(<, Nat)
        BY <3>1 DEF OpToRel
      <3> QED BY <1>2, <3>1, <3>2
    <2> QED BY <2>1
  <1> QED BY <1>4 DEF Max

(* WillBeStored, without the greatest index.                               *)
LEMMA WillBeStoredMeans ==
  ASSUME NEW q \in Seq(DbOp), NEW d, NEW b, NEW k \in Key
  PROVE  (LET touching == {i \in 1..Len(q) : Touches(q[i], k)}
          IN  CASE k \in b                     -> FALSE
                [] k \notin b /\ touching = {} -> k \in d
                [] OTHER                       -> q[Max(touching)].op = "write")
         <=> (k \notin b /\ Settles(q, d, k))
  <1> DEFINE touching == {i \in 1..Len(q) : Touches(q[i], k)}
  <1>1. CASE touching = {}
    BY <1>1 DEF Settles, Untouched, LastIsWrite
  <1>2. CASE touching # {}
    <2>1. touching \in SUBSET (1..Len(q)) /\ Len(q) \in Nat
      OBVIOUS
    <2>2. Max(touching) \in touching /\ \A y \in touching : Max(touching) >= y
      <3> HIDE DEF touching
      <3> QED BY <1>2, <2>1, MaxIsGreatest
    <2>3. PICK m : m = Max(touching)
      OBVIOUS
    <2>4. m \in 1..Len(q) /\ Touches(q[m], k) /\ \A j \in 1..Len(q) : j > m => ~Touches(q[j], k)
      <3>1. m \in 1..Len(q) /\ Touches(q[m], k)
        BY <2>2, <2>3
      <3>2. \A j \in 1..Len(q) : Touches(q[j], k) => m >= j
        BY <2>2, <2>3
      <3>3. \A j \in 1..Len(q) : m >= j => ~(j > m)
        BY <3>1
      <3> QED BY <3>1, <3>2, <3>3
    <2>5. q[m].op = "write" <=> LastIsWrite(q, k)
      <3>1. ASSUME NEW i \in 1..Len(q), q[i].op = "write", Touches(q[i], k),
                   \A j \in 1..Len(q) : j > i => ~Touches(q[j], k)
            PROVE  i = m
        BY <2>4, <3>1
      <3> QED BY <2>4, <3>1 DEF LastIsWrite
    <2>6. ~Untouched(q, k)
      BY <2>4 DEF Untouched
    <2> QED BY <1>2, <2>3, <2>5, <2>6 DEF Settles
  <1> QED BY <1>1, <1>2

(* A request at the end of the queue decides for the keys it touches.      *)
LEMMA AppendSettles ==
  ASSUME NEW q \in Seq(DbOp), NEW o \in DbOp, NEW d, NEW k \in Key
  PROVE  /\ Touches(o, k) => (Settles(Append(q, o), d, k) <=> o.op = "write")
         /\ ~Touches(o, k) => (Settles(Append(q, o), d, k) <=> Settles(q, d, k))
  <1> DEFINE n == Len(q)  a == Append(q, o)
  <1>1. /\ n \in Nat /\ Len(a) = n + 1 /\ a[n + 1] = o
        /\ \A i \in 1..n : a[i] = q[i]
        /\ \A i \in 1..(n + 1) : i \in 1..n \/ i = n + 1
        /\ n + 1 \in 1..(n + 1) /\ \A i \in 1..n : i \in 1..(n + 1) /\ n + 1 > i
    OBVIOUS
  <1> HIDE DEF n, a
  <1>2. ASSUME Touches(o, k) PROVE Settles(a, d, k) <=> o.op = "write"
    <2>1. ~Untouched(a, k)
      BY <1>1, <1>2 DEF Untouched
    <2>2. LastIsWrite(a, k) => o.op = "write"
      BY <1>1, <1>2 DEF LastIsWrite
    <2>3. o.op = "write" => LastIsWrite(a, k)
      <3>1. \A j \in 1..(n + 1) : ~(j > n + 1)
        BY <1>1
      <3> QED BY <1>1, <1>2, <3>1 DEF LastIsWrite
    <2> QED BY <2>1, <2>2, <2>3 DEF Settles
  <1>3. ASSUME ~Touches(o, k) PROVE Settles(a, d, k) <=> Settles(q, d, k)
    <2>1. Untouched(a, k) <=> Untouched(q, k)
      BY <1>1, <1>3 DEF Untouched, n
    <2>2. LastIsWrite(a, k) => LastIsWrite(q, k)
      BY <1>1, <1>3 DEF LastIsWrite, n
    <2>3. LastIsWrite(q, k) => LastIsWrite(a, k)
      BY <1>1, <1>3 DEF LastIsWrite, n
    <2> QED BY <2>1, <2>2, <2>3 DEF Settles
  <1> QED BY <1>2, <1>3 DEF a

(* The first request of the queue decides only for the keys that nothing   *)
(* behind it touches.                                                      *)
LEMMA TailSettles ==
  ASSUME NEW q \in Seq(DbOp), q # <<>>, NEW d, NEW k \in Key
  PROVE  /\ LastIsWrite(q, k) <=>
              \/ LastIsWrite(Tail(q), k)
              \/ Untouched(Tail(q), k) /\ Touches(Head(q), k) /\ Head(q).op = "write"
         /\ Untouched(q, k) <=> Untouched(Tail(q), k) /\ ~Touches(Head(q), k)
  <1> DEFINE n == Len(q)  t == Tail(q)
  <1>1. /\ n \in Nat \ {0} /\ Len(t) = n - 1 /\ Head(q) = q[1] /\ 1 \in 1..n
        /\ \A i \in 1..(n - 1) : t[i] = q[i + 1] /\ i + 1 \in 1..n /\ i + 1 # 1
        /\ \A i \in 1..n : i = 1 \/ (i - 1 \in 1..(n - 1) /\ (i - 1) + 1 = i)
    OBVIOUS
  <1> HIDE DEF n, t
  <1>2. \A i \in 1..n : i = 1 \/ (i - 1 \in 1..(n - 1) /\ t[i - 1] = q[i])
    BY <1>1
  <1>3. Untouched(q, k) <=> Untouched(t, k) /\ ~Touches(q[1], k)
    BY <1>1, <1>2 DEF Untouched, n
  <1>4. LastIsWrite(t, k) => LastIsWrite(q, k)
    <2>1. SUFFICES ASSUME NEW i \in 1..(n - 1), t[i].op = "write", Touches(t[i], k),
                          \A j \in 1..(n - 1) : j > i => ~Touches(t[j], k)
                   PROVE  LastIsWrite(q, k)
      BY <1>1 DEF LastIsWrite
    <2>2. \A j \in 1..n : j > i + 1 => j - 1 \in 1..(n - 1) /\ t[j - 1] = q[j] /\ j - 1 > i
      BY <1>1, <1>2
    <2> QED BY <1>1, <2>1, <2>2 DEF LastIsWrite, n
  <1>5. Untouched(t, k) /\ Touches(q[1], k) /\ q[1].op = "write" => LastIsWrite(q, k)
    BY <1>1, <1>2 DEF Untouched, LastIsWrite, n
  <1>6. LastIsWrite(q, k) =>
          LastIsWrite(t, k) \/ (Untouched(t, k) /\ Touches(q[1], k) /\ q[1].op = "write")
    <2>1. SUFFICES ASSUME NEW i \in 1..n, q[i].op = "write", Touches(q[i], k),
                          \A j \in 1..n : j > i => ~Touches(q[j], k)
                   PROVE  \/ LastIsWrite(t, k)
                          \/ Untouched(t, k) /\ Touches(q[1], k) /\ q[1].op = "write"
      BY DEF LastIsWrite, n
    <2>2. CASE i = 1
      <3>1. \A j \in 1..(n - 1) : j + 1 > 1
        OBVIOUS
      <3> QED BY <1>1, <2>1, <2>2, <3>1 DEF Untouched
    <2>3. CASE i # 1
      <3>1. i - 1 \in 1..(n - 1) /\ t[i - 1] = q[i]
        BY <1>2, <2>3
      <3>2. \A j \in 1..(n - 1) : j > i - 1 => j + 1 > i
        BY <1>1
      <3> QED BY <1>1, <2>1, <3>1, <3>2 DEF LastIsWrite
    <2> QED BY <2>2, <2>3
  <1> QED BY <1>1, <1>3, <1>4, <1>5, <1>6 DEF t

-----------------------------------------------------------------------------
(* The steps.                                                              *)

(* The invariant implies what the runs check.                              *)
LEMMA CacheInvTracks == CacheInv => Tracked /\ \A k \in Key :
                          WillBeStored(k) <=> k \notin batch /\ Settles(db_queue, db, k)
  <1> SUFFICES ASSUME CacheInv
               PROVE  Tracked /\ \A k \in Key :
                        WillBeStored(k) <=> (k \notin batch /\ Settles(db_queue, db, k))
    OBVIOUS
  <1>1. db_queue \in Seq(DbOp)
    BY DEF CacheInv, TypeOK, DbOp
  <1>2. \A k \in Key : WillBeStored(k) <=> (k \notin batch /\ Settles(db_queue, db, k))
    BY <1>1, WillBeStoredMeans DEF WillBeStored
  <1> QED BY <1>2 DEF CacheInv, StoredCovered, Covered, Tracked

(* The types, one variable at a time, with the queue's named.              *)
LEMMA TypeOKMeans ==
  TypeOK <=>
    /\ blocknum \in 0..MaxBlock /\ unseen \in BOOLEAN
    /\ finalized \in 0..MaxBlock /\ ever_final \in 0..MaxBlock
    /\ mgr_pc \in {"next", "borrow", "send", "finalized"}
    /\ block_number \in 0..MaxBlock /\ new_block \in 0..MaxBlock
    /\ last_finalized \in 0..MaxBlock
    /\ batch \subseteq Key
    /\ head_cache \in [Blocks -> SUBSET Key]
    /\ db \subseteq Key
    /\ db_queue \in Seq(DbOp) /\ Len(db_queue) <= MaxQueue
    /\ req \in [Req -> {"idle", "reading", "fetching", "push", "pushed", "write"}]
    /\ key \in [Req -> Key \cup {NoKey}]
    /\ restarts \in 0..MaxRestarts
    /\ escaped \subseteq Key
  BY DEF TypeOK, DbOp

(* The bounds are numbers, and every key names a block of the chain.       *)
LEMMA Bounds ==
  /\ MaxBlock \in Nat /\ MaxFinal \in Nat /\ MaxFinal <= MaxBlock
  /\ MaxQueue \in Nat /\ MaxRestarts \in Nat
  /\ \A k \in Key : BlockOf[k] \in Blocks /\ BlockOf[k] \in Nat
  BY CacheAssumption DEF Blocks

(* A key stays covered when nothing of it is forgotten but final blocks.   *)
LEMMA CoveredStays ==
  ASSUME ever_final \in Nat, ever_final' \in Nat, ever_final <= ever_final',
         escaped \subseteq escaped', NEW k \in Key, Covered(k),
         \/ head_cache[BlockOf[k]] \subseteq head_cache'[BlockOf[k]]
         \/ BlockOf[k] <= ever_final'
         \/ k \in escaped'
  PROVE  Covered(k)'
  BY Bounds DEF Covered

(* Nothing is stored, requested or forgotten at the start.                 *)
LEMMA InitCacheInv == Init => CacheInv
  <1> SUFFICES ASSUME Init PROVE CacheInv
    OBVIOUS
  <1>1. TypeOK
    <2>1. db_queue \in Seq(DbOp) /\ Len(db_queue) = 0
      BY DEF Init
    <2> QED BY <2>1, Bounds, TypeOKMeans DEF Init
  <1>2. \A k \in Key : ~Settles(db_queue, db, k)
    BY DEF Init, Settles, LastIsWrite
  <1> QED
    BY <1>1, <1>2 DEF Init, CacheInv, FinalKnown, BatchHeld, RequestKeys, ReadsWait, PushedCovered,
                      StoredCovered

(* A step that leaves requests, queue, database and pending batch alone    *)
(* keeps what is said of them if it covers every key that was covered.     *)
LEMMA CoverageStep ==
  ASSUME CacheInv, TypeOK', FinalKnown', BatchHeld', UNCHANGED <<dbVars, reqVars, batch>>,
         ever_final <= ever_final',
         \A k \in Key : Covered(k) => Covered(k)'
  PROVE  CacheInv'
  <1>1. RequestKeys'
    <2>1. ever_final \in Nat /\ ever_final' \in Nat
      BY Bounds, TypeOKMeans DEF CacheInv, TypeOK
    <2> QED BY <2>1, Bounds DEF CacheInv, RequestKeys, reqVars
  <1>2. ReadsWait'
    BY DEF CacheInv, ReadsWait, reqVars, dbVars
  <1>3. PushedCovered'
    BY DEF CacheInv, RequestKeys, PushedCovered, reqVars
  <1>4. StoredCovered'
    BY DEF CacheInv, StoredCovered, dbVars
  <1> QED BY <1>1, <1>2, <1>3, <1>4 DEF CacheInv

(* The watch channels change: finality may only add to what was final.     *)
LEMMA WatchKeeps ==
  ASSUME CacheInv, (\E b \in Blocks : NewHead(b)) \/ (\E f \in 0..MaxFinal : SafeBlock(f))
  PROVE  CacheInv'
  <1>1. CASE \E b \in Blocks : NewHead(b)
    <2>1. PICK b \in Blocks : NewHead(b)
      BY <1>1
    <2>2. b \in 0..MaxBlock
      BY Bounds DEF Blocks
    <2>3. UNCHANGED <<finalized, ever_final, mgrVars, head_cache, dbVars, reqVars, restarts, escaped>>
      BY <2>1 DEF NewHead
    <2>4. TypeOK'
      BY <2>1, <2>2, <2>3, TypeOKMeans DEF NewHead, CacheInv, TypeOK, mgrVars, dbVars, reqVars
    <2>5. ever_final \in Nat
      BY Bounds DEF CacheInv, TypeOK
    <2>6. FinalKnown' /\ BatchHeld'
      BY <2>3 DEF CacheInv, FinalKnown, BatchHeld, mgrVars
    <2>7. \A k \in Key : Covered(k) => Covered(k)'
      BY <2>3 DEF Covered
    <2> QED BY <2>3, <2>4, <2>5, <2>6, <2>7, CoverageStep DEF mgrVars
  <1>2. CASE \E f \in 0..MaxFinal : SafeBlock(f)
    <2>1. PICK f \in 0..MaxFinal : SafeBlock(f)
      BY <1>2
    <2>2. ever_final \in 0..MaxBlock /\ ever_final' \in 0..MaxBlock /\ f \in 0..MaxBlock
      BY <2>1, Bounds DEF SafeBlock, CacheInv, TypeOK
    <2>3. ever_final <= ever_final' /\ FinalKnown'
      BY <2>1, <2>2, Bounds DEF SafeBlock, FinalKnown
    <2>4. TypeOK' /\ BatchHeld'
      BY <2>1, <2>2 DEF SafeBlock, CacheInv, TypeOK, BatchHeld, mgrVars, dbVars, reqVars
    <2>5. \A k \in Key : Covered(k) => Covered(k)'
      BY <2>1, <2>2, <2>3, CoveredStays, Bounds DEF SafeBlock
    <2> QED BY <2>1, <2>3, <2>4, <2>5, CoverageStep DEF SafeBlock, mgrVars
  <1> QED BY <1>1, <1>2

(* manage_cache moves on without touching the keys.                        *)
LEMMA ManagerMoves ==
  ASSUME CacheInv, StreamNext \/ NoReorg
  PROVE  CacheInv'
  <1>1. /\ UNCHANGED <<finalized, ever_final, batch, head_cache, dbVars, reqVars, restarts, escaped>>
        /\ mgr_pc # "send" /\ mgr_pc' # "send"
    BY DEF StreamNext, NoReorg, watchVars
  <1>2. TypeOK'
    BY DEF StreamNext, NoReorg, CacheInv, TypeOK, watchVars, dbVars, reqVars
  <1>3. ever_final \in Nat
    BY Bounds DEF CacheInv, TypeOK
  <1>4. FinalKnown' /\ BatchHeld'
    BY <1>1 DEF CacheInv, FinalKnown, BatchHeld
  <1>5. \A k \in Key : Covered(k) => Covered(k)'
    BY <1>1 DEF Covered
  <1> QED BY <1>1, <1>2, <1>3, <1>4, <1>5, CoverageStep

(* remove_stale forgets blocks that are final.                             *)
LEMMA CheckFinalizedKeeps ==
  ASSUME CacheInv, CheckFinalized
  PROVE  CacheInv'
  <1>1. /\ UNCHANGED <<watchVars, batch, dbVars, reqVars, restarts, escaped>>
        /\ mgr_pc # "send" /\ mgr_pc' = "next"
    BY DEF CheckFinalized
  <1>2. /\ ever_final \in Nat /\ finalized \in Nat /\ finalized <= ever_final
        /\ head_cache \in [Blocks -> SUBSET Key]
    BY Bounds DEF CacheInv, TypeOK, FinalKnown
  <1>3. /\ head_cache' \in [Blocks -> SUBSET Key]
        /\ \A b \in Blocks : b > ever_final => head_cache'[b] = head_cache[b]
    <2>1. \A b \in Blocks : b > ever_final => b \notin StaleBlocks(finalized)
      BY <1>2, Bounds DEF Blocks, StaleBlocks
    <2>2. CASE head_cache' = head_cache
      BY <1>2, <2>2
    <2>3. CASE head_cache' = Forget(StaleBlocks(finalized))
      BY <1>2, <2>1, <2>3 DEF Forget
    <2> QED BY <2>2, <2>3 DEF CheckFinalized
  <1>4. TypeOK'
    BY <1>1, <1>3, Bounds
       DEF CheckFinalized, LastHead, CacheInv, TypeOK, watchVars, dbVars, reqVars
  <1>5. FinalKnown' /\ BatchHeld'
    BY <1>1 DEF CacheInv, FinalKnown, BatchHeld, watchVars
  <1>6. \A k \in Key : Covered(k) => Covered(k)'
    BY <1>1, <1>3, Bounds DEF Covered, watchVars
  <1> QED BY <1>1, <1>2, <1>4, <1>5, <1>6, CoverageStep DEF watchVars

(* handle_reorg: what it takes out of head_cache is in the batch, and what *)
(* has been pushed and is still to be written escapes.                     *)
LEMMA HandleReorgKeeps ==
  ASSUME CacheInv, HandleReorg
  PROVE  CacheInv'
  <1> DEFINE range == ReorgRange(blocknum, block_number) \cap Blocks
  <1>1. /\ UNCHANGED <<watchVars, block_number, last_finalized, dbVars, reqVars, restarts>>
        /\ batch = {} /\ batch' = KeysOf(range) /\ head_cache' = Forget(range)
        /\ escaped' = escaped \cup Storing(range) /\ mgr_pc' = "send" /\ new_block' = blocknum
    BY DEF HandleReorg, CacheInv, BatchHeld
  <1> HIDE DEF range
  <1>2. range \subseteq Blocks
    BY DEF range
  <1>3. head_cache \in [Blocks -> SUBSET Key] /\ escaped \subseteq Key
    BY DEF CacheInv, TypeOK
  <1>4. /\ batch' \subseteq Key /\ head_cache' \in [Blocks -> SUBSET Key]
        /\ \A b \in Blocks \ range : head_cache'[b] = head_cache[b]
        /\ \A b \in range : head_cache[b] \subseteq batch'
    BY <1>1, <1>2, <1>3 DEF KeysOf, Forget
  <1>5. Storing(range) \subseteq Key
    BY DEF Storing, CacheInv, RequestKeys
  <1>6. TypeOK' /\ FinalKnown' /\ BatchHeld'
    BY <1>1, <1>3, <1>4, <1>5
       DEF CacheInv, TypeOK, FinalKnown, BatchHeld, watchVars, dbVars, reqVars
  <1>7. RequestKeys' /\ ReadsWait'
    BY <1>1 DEF CacheInv, RequestKeys, ReadsWait, watchVars, dbVars, reqVars
  <1>8. PushedCovered'
    <2>1. ASSUME NEW r \in Req, req[r] = "pushed" PROVE Covered(key[r])'
      <3>1. key[r] \in Key /\ Covered(key[r])
        BY <2>1 DEF CacheInv, RequestKeys, PushedCovered
      <3>2. CASE BlockOf[key[r]] \in range
        BY <1>1, <2>1, <3>2 DEF Storing, Covered, reqVars
      <3>3. CASE BlockOf[key[r]] \notin range
        BY <1>1, <1>4, <3>1, <3>3, Bounds DEF Covered, watchVars, reqVars
      <3> QED BY <3>2, <3>3
    <2>2. UNCHANGED <<req, key>>
      BY <1>1 DEF reqVars
    <2> QED BY <2>1, <2>2 DEF PushedCovered
  <1>9. StoredCovered'
    <2>1. ASSUME NEW k \in Key, k \notin batch', Settles(db_queue, db, k) PROVE Covered(k)'
      <3>1. Covered(k)
        BY <1>1, <2>1 DEF CacheInv, StoredCovered
      <3> QED BY <1>1, <1>4, <2>1, <3>1, Bounds DEF Covered, watchVars
    <2> QED BY <1>1, <2>1 DEF StoredCovered, dbVars
  <1> QED BY <1>6, <1>7, <1>8, <1>9 DEF CacheInv

(* db_batch: the queue takes over the deletions.                           *)
LEMMA SendBatchKeeps ==
  ASSUME CacheInv, SendBatch
  PROVE  CacheInv'
  <1>1. /\ UNCHANGED <<watchVars, block_number, new_block, last_finalized,
                       head_cache, db, reqVars, restarts, escaped>>
        /\ db_queue' = Append(db_queue, BatchOp(batch)) /\ Len(db_queue) < MaxQueue
        /\ batch' = {} /\ mgr_pc' = "finalized"
    BY DEF SendBatch, QueueRoom
  <1>2. db_queue \in Seq(DbOp) /\ batch \in SUBSET Key
    BY TypeOKMeans DEF CacheInv
  <1> DEFINE o == BatchOp(batch)
  <1>3. o \in DbOp /\ o.op = "batch" /\ o.keys = batch
    BY <1>2, OpsTouch
  <1> HIDE DEF o
  <1>4. /\ db_queue' \in Seq(DbOp) /\ Len(db_queue') = Len(db_queue) + 1
        /\ \A i \in 1..Len(db_queue') : i \in 1..Len(db_queue) \/ i = Len(db_queue) + 1
        /\ \A i \in 1..Len(db_queue) : db_queue'[i] = db_queue[i]
        /\ db_queue'[Len(db_queue) + 1] = o
    BY <1>1, <1>2, <1>3 DEF o
  <1>5. TypeOK'
    <2>1. Len(db_queue') <= MaxQueue
      BY <1>1, <1>2, <1>4, Bounds
    <2> QED BY <1>1, <1>4, <2>1, TypeOKMeans DEF CacheInv, TypeOK, DbOp, watchVars, reqVars
  <1>6. FinalKnown' /\ BatchHeld' /\ RequestKeys' /\ PushedCovered'
    BY <1>1 DEF CacheInv, FinalKnown, BatchHeld, RequestKeys, PushedCovered, Covered,
                watchVars, reqVars
  <1>7. ReadsWait'
    BY <1>1, <1>3, <1>4 DEF CacheInv, ReadsWait, reqVars
  <1>8. StoredCovered'
    <2>1. ASSUME NEW k \in Key, Settles(db_queue', db, k) PROVE Covered(k)
      <3>1. Touches(o, k) <=> k \in batch
        BY <1>3 DEF Touches
      <3>2. k \notin batch /\ Settles(db_queue, db, k)
        BY <1>1, <1>2, <1>3, <2>1, <3>1, AppendSettles DEF o
      <3> QED BY <3>2 DEF CacheInv, StoredCovered
    <2> QED BY <1>1, <2>1 DEF StoredCovered, Covered, watchVars
  <1> QED BY <1>5, <1>6, <1>7, <1>8 DEF CacheInv

(* A request moves on without a step of the database, and leaves what is   *)
(* covered alone.                                                          *)
LEMMA RequestStep ==
  ASSUME CacheInv, NEW r \in Req,
         UNCHANGED <<watchVars, mgrVars, dbVars, restarts, escaped>>,
         req[r] # "reading",
         NEW next \in {"idle", "push", "pushed", "write"}, req' = [req EXCEPT ![r] = next],
         NEW about \in Key \cup {NoKey}, key' = [key EXCEPT ![r] = about],
         next # "idle" => about \in Key,
         next = "write" => BlockOf[about] <= ever_final,
         next = "pushed" => Covered(about)',
         head_cache' \in [Blocks -> SUBSET Key],
         \A b \in Blocks : head_cache[b] \subseteq head_cache'[b]
  PROVE  CacheInv'
  <1>1. /\ req \in [Req -> {"idle", "reading", "fetching", "push", "pushed", "write"}]
        /\ key \in [Req -> Key \cup {NoKey}] /\ db_queue \in Seq(DbOp)
        /\ ever_final \in Nat
    BY Bounds, TypeOKMeans DEF CacheInv
  <1>2. /\ req' \in [Req -> {"idle", "reading", "fetching", "push", "pushed", "write"}]
        /\ key' \in [Req -> Key \cup {NoKey}]
        /\ req'[r] = next /\ key'[r] = about
        /\ \A q \in Req : q # r => req'[q] = req[q] /\ key'[q] = key[q]
    BY <1>1
  <1>3. TypeOK' /\ FinalKnown' /\ BatchHeld'
    BY <1>2 DEF CacheInv, TypeOK, FinalKnown, BatchHeld, watchVars, mgrVars, dbVars
  <1>4. \A k \in Key : Covered(k) => Covered(k)'
    BY Bounds DEF Covered, watchVars
  <1>5. RequestKeys'
    BY <1>2 DEF CacheInv, RequestKeys, watchVars
  <1>6. ReadsWait'
    <2>1. \A i \in 1..Len(db_queue) : db_queue[i].op = "read" => db_queue[i].by \in Req
      BY <1>1, OpTypes
    <2> QED BY <1>2, <2>1 DEF CacheInv, ReadsWait, dbVars
  <1>7. PushedCovered'
    <2>1. ASSUME NEW q \in Req, req'[q] = "pushed", NEW k, k = key'[q] PROVE Covered(k)'
      <3>1. CASE q = r
        BY <1>2, <2>1, <3>1
      <3>2. CASE q # r
        <4>1. req[q] = "pushed" /\ k = key[q]
          BY <1>2, <2>1, <3>2
        <4> QED BY <1>4, <4>1 DEF CacheInv, RequestKeys, PushedCovered
      <3> QED BY <3>1, <3>2
    <2> QED BY <2>1 DEF PushedCovered, Covered
  <1>8. StoredCovered'
    BY <1>4 DEF CacheInv, StoredCovered, dbVars, mgrVars
  <1> QED BY <1>3, <1>5, <1>6, <1>7, <1>8 DEF CacheInv

(* The steps of a request that the database does not see.                  *)
LEMMA RequestMoves ==
  ASSUME CacheInv, NEW r \in Req,
         Answered(r) \/ AnsweredUncacheable(r) \/ PushKey(r) \/ SkipStore(r)
  PROVE  CacheInv'
  <1>1. /\ req \in [Req -> {"idle", "reading", "fetching", "push", "pushed", "write"}]
        /\ key \in [Req -> Key \cup {NoKey}] /\ head_cache \in [Blocks -> SUBSET Key]
        /\ ever_final \in Nat /\ finalized \in Nat /\ finalized <= ever_final
        /\ req[r] # "idle" => key[r] \in Key
    BY Bounds DEF CacheInv, TypeOK, FinalKnown, RequestKeys
  <1>2. CASE AnsweredUncacheable(r) \/ SkipStore(r)
    <2>1. /\ UNCHANGED <<watchVars, mgrVars, head_cache, dbVars, restarts, escaped>>
          /\ req[r] # "reading" /\ req' = [req EXCEPT ![r] = "idle"]
          /\ key' = [key EXCEPT ![r] = NoKey]
      BY <1>2 DEF AnsweredUncacheable, SkipStore
    <2> QED BY <1>1, <2>1, RequestStep
  <1>3. CASE Answered(r)
    <2>1. /\ UNCHANGED <<watchVars, mgrVars, head_cache, dbVars, restarts, escaped>>
          /\ req[r] = "fetching"
          /\ req' = [req EXCEPT ![r] = IF BlockOf[key[r]] > finalized THEN "push" ELSE "write"]
          /\ key' = [key EXCEPT ![r] = key[r]] /\ key[r] \in Key
      BY <1>1, <1>3 DEF Answered
    <2>2. BlockOf[key[r]] \in Nat
      BY <2>1, Bounds
    <2>3. CASE BlockOf[key[r]] > finalized
      BY <1>1, <2>1, <2>3, RequestStep
    <2>4. CASE ~(BlockOf[key[r]] > finalized)
      <3>1. BlockOf[key[r]] <= ever_final
        BY <1>1, <2>2, <2>4
      <3> QED BY <1>1, <2>1, <2>4, <3>1, RequestStep
    <2> QED BY <2>3, <2>4
  <1>4. CASE PushKey(r)
    <2>1. /\ UNCHANGED <<watchVars, mgrVars, dbVars, restarts, escaped>>
          /\ req[r] = "push" /\ req' = [req EXCEPT ![r] = "pushed"]
          /\ key' = [key EXCEPT ![r] = key[r]] /\ key[r] \in Key
          /\ head_cache' = [head_cache EXCEPT ![BlockOf[key[r]]] = @ \cup {key[r]}]
      BY <1>1, <1>4 DEF PushKey
    <2>2. PICK k \in Key : k = key[r]
      BY <2>1
    <2>3. /\ head_cache' \in [Blocks -> SUBSET Key]
          /\ \A b \in Blocks : head_cache[b] \subseteq head_cache'[b]
          /\ k \in head_cache'[BlockOf[k]]
      BY <1>1, <2>1, <2>2, Bounds
    <2>4. Covered(k)'
      BY <2>3 DEF Covered
    <2> QED BY <1>1, <2>1, <2>2, <2>3, <2>4, RequestStep
  <1> QED BY <1>2, <1>3, <1>4

(* A request asks the database whether it has the response.                *)
LEMMA RequestArrivesKeeps ==
  ASSUME CacheInv, NEW r \in Req, NEW k \in Key, RequestArrives(r, k)
  PROVE  CacheInv'
  <1>1. /\ UNCHANGED <<watchVars, mgrVars, head_cache, db, restarts, escaped>>
        /\ req[r] = "idle" /\ Len(db_queue) < MaxQueue /\ db_queue' = Append(db_queue, ReadOp(r))
        /\ req' = [req EXCEPT ![r] = "reading"] /\ key' = [key EXCEPT ![r] = k]
    BY DEF RequestArrives, QueueRoom
  <1>2. /\ req \in [Req -> {"idle", "reading", "fetching", "push", "pushed", "write"}]
        /\ key \in [Req -> Key \cup {NoKey}] /\ db_queue \in Seq(DbOp)
    BY TypeOKMeans DEF CacheInv
  <1>3. /\ req' \in [Req -> {"idle", "reading", "fetching", "push", "pushed", "write"}]
        /\ key' \in [Req -> Key \cup {NoKey}]
        /\ req'[r] = "reading" /\ key'[r] = k
        /\ \A q \in Req : q # r => req'[q] = req[q] /\ key'[q] = key[q]
    BY <1>1, <1>2
  <1> DEFINE o == ReadOp(r)
  <1>4. o \in DbOp /\ o.op = "read" /\ o.by = r
    BY OpsTouch
  <1> HIDE DEF o
  <1>5. /\ db_queue' \in Seq(DbOp) /\ Len(db_queue') = Len(db_queue) + 1
        /\ \A i \in 1..Len(db_queue') : i \in 1..Len(db_queue) \/ i = Len(db_queue) + 1
        /\ \A i \in 1..Len(db_queue) : db_queue'[i] = db_queue[i]
        /\ db_queue'[Len(db_queue) + 1] = o
    BY <1>1, <1>2, <1>4 DEF o
  <1>6. TypeOK' /\ FinalKnown' /\ BatchHeld'
    <2>1. Len(db_queue') <= MaxQueue
      BY <1>1, <1>2, <1>5, Bounds
    <2> QED BY <1>1, <1>3, <1>5, <2>1, TypeOKMeans
            DEF CacheInv, TypeOK, DbOp, FinalKnown, BatchHeld, watchVars, mgrVars
  <1>7. RequestKeys' /\ PushedCovered'
    BY <1>1, <1>3 DEF CacheInv, RequestKeys, PushedCovered, Covered, watchVars
  <1>8. ReadsWait'
    <2>1. \A i \in 1..Len(db_queue) : db_queue[i].op = "read" =>
                                       db_queue[i].by \in Req /\ db_queue[i].by # r
      BY <1>1, <1>2, OpTypes DEF CacheInv, ReadsWait
    <2>2. ASSUME NEW i \in 1..Len(db_queue'), db_queue'[i].op = "read"
          PROVE  /\ req'[db_queue'[i].by] = "reading"
                 /\ \A j \in 1..Len(db_queue') :
                      db_queue'[j].op = "read" /\ db_queue'[j].by = db_queue'[i].by => j = i
      <3>1. CASE i \in 1..Len(db_queue)
        BY <1>3, <1>4, <1>5, <2>1, <2>2, <3>1 DEF CacheInv, ReadsWait
      <3>2. CASE i = Len(db_queue) + 1
        BY <1>3, <1>4, <1>5, <2>1, <3>2
      <3> QED BY <1>5, <3>1, <3>2
    <2> QED BY <2>2 DEF ReadsWait
  <1>9. StoredCovered'
    <2>1. \A c \in Key : ~Touches(o, c)
      BY <1>4 DEF Touches
    <2>2. \A c \in Key : Settles(db_queue', db, c) <=> Settles(db_queue, db, c)
      BY <1>1, <1>2, <1>4, <2>1, AppendSettles DEF o
    <2> QED BY <1>1, <2>2 DEF CacheInv, StoredCovered, Covered, watchVars, mgrVars
  <1> QED BY <1>6, <1>7, <1>8, <1>9 DEF CacheInv

(* A response is queued for writing: its key was pushed, or its block is   *)
(* final.                                                                  *)
LEMMA StoreResponseKeeps ==
  ASSUME CacheInv, NEW r \in Req, StoreResponse(r)
  PROVE  CacheInv'
  <1>1. /\ UNCHANGED <<watchVars, mgrVars, head_cache, db, restarts, escaped>>
        /\ req[r] \in {"pushed", "write"} /\ Len(db_queue) < MaxQueue
        /\ db_queue' = Append(db_queue, WriteOp(key[r]))
        /\ req' = [req EXCEPT ![r] = "idle"] /\ key' = [key EXCEPT ![r] = NoKey]
    BY DEF StoreResponse, QueueRoom
  <1>2. /\ req \in [Req -> {"idle", "reading", "fetching", "push", "pushed", "write"}]
        /\ key \in [Req -> Key \cup {NoKey}] /\ db_queue \in Seq(DbOp)
        /\ ever_final \in Nat
    BY Bounds, TypeOKMeans DEF CacheInv
  <1>3. /\ req' \in [Req -> {"idle", "reading", "fetching", "push", "pushed", "write"}]
        /\ key' \in [Req -> Key \cup {NoKey}] /\ req'[r] = "idle"
        /\ \A q \in Req : q # r => req'[q] = req[q] /\ key'[q] = key[q]
    BY <1>1, <1>2
  <1>4. PICK k \in Key : k = key[r]
    BY <1>1 DEF CacheInv, RequestKeys
  <1>5. Covered(k)
    <2>1. CASE req[r] = "pushed"
      BY <1>4, <2>1 DEF CacheInv, PushedCovered
    <2>2. CASE req[r] = "write"
      <3>1. BlockOf[k] <= ever_final
        BY <1>4, <2>2 DEF CacheInv, RequestKeys
      <3> QED BY <1>2, <3>1, Bounds DEF Covered
    <2> QED BY <1>1, <2>1, <2>2
  <1> DEFINE o == WriteOp(k)
  <1>6. o \in DbOp /\ o.op = "write" /\ o.key = k
    BY OpsTouch
  <1> HIDE DEF o
  <1>7. /\ db_queue' \in Seq(DbOp) /\ Len(db_queue') = Len(db_queue) + 1
        /\ \A i \in 1..Len(db_queue') : i \in 1..Len(db_queue) \/ i = Len(db_queue) + 1
        /\ \A i \in 1..Len(db_queue) : db_queue'[i] = db_queue[i]
        /\ db_queue'[Len(db_queue) + 1] = o
    BY <1>1, <1>2, <1>4, <1>6 DEF o
  <1>8. TypeOK' /\ FinalKnown' /\ BatchHeld'
    <2>1. Len(db_queue') <= MaxQueue
      BY <1>1, <1>2, <1>7, Bounds
    <2> QED BY <1>1, <1>3, <1>7, <2>1, TypeOKMeans
            DEF CacheInv, TypeOK, DbOp, FinalKnown, BatchHeld, watchVars, mgrVars
  <1>9. RequestKeys' /\ PushedCovered'
    BY <1>1, <1>3 DEF CacheInv, RequestKeys, PushedCovered, Covered, watchVars
  <1>10. ReadsWait'
    <2>1. \A i \in 1..Len(db_queue) : db_queue[i].op = "read" =>
                                       db_queue[i].by \in Req /\ db_queue[i].by # r
      BY <1>1, <1>2, OpTypes DEF CacheInv, ReadsWait
    <2>2. ASSUME NEW i \in 1..Len(db_queue'), db_queue'[i].op = "read"
          PROVE  /\ req'[db_queue'[i].by] = "reading"
                 /\ \A j \in 1..Len(db_queue') :
                      db_queue'[j].op = "read" /\ db_queue'[j].by = db_queue'[i].by => j = i
      <3>1. i \in 1..Len(db_queue)
        BY <1>6, <1>7, <2>2
      <3> QED BY <1>3, <1>6, <1>7, <2>1, <2>2, <3>1 DEF CacheInv, ReadsWait
    <2> QED BY <2>2 DEF ReadsWait
  <1>11. StoredCovered'
    <2>1. ASSUME NEW c \in Key, c \notin batch, Settles(db_queue', db, c) PROVE Covered(c)
      <3>1. CASE c = k
        BY <1>5, <3>1
      <3>2. CASE c # k
        <4>1. ~Touches(o, c)
          BY <1>6, <3>2 DEF Touches
        <4>2. Settles(db_queue, db, c)
          BY <1>1, <1>2, <1>4, <1>6, <2>1, <4>1, AppendSettles DEF o
        <4> QED BY <2>1, <4>2 DEF CacheInv, StoredCovered
      <3> QED BY <3>1, <3>2
    <2> QED BY <1>1, <2>1 DEF StoredCovered, Covered, watchVars, mgrVars
  <1> QED BY <1>8, <1>9, <1>10, <1>11 DEF CacheInv

(* The database task takes its first request: whoever waited for it goes   *)
(* on, and what will be stored was going to be, or has escaped.            *)
LEMMA DatabaseStep ==
  ASSUME CacheInv, db_queue # <<>>, db_queue' = Tail(db_queue),
         UNCHANGED <<watchVars, mgrVars, head_cache, restarts>>,
         \/ Head(db_queue).op # "read" /\ UNCHANGED reqVars
         \/ Head(db_queue).op = "read" /\ \E hit \in BOOLEAN : Reply(Head(db_queue).by, hit),
         db' \subseteq Key, escaped \subseteq escaped', escaped' \subseteq Key,
         \A k \in Key : Settles(db_queue', db', k) =>
                           Settles(db_queue, db, k) \/ k \in escaped'
  PROVE  CacheInv'
  <1>1. /\ req \in [Req -> {"idle", "reading", "fetching", "push", "pushed", "write"}]
        /\ key \in [Req -> Key \cup {NoKey}] /\ db_queue \in Seq(DbOp)
        /\ Len(db_queue) <= MaxQueue
    BY TypeOKMeans DEF CacheInv
  <1> DEFINE o == Head(db_queue)
  <1>2. /\ o \in DbOp /\ o = db_queue[1] /\ 1 \in 1..Len(db_queue)
        /\ db_queue' \in Seq(DbOp) /\ Len(db_queue') = Len(db_queue) - 1
        /\ \A i \in 1..Len(db_queue') :
             db_queue'[i] = db_queue[i + 1] /\ i + 1 \in 1..Len(db_queue) /\ i + 1 # 1
    BY <1>1
  <1> HIDE DEF o
  <1>3. CASE o.op # "read" /\ UNCHANGED reqVars
    <2>1. TypeOK' /\ FinalKnown' /\ BatchHeld'
      <3>1. Len(db_queue') <= MaxQueue
        BY <1>1, <1>2, Bounds
      <3> QED BY <1>2, <1>3, <3>1, TypeOKMeans
              DEF CacheInv, TypeOK, DbOp, FinalKnown, BatchHeld, watchVars, mgrVars, reqVars
    <2>2. \A k \in Key : Covered(k) \/ k \in escaped' => Covered(k)'
      BY DEF Covered, watchVars
    <2>3. RequestKeys' /\ PushedCovered'
      BY <1>3, <2>2 DEF CacheInv, RequestKeys, PushedCovered, watchVars, reqVars
    <2>4. ReadsWait'
      <3>1. ASSUME NEW i \in 1..Len(db_queue'), db_queue'[i].op = "read"
            PROVE  /\ req[db_queue'[i].by] = "reading"
                   /\ \A j \in 1..Len(db_queue') :
                        db_queue'[j].op = "read" /\ db_queue'[j].by = db_queue'[i].by => j = i
        <4>1. req[db_queue'[i].by] = "reading"
          BY <1>2, <3>1 DEF CacheInv, ReadsWait
        <4>2. ASSUME NEW j \in 1..Len(db_queue'), db_queue'[j].op = "read",
                     db_queue'[j].by = db_queue'[i].by
              PROVE  j = i
          <5>1. j + 1 = i + 1
            BY <1>2, <3>1, <4>2 DEF CacheInv, ReadsWait
          <5> QED BY <5>1
        <4> QED BY <4>1, <4>2
      <3> QED BY <1>3, <3>1 DEF ReadsWait, reqVars
    <2>5. StoredCovered'
      BY <2>2 DEF CacheInv, StoredCovered, mgrVars
    <2> QED BY <2>1, <2>3, <2>4, <2>5 DEF CacheInv
  <1>4. CASE o.op = "read" /\ \E hit \in BOOLEAN : Reply(o.by, hit)
    <2>1. PICK r \in Req : r = o.by
      BY <1>2, <1>4, OpTypes
    <2>2. PICK hit \in BOOLEAN : Reply(r, hit)
      BY <1>4, <2>1
    <2>3. req[r] = "reading" /\ key[r] \in Key
      BY <1>2, <1>4, <2>1 DEF CacheInv, ReadsWait, RequestKeys
    <2>4. /\ req' \in [Req -> {"idle", "reading", "fetching", "push", "pushed", "write"}]
          /\ key' \in [Req -> Key \cup {NoKey}]
          /\ req'[r] \in {"idle", "fetching"}
          /\ req'[r] # "idle" => key'[r] = key[r]
          /\ \A q \in Req : q # r => req'[q] = req[q] /\ key'[q] = key[q]
      BY <1>1, <2>2 DEF Reply
    <2>5. TypeOK' /\ FinalKnown' /\ BatchHeld'
      <3>1. Len(db_queue') <= MaxQueue
        BY <1>1, <1>2, Bounds
      <3> QED BY <1>2, <2>4, <3>1, TypeOKMeans
              DEF CacheInv, TypeOK, DbOp, FinalKnown, BatchHeld, watchVars, mgrVars
    <2>6. \A k \in Key : Covered(k) \/ k \in escaped' => Covered(k)'
      BY DEF Covered, watchVars
    <2>7. RequestKeys'
      BY <2>3, <2>4 DEF CacheInv, RequestKeys, watchVars
    <2>8. PushedCovered'
      <3>1. ASSUME NEW q \in Req, req'[q] = "pushed", NEW k, k = key'[q] PROVE Covered(k)'
        <4>1. q # r /\ req[q] = "pushed" /\ k = key[q] /\ k \in Key
          BY <2>4, <3>1 DEF CacheInv, RequestKeys
        <4> QED BY <2>6, <4>1 DEF CacheInv, PushedCovered
      <3> QED BY <3>1 DEF PushedCovered, Covered
    <2>9. ReadsWait'
      <3>1. ASSUME NEW i \in 1..Len(db_queue'), db_queue'[i].op = "read"
            PROVE  /\ req'[db_queue'[i].by] = "reading"
                   /\ \A j \in 1..Len(db_queue') :
                        db_queue'[j].op = "read" /\ db_queue'[j].by = db_queue'[i].by => j = i
        <4>1. db_queue'[i].by # r /\ req[db_queue'[i].by] = "reading"
          BY <1>2, <1>4, <2>1, <3>1 DEF CacheInv, ReadsWait
        <4>2. db_queue'[i].by \in Req
          BY <1>2, <3>1, OpTypes
        <4>3. ASSUME NEW j \in 1..Len(db_queue'), db_queue'[j].op = "read",
                     db_queue'[j].by = db_queue'[i].by
              PROVE  j = i
          <5>1. j + 1 = i + 1
            BY <1>2, <3>1, <4>3 DEF CacheInv, ReadsWait
          <5> QED BY <5>1
        <4> QED BY <2>4, <4>1, <4>2, <4>3
      <3> QED BY <3>1 DEF ReadsWait
    <2>10. StoredCovered'
      BY <2>6 DEF CacheInv, StoredCovered, mgrVars
    <2> QED BY <2>5, <2>7, <2>8, <2>9, <2>10 DEF CacheInv
  <1> QED BY <1>3, <1>4 DEF o

(* A read, a write, a batch of deletions, or one that fails.               *)
LEMMA DatabaseKeeps ==
  ASSUME CacheInv, Database
  PROVE  CacheInv'
  <1> DEFINE o == Head(db_queue)  t == Tail(db_queue)
  <1>1. /\ db_queue # <<>> /\ db_queue' = t
        /\ UNCHANGED <<watchVars, mgrVars, head_cache, restarts>>
    BY DEF Database, DbRead, DbWrite, DbBatch, DbError
  <1>2. /\ db_queue \in Seq(DbOp) /\ db \subseteq Key /\ escaped \subseteq Key /\ o \in DbOp
    BY <1>1, TypeOKMeans DEF CacheInv
  <1> HIDE DEF o, t
  <1>3. /\ o.op \in {"read", "write", "batch"}
        /\ o.op = "write" => o.key \in Key
        /\ o.op = "batch" => o.keys \subseteq Key
    BY <1>2, OpTypes
  <1>4. ASSUME NEW k \in Key, NEW d
        PROVE  Settles(db_queue, d, k) <=>
                 \/ LastIsWrite(t, k)
                 \/ Untouched(t, k) /\ Touches(o, k) /\ o.op = "write"
                 \/ Untouched(t, k) /\ ~Touches(o, k) /\ k \in d
    BY <1>1, <1>2, TailSettles DEF Settles, o, t
  <1>5. ASSUME NEW k \in Key, NEW d
        PROVE  Settles(t, d, k) <=> LastIsWrite(t, k) \/ (Untouched(t, k) /\ k \in d)
    BY DEF Settles
  <1>6. CASE DbRead
    <2>1. /\ o.op = "read" /\ \E hit \in BOOLEAN : Reply(o.by, hit)
          /\ UNCHANGED <<db, escaped>>
      <3>1. Reply(o.by, key[o.by] \in db)
        BY <1>6 DEF DbRead, o
      <3>2. (key[o.by] \in db) \in BOOLEAN
        OBVIOUS
      <3> QED BY <1>6, <3>1, <3>2 DEF DbRead, o
    <2>2. \A k \in Key : ~Touches(o, k)
      BY <2>1 DEF Touches
    <2>3. \A k \in Key : Settles(t, db, k) => Settles(db_queue, db, k)
      BY <1>4, <1>5, <2>2
    <2> QED BY <1>1, <1>2, <2>1, <2>3, DatabaseStep DEF o, t
  <1>7. CASE DbWrite
    <2>1. o.op = "write" /\ db' = db \cup {o.key} /\ UNCHANGED <<reqVars, escaped>>
      BY <1>7 DEF DbWrite, o
    <2>2. \A k \in Key : Touches(o, k) <=> o.key = k
      BY <2>1 DEF Touches
    <2>3. \A k \in Key : Settles(t, db', k) => Settles(db_queue, db, k)
      BY <1>4, <1>5, <2>1, <2>2
    <2> QED BY <1>1, <1>2, <1>3, <2>1, <2>3, DatabaseStep DEF o, t
  <1>8. CASE DbBatch
    <2>1. o.op = "batch" /\ db' = db \ o.keys /\ UNCHANGED <<reqVars, escaped>>
      BY <1>8 DEF DbBatch, o
    <2>2. \A k \in Key : Touches(o, k) <=> k \in o.keys
      BY <2>1 DEF Touches
    <2>3. \A k \in Key : Settles(t, db', k) => Settles(db_queue, db, k)
      BY <1>4, <1>5, <2>1, <2>2
    <2> QED BY <1>1, <1>2, <1>3, <2>1, <2>3, DatabaseStep DEF o, t
  <1>9. CASE DbError
    <2>1. /\ IF o.op = "read" THEN Reply(o.by, FALSE) ELSE UNCHANGED reqVars
          /\ escaped' = IF o.op = "batch" THEN escaped \cup o.keys ELSE escaped
          /\ db' = db
      BY <1>9 DEF DbError, o
    <2>2. \A k \in Key : Touches(o, k) => o.op = "write" \/ (o.op = "batch" /\ k \in o.keys)
      BY DEF Touches
    <2>3. \A k \in Key : Settles(t, db', k) => Settles(db_queue, db, k) \/ k \in escaped'
      BY <1>4, <1>5, <2>1, <2>2
    <2>4. escaped \subseteq escaped' /\ escaped' \subseteq Key /\ db' \subseteq Key
      BY <1>2, <1>3, <2>1
    <2>5. CASE o.op = "read"
      <3>1. \E hit \in BOOLEAN : Reply(o.by, hit)
        BY <2>1, <2>5
      <3> QED BY <1>1, <2>3, <2>4, <2>5, <3>1, DatabaseStep DEF o, t
    <2>6. CASE o.op # "read"
      BY <1>1, <2>1, <2>3, <2>4, <2>6, DatabaseStep DEF o, t
    <2> QED BY <2>5, <2>6
  <1> QED BY <1>6, <1>7, <1>8, <1>9 DEF Database

(* After a restart nothing but the database is left, and all of it has     *)
(* escaped.                                                                *)
LEMMA RestartKeeps ==
  ASSUME CacheInv, Restart
  PROVE  CacheInv'
  <1>1. db_queue' \in Seq(DbOp) /\ Len(db_queue') = 0
    BY DEF Restart
  <1>2. /\ ever_final \in 0..MaxBlock /\ db \subseteq Key /\ escaped \subseteq Key
        /\ restarts \in 0..MaxRestarts
    BY DEF CacheInv, TypeOK
  <1>3. TypeOK'
    BY <1>1, <1>2, Bounds, TypeOKMeans DEF Restart, TypeOK, DbOp
  <1>4. FinalKnown' /\ BatchHeld' /\ RequestKeys' /\ ReadsWait' /\ PushedCovered'
    BY <1>1, <1>2, Bounds DEF Restart, FinalKnown, BatchHeld, RequestKeys, ReadsWait, PushedCovered
  <1>5. StoredCovered'
    <2>1. \A k \in Key : Settles(db_queue', db', k) => k \in db
      BY <1>1 DEF Settles, LastIsWrite, Restart
    <2> QED BY <2>1 DEF StoredCovered, Covered, Restart
  <1> QED BY <1>3, <1>4, <1>5 DEF CacheInv

(* Every step keeps the invariant.                                         *)
LEMMA NextCacheInv == CacheInv /\ [Next]_vars => CacheInv'
<1> SUFFICES ASSUME CacheInv, [Next]_vars PROVE CacheInv'
  OBVIOUS
<1>1. CASE (\E b \in Blocks : NewHead(b)) \/ (\E f \in 0..MaxFinal : SafeBlock(f))
  BY <1>1, WatchKeeps
<1>2. CASE Manager
  BY <1>2, ManagerMoves, HandleReorgKeeps, SendBatchKeeps, CheckFinalizedKeeps DEF Manager
<1>3. ASSUME NEW r \in Req, Request(r) PROVE CacheInv'
  BY <1>3, RequestArrivesKeeps, RequestMoves, StoreResponseKeeps DEF Request
<1>4. CASE Database
  BY <1>4, DatabaseKeeps
<1>5. CASE Restart
  BY <1>5, RestartKeeps
<1>6. CASE UNCHANGED vars
  BY <1>6 DEF vars, watchVars, mgrVars, dbVars, reqVars, CacheInv, TypeOK, FinalKnown, BatchHeld,
              RequestKeys, ReadsWait, PushedCovered, StoredCovered, Covered
<1> QED BY <1>1, <1>2, <1>3, <1>4, <1>5, <1>6 DEF Next

(* The invariant holds throughout.                                         *)
THEOREM CacheInvariant == Spec => []CacheInv
  BY InitCacheInv, NextCacheInv, PTL DEF Spec

(* Every variable has its type: block numbers stay within the chain, and   *)
(* head_cache, the queue and the database hold only requests' keys.        *)
THEOREM CacheTypeCorrect == Spec => []TypeOK
  <1>1. CacheInv => TypeOK
    BY DEF CacheInv
  <1> QED BY <1>1, CacheInvariant, PTL

(* cache_query and handle_reorg: a response about a block that was never   *)
(* final, stored or about to be, has its key in head_cache under its block *)
(* unless it escaped.                                                      *)
THEOREM TrackedHolds == Spec => []Tracked
  <1>1. CacheInv => Tracked
    BY CacheInvTracks
  <1> QED BY <1>1, CacheInvariant, PTL

(* handle_reorg: the batch of deletions has every stored response of the   *)
(* blocks gone back over, but the final ones and those that escaped.       *)
THEOREM SweepCompleteHolds == Spec => SweepComplete
  <1> DEFINE Sweep == (mgr_pc = "borrow" /\ mgr_pc' = "send") =>
                        \A k \in Key :
                          /\ BlockOf[k] \in new_block'..block_number
                          /\ BlockOf[k] > ever_final
                          /\ WillBeStored(k)
                          => k \in batch' \cup escaped'
  <1>1. CacheInv /\ [Next]_vars => [Sweep]_vars
    <2> SUFFICES ASSUME CacheInv, Next, mgr_pc = "borrow", mgr_pc' = "send", NEW k \in Key,
                        BlockOf[k] \in new_block'..block_number, BlockOf[k] > ever_final,
                        WillBeStored(k)
                 PROVE  k \in batch' \cup escaped'
      OBVIOUS
    <2>1. HandleReorg
      BY DEF Next, NewHead, SafeBlock, Manager, StreamNext, NoReorg, SendBatch, CheckFinalized,
             Request, RequestArrives, Answered, AnsweredUncacheable, PushKey, StoreResponse,
             SkipStore, Database, DbRead, DbWrite, DbBatch, DbError, Restart, mgrVars
    <2>2. k \in head_cache[BlockOf[k]] \/ k \in escaped
      BY CacheInvTracks DEF Tracked
    <2>3. BlockOf[k] \in ReorgRange(blocknum, block_number) \cap Blocks
      BY <2>1, Bounds DEF HandleReorg, ReorgRange
    <2> QED BY <2>1, <2>2, <2>3 DEF HandleReorg, KeysOf
  <1> QED BY <1>1, CacheInvariant, PTL DEF Spec, SweepComplete
=============================================================================
