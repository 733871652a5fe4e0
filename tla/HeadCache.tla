------------------------------ MODULE HeadCache ------------------------------
(***************************************************************************)
(* The response cache near the tip of the chain.                           *)
(*                                                                         *)
(* Responses are stored in a database behind a FIFO of requests, and live  *)
(* there for good.  A response about a block that is not final yet may be  *)
(* reorged away, so its key is also put in the in-memory head_cache, under *)
(* the number of its block.  When newHeads goes back to a block it had     *)
(* passed, manage_cache deletes the keys of the blocks in between.         *)
(*                                                                         *)
(* Tasks: any number of requests (accept_http.rs, client.rs, through       *)
(* cache_query in processing.rs), manage_cache (head_cache.rs), the        *)
(* newHeads subscriber and the finality poll (safe_block.rs), which feed   *)
(* two watch channels, and the database task (database/accept.rs).         *)
(* A key stands for a request with an explicit block number, or with a tag *)
(* that was rewritten to one: those are the only ones that are cached.     *)
(***************************************************************************)
EXTENDS Naturals, Sequences, FiniteSetsExt

CONSTANTS
  Key,          \* hashes of cacheable requests
  BlockOf,      \* the block number each of them names
  Req,          \* concurrent clients
  MaxBlock,     \* bound on the chain's height
  MaxFinal,     \* bound on the blocks reported final
  MaxQueue,     \* bound on the database's unbounded request channel
  MaxRestarts   \* bound on the number of restarts

Blocks == 1..MaxBlock

ASSUME CacheAssumption ==
  /\ MaxBlock \in Nat /\ MaxFinal \in 0..MaxBlock /\ MaxQueue \in Nat /\ MaxRestarts \in Nat
  /\ BlockOf \in [Key -> Blocks]

VARIABLES
  blocknum,       \* value of the newHeads watch channel
  unseen,         \* manage_cache's stream has not yielded that value yet
  finalized,      \* value of the finality watch channel
  mgr_pc,         \* where manage_cache is
  block_number,   \* its local: the head it processed last
  new_block,      \* its local: the head it is processing
  last_finalized, \* its local
  batch,          \* keys handle_reorg collected and has not sent yet
  head_cache,     \* block number -> keys
  db,             \* keys with a response in the database
  db_queue,       \* requests to the database task, in order
  req,            \* what each client's request is doing
  key,            \* the key it is about
  restarts,
  ever_final,     \* history: the highest block ever reported final
  escaped         \* history: keys that slipped past head_cache (see Tracked)

watchVars == <<blocknum, unseen, finalized, ever_final>>
mgrVars   == <<mgr_pc, block_number, new_block, last_finalized, batch>>
dbVars    == <<db, db_queue>>
reqVars   == <<req, key>>
vars      == <<watchVars, mgrVars, head_cache, dbVars, reqVars, restarts, escaped>>

NoKey == "no_key"

ReadOp(r)    == [op |-> "read", by |-> r]
WriteOp(k)   == [op |-> "write", key |-> k]
BatchOp(S)   == [op |-> "batch", keys |-> S]
QueueRoom    == Len(db_queue) < MaxQueue
KeysOf(S)    == UNION {head_cache[b] : b \in S}
Forget(S)    == [b \in Blocks |-> IF b \in S THEN {} ELSE head_cache[b]]

-----------------------------------------------------------------------------
(* The watch channels.                                                     *)

(* A newHeads notification sets the watch channel.  Nothing orders them: a *)
(* reorg, or a subscription moved to a node that lags, goes back.          *)
NewHead(b) ==
  /\ blocknum' = b
  /\ unseen' = TRUE
  /\ UNCHANGED <<finalized, ever_final, mgrVars, head_cache, dbVars, reqVars, restarts, escaped>>

(* get_safe_block: the highest final block any RPC reported, 0 when none   *)
(* answered; send_if_modified.                                             *)
SafeBlock(f) ==
  /\ f # finalized
  /\ finalized' = f
  /\ ever_final' = IF f > ever_final THEN f ELSE ever_final
  /\ UNCHANGED <<blocknum, unseen, mgrVars, head_cache, dbVars, reqVars, restarts, escaped>>

-----------------------------------------------------------------------------
(* manage_cache.                                                           *)

(* The stream yields: the current value counts as seen from here on.       *)
StreamNext ==
  /\ mgr_pc = "next"
  /\ unseen
  /\ unseen' = FALSE
  /\ mgr_pc' = "borrow"
  /\ UNCHANGED <<blocknum, finalized, ever_final, block_number, new_block, last_finalized, batch,
                 head_cache, dbVars, reqVars, restarts, escaped>>

(* The blocks handle_reorg sweeps; the mutant leaves the replaced head.    *)
ReorgRangeAbove(new, old) == (new + 1)..old
ReorgRange(new, old)      == new..old

(* Requests that have put their key in head_cache and not stored the       *)
(* response yet, when the keys of these blocks are taken out.              *)
Storing(S) == {key[r] : r \in {q \in Req : req[q] = "pushed" /\ BlockOf[key[q]] \in S}}

(* A head at or below the last one: handle_reorg takes the keys of the     *)
(* range out of head_cache under its lock.  The head is borrowed again, so *)
(* it may be newer than the one the stream yielded.                        *)
HandleReorg ==
  /\ mgr_pc = "borrow"
  /\ blocknum <= block_number
  /\ LET range == ReorgRange(blocknum, block_number) \cap Blocks
     IN  /\ batch' = KeysOf(range)
         /\ head_cache' = Forget(range)
         /\ escaped' = escaped \cup Storing(range)
  /\ new_block' = blocknum
  /\ mgr_pc' = "send"
  /\ UNCHANGED <<watchVars, block_number, last_finalized, dbVars, reqVars, restarts>>

NoReorg ==
  /\ mgr_pc = "borrow"
  /\ blocknum > block_number
  /\ new_block' = blocknum
  /\ mgr_pc' = "finalized"
  /\ UNCHANGED <<watchVars, block_number, last_finalized, batch,
                 head_cache, dbVars, reqVars, restarts, escaped>>

(* db_batch: the deletions are queued, nobody waits for the outcome.       *)
SendBatch ==
  /\ mgr_pc = "send"
  /\ QueueRoom
  /\ db_queue' = Append(db_queue, BatchOp(batch))
  /\ batch' = {}
  /\ mgr_pc' = "finalized"
  /\ UNCHANGED <<watchVars, block_number, new_block, last_finalized,
                 head_cache, db, reqVars, restarts, escaped>>

(* The blocks remove_stale forgets; the mutant forgets one that is not     *)
(* final.                                                                  *)
StaleBlocksAndNext(f) == 0..(f + 1)
StaleBlocks(f)        == 0..f

(* What manage_cache remembers as the last head; the mutant, the next one. *)
LastHeadPlusOne(b) == b + 1
LastHead(b)        == b

(* The rest of the loop: remove_stale if finality changed.  The code reads *)
(* the watch channel twice; a change in between only matters if it takes   *)
(* back an earlier one, and then the same blocks are forgotten once more.  *)
CheckFinalized ==
  /\ mgr_pc = "finalized"
  /\ last_finalized' = finalized
  /\ head_cache' = IF last_finalized # finalized
                   THEN Forget(StaleBlocks(finalized)) ELSE head_cache
  /\ block_number' = LastHead(new_block)
  /\ new_block' = 0
  /\ mgr_pc' = "next"
  /\ UNCHANGED <<watchVars, batch, dbVars, reqVars, restarts, escaped>>

-----------------------------------------------------------------------------
(* A request, from the client's question to cache_query's last statement.  *)

RequestArrives(r, k) ==
  /\ req[r] = "idle"
  /\ QueueRoom
  /\ db_queue' = Append(db_queue, ReadOp(r))
  /\ req' = [req EXCEPT ![r] = "reading"]
  /\ key' = [key EXCEPT ![r] = k]
  /\ UNCHANGED <<watchVars, mgrVars, head_cache, db, restarts, escaped>>

(* The RPC answered; can_cache accepts the response and cache_query looks  *)
(* at finality before it takes head_cache's lock.                          *)
Answered(r) ==
  /\ req[r] = "fetching"
  /\ req' = [req EXCEPT ![r] = IF BlockOf[key[r]] > finalized THEN "push" ELSE "write"]
  /\ UNCHANGED <<watchVars, mgrVars, head_cache, dbVars, key, restarts, escaped>>

(* No answer, or one that can_cache refuses: it goes to the client only.   *)
AnsweredUncacheable(r) ==
  /\ req[r] = "fetching"
  /\ req' = [req EXCEPT ![r] = "idle"]
  /\ key' = [key EXCEPT ![r] = NoKey]
  /\ UNCHANGED <<watchVars, mgrVars, head_cache, dbVars, restarts, escaped>>

PushKey(r) ==
  /\ req[r] = "push"
  /\ head_cache' = [head_cache EXCEPT ![BlockOf[key[r]]] = @ \cup {key[r]}]
  /\ req' = [req EXCEPT ![r] = "pushed"]
  /\ UNCHANGED <<watchVars, mgrVars, dbVars, key, restarts, escaped>>

(* db_insert queues the response.                                          *)
StoreResponse(r) ==
  /\ req[r] \in {"pushed", "write"}
  /\ QueueRoom
  /\ db_queue' = Append(db_queue, WriteOp(key[r]))
  /\ req' = [req EXCEPT ![r] = "idle"]
  /\ key' = [key EXCEPT ![r] = NoKey]
  /\ UNCHANGED <<watchVars, mgrVars, head_cache, db, restarts, escaped>>

(* The response does not parse or has no id: cache_query returns early.    *)
SkipStore(r) ==
  /\ req[r] \in {"pushed", "write"}
  /\ req' = [req EXCEPT ![r] = "idle"]
  /\ key' = [key EXCEPT ![r] = NoKey]
  /\ UNCHANGED <<watchVars, mgrVars, head_cache, dbVars, restarts, escaped>>

-----------------------------------------------------------------------------
(* The database task takes its requests in order.                          *)

Reply(r, hit) ==
  /\ req' = [req EXCEPT ![r] = IF hit THEN "idle" ELSE "fetching"]
  /\ key' = [key EXCEPT ![r] = IF hit THEN NoKey ELSE key[r]]

DbRead ==
  /\ db_queue # <<>> /\ Head(db_queue).op = "read"
  /\ LET r == Head(db_queue).by IN Reply(r, key[r] \in db)
  /\ db_queue' = Tail(db_queue)
  /\ UNCHANGED <<watchVars, mgrVars, head_cache, db, restarts, escaped>>

DbWrite ==
  /\ db_queue # <<>> /\ Head(db_queue).op = "write"
  /\ db' = db \cup {Head(db_queue).key}
  /\ db_queue' = Tail(db_queue)
  /\ UNCHANGED <<watchVars, mgrVars, head_cache, reqVars, restarts, escaped>>

DbBatch ==
  /\ db_queue # <<>> /\ Head(db_queue).op = "batch"
  /\ db' = db \ Head(db_queue).keys
  /\ db_queue' = Tail(db_queue)
  /\ UNCHANGED <<watchVars, mgrVars, head_cache, reqVars, restarts, escaped>>

(* An operation fails: it is logged and answered with None.  A read then   *)
(* looks like a miss; deletions are lost, and with them the keys.          *)
DbError ==
  /\ db_queue # <<>>
  /\ IF Head(db_queue).op = "read" THEN Reply(Head(db_queue).by, FALSE) ELSE UNCHANGED reqVars
  /\ escaped' = IF Head(db_queue).op = "batch" THEN escaped \cup Head(db_queue).keys ELSE escaped
  /\ db_queue' = Tail(db_queue)
  /\ UNCHANGED <<watchVars, mgrVars, head_cache, db, restarts>>

-----------------------------------------------------------------------------
(* Blutgang stops and starts again: only the database survives.            *)
Restart ==
  /\ restarts < MaxRestarts
  /\ restarts' = restarts + 1
  /\ blocknum' = 0 /\ unseen' = TRUE /\ finalized' = 0
  /\ mgr_pc' = "next" /\ block_number' = 0 /\ new_block' = 0 /\ last_finalized' = 0
  /\ batch' = {}
  /\ head_cache' = [b \in Blocks |-> {}]
  /\ db_queue' = <<>>
  /\ req' = [r \in Req |-> "idle"]
  /\ key' = [r \in Req |-> NoKey]
  /\ escaped' = escaped \cup db
  /\ UNCHANGED <<ever_final, db>>

Init ==
  /\ blocknum = 0 /\ unseen = TRUE /\ finalized = 0 /\ ever_final = 0
  /\ mgr_pc = "next" /\ block_number = 0 /\ new_block = 0 /\ last_finalized = 0
  /\ batch = {}
  /\ head_cache = [b \in Blocks |-> {}]
  /\ db = {} /\ db_queue = <<>>
  /\ req = [r \in Req |-> "idle"]
  /\ key = [r \in Req |-> NoKey]
  /\ restarts = 0
  /\ escaped = {}

Manager  == StreamNext \/ HandleReorg \/ NoReorg \/ SendBatch \/ CheckFinalized
Database == DbRead \/ DbWrite \/ DbBatch \/ DbError
Request(r) ==
  \/ \E k \in Key : RequestArrives(r, k)
  \/ Answered(r) \/ AnsweredUncacheable(r)
  \/ PushKey(r) \/ StoreResponse(r) \/ SkipStore(r)

Next ==
  \/ \E b \in Blocks : NewHead(b)
  \/ \E f \in 0..MaxFinal : SafeBlock(f)
  \/ Manager
  \/ \E r \in Req : Request(r)
  \/ Database
  \/ Restart

Spec == Init /\ [][Next]_vars

-----------------------------------------------------------------------------
(* The types of the variables: the heads manage_cache remembers are heads  *)
(* it was sent, and head_cache holds only keys.                            *)
TypeOK ==
  /\ blocknum \in 0..MaxBlock /\ unseen \in BOOLEAN
  /\ finalized \in 0..MaxBlock /\ ever_final \in 0..MaxBlock
  /\ mgr_pc \in {"next", "borrow", "send", "finalized"}
  /\ block_number \in 0..MaxBlock /\ new_block \in 0..MaxBlock
  /\ last_finalized \in 0..MaxBlock
  /\ batch \subseteq Key
  /\ head_cache \in [Blocks -> SUBSET Key]
  /\ db \subseteq Key
  /\ db_queue \in Seq([op : {"read"}, by : Req] \cup [op : {"write"}, key : Key]
                      \cup [op : {"batch"}, keys : SUBSET Key])
  /\ Len(db_queue) <= MaxQueue
  /\ req \in [Req -> {"idle", "reading", "fetching", "push", "pushed", "write"}]
  /\ key \in [Req -> Key \cup {NoKey}]
  /\ restarts \in 0..MaxRestarts
  /\ escaped \subseteq Key

(* Whether key k has a response once everything already asked of the       *)
(* database, and the deletions handle_reorg still holds, are done.         *)
Touches(op, k) ==
  \/ op.op = "write" /\ op.key = k
  \/ op.op = "batch" /\ k \in op.keys
WillBeStored(k) ==
  LET touching == {i \in 1..Len(db_queue) : Touches(db_queue[i], k)}
  IN  CASE k \in batch                   -> FALSE
        [] k \notin batch /\ touching = {} -> k \in db
        [] OTHER                         -> db_queue[Max(touching)].op = "write"

(* A response about a block that was never final can be found again when   *)
(* the block is reorged: its key is in head_cache under its block.  The    *)
(* exceptions are the keys in escaped, and only they: a sweep passed       *)
(* between cache_query's push and its write, the database failed a         *)
(* deletion, or Blutgang was restarted.                                    *)
Tracked ==
  \A k \in Key :
    WillBeStored(k) /\ BlockOf[k] > ever_final =>
      k \in head_cache[BlockOf[k]] \/ k \in escaped

(* When manage_cache sees the head go back from block_number to a lower or *)
(* equal block, every stored response about the blocks in between goes     *)
(* into the batch of deletions: those queued for writing included, those   *)
(* of final blocks and the escaped ones excepted.                          *)
SweepComplete ==
  [][(mgr_pc = "borrow" /\ mgr_pc' = "send") =>
       \A k \in Key :
         /\ BlockOf[k] \in new_block'..block_number
         /\ BlockOf[k] > ever_final
         /\ WillBeStored(k)
         => k \in batch' \cup escaped']_vars
=============================================================================
