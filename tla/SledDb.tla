------------------------------- MODULE SledDb -------------------------------
(***************************************************************************)
(* The database task (database/accept.rs) on either backend of             *)
(* database/types.rs: RocksDB, or SledDb, a sled database that is closed   *)
(* and opened again whenever its writes have pinned more memory than it    *)
(* may use.                                                                *)
(*                                                                         *)
(* The task serves one request at a time and maintains the database after  *)
(* each.  Every call of the backend may fail while the storage does not    *)
(* work (`fs').  A crash may come between any two steps, and takes with it *)
(* what the backend has not written to disk; it writes on its own as well  *)
(* as when it is told to.                                                  *)
(***************************************************************************)
EXTENDS Integers, FiniteSets, Sequences

CONSTANTS
  Keys, Values, Readers, NoKey, NoValue,  \* as in Store
  VersionKey, Version,   \* what setup_data writes on every start
  KeyLen, ValLen,        \* length of a key and of a response
  Fanout,                \* entries per leaf, system.rs
  CacheCapacity,         \* cache_capacity_bytes
  UsizeMax,              \* the largest usize
  Readonly,              \* admin.readonly
  MaxQueue               \* bound on the requests that wait

ASSUME SledAssumption ==
  /\ IsFiniteSet(Keys)
  /\ VersionKey \in Keys /\ Version \in Values
  /\ NoValue \notin Values /\ NoKey \notin Keys
  /\ Readonly \in BOOLEAN
  /\ {KeyLen, ValLen, Fanout, CacheCapacity, UsizeMax, MaxQueue} \subseteq Nat

VARIABLES
  backend,  \* CacheSettings: "sled" or "rocksdb"
  db,       \* SledDb.db: "open" or "closed", and "down" before the start
  tree,     \* what the open database holds
  disk,     \* what opening it anew would find
  pinned,   \* SledDb.pinned
  cooling,  \* now < SledDb.next_reopen
  pc,       \* the task: "recv" or "maintain"
  queue,    \* its channel
  waiting,  \* the key each reader awaits in db_get
  answer,   \* what each reader got last
  fs,       \* the storage works
  since,    \* history: every content there was since the last flush
  missed    \* history: requests the closed database refused since the
            \* storage works, counted up to 2

sledVars == <<backend, db, tree, disk, pinned, cooling>>
taskVars == <<pc, queue, waiting, answer>>
vars     == <<sledVars, taskVars, fs, since, missed>>

(* What a read would find, were the database open.                         *)
View == IF db = "open" THEN tree ELSE disk

Abstract == INSTANCE Store WITH up <- db # "down", content <- View

-----------------------------------------------------------------------------
(* The tasks that use the database.                                        *)

Room == db # "down" /\ Len(queue) < MaxQueue

(* db_get! sends and awaits.                                               *)
DbGet(r, k) ==
  /\ Room /\ waiting[r] = NoKey
  /\ waiting' = [waiting EXCEPT ![r] = k]
  /\ queue' = Append(queue, Abstract!ReadOp(r, k))
  /\ UNCHANGED <<sledVars, pc, answer, fs, since, missed>>

(* db_insert, db_batch and db_flush! send, and nobody awaits the result.   *)
Send(op) ==
  /\ Room
  /\ queue' = Append(queue, op)
  /\ UNCHANGED <<sledVars, pc, waiting, answer, fs, since, missed>>

DbInsert(k, v) == Send(Abstract!ChangeOp([x \in {k} |-> v]))
DbDelete(S)    == Send(Abstract!ChangeOp([k \in S |-> NoValue]))
DbFlush        == Send(Abstract!FlushOp)

(* blutgang_flush_cache answers as soon as the flush is sent.              *)
AdminFlushCache == ~Readonly /\ DbFlush

-----------------------------------------------------------------------------
(* database_processing takes a request; the mutant maintains the database  *)
(* after changes only.                                                     *)
Recv(kind) ==
  /\ db # "down" /\ pc = "recv" /\ queue # <<>>
  /\ Head(queue).kind = kind
  /\ queue' = Tail(queue)
TakeLazily(kind) ==
  Recv(kind) /\ pc' = IF kind = "change" THEN "maintain" ELSE "recv"
Take(kind) == Recv(kind) /\ pc' = "maintain"

Give(r, v) ==
  /\ waiting' = [waiting EXCEPT ![r] = NoKey]
  /\ answer' = [answer EXCEPT ![r] = v]

(* The estimate of what a change pins: whole leaves, saturating.  The      *)
(* mutant does not saturate.                                               *)
Written(puts) ==
  KeyLen * Cardinality(DOMAIN puts)
    + ValLen * Cardinality({k \in DOMAIN puts : puts[k] # NoValue})
PinMore(p, puts) == p + Written(puts) * Fanout
Pin(p, puts) ==
  IF p + Written(puts) * Fanout > UsizeMax THEN UsizeMax ELSE p + Written(puts) * Fanout

(* RocksDB's write and batch pin nothing.                                  *)
Pinning(p, puts) == IF backend = "sled" THEN Pin(p, puts) ELSE p

Read ==
  /\ db = "open" /\ Take("read")
  /\ Give(Head(queue).by, tree[Head(queue).key])
  /\ UNCHANGED <<sledVars, fs, since, missed>>

(* A write or a batch.                                                     *)
Change ==
  /\ db = "open" /\ Take("change")
  /\ tree' = Abstract!Changed(tree, Head(queue).puts)
  /\ pinned' = Pinning(pinned, Head(queue).puts)
  /\ since' = since \cup {tree'}
  /\ UNCHANGED <<backend, db, disk, cooling, waiting, answer, fs, missed>>

(* The mutant answers before sled has written.                             *)
FlushLater ==
  /\ db = "open" /\ Take("flush")
  /\ since' = {tree}
  /\ UNCHANGED <<sledVars, waiting, answer, fs, missed>>
Flush ==
  /\ db = "open" /\ Take("flush")
  /\ disk' = tree
  /\ since' = {tree}
  /\ UNCHANGED <<backend, db, tree, pinned, cooling, waiting, answer, fs, missed>>

(* An error is logged and answered with None.  The closed database refuses *)
(* everything.                                                             *)
Refused == missed' = IF db = "closed" /\ fs /\ missed < 2 THEN missed + 1 ELSE missed
MayFail == db = "closed" \/ ~fs

ReadFails ==
  /\ MayFail /\ Take("read")
  /\ Give(Head(queue).by, NoValue)
  /\ Refused
  /\ UNCHANGED <<sledVars, fs, since>>

OtherFails ==
  /\ MayFail /\ (Take("change") \/ Take("flush"))
  /\ Refused
  /\ UNCHANGED <<sledVars, waiting, answer, fs, since>>

-----------------------------------------------------------------------------
(* SledDb::maintain.  RocksDB has the default one, which does nothing.     *)

Maintained == backend = "sled"

Maintaining(next) == db # "down" /\ pc = "maintain" /\ pc' = next

(* The early return; the mutant waits for next_reopen instead.             *)
WaitUntilDue == db = "open" /\ (~Maintained \/ pinned < CacheCapacity)
NotDue       == db = "open" /\ (~Maintained \/ pinned < CacheCapacity \/ cooling)

NothingDue ==
  /\ Maintaining("recv")
  /\ NotDue
  /\ UNCHANGED <<sledVars, queue, waiting, answer, fs, since, missed>>

(* The database is flushed and dropped; the mutant drops it unflushed.     *)
DropUnflushed == db' = "closed" /\ UNCHANGED <<tree, disk>>
FlushAndDrop  == disk' = tree /\ db' = "closed" /\ UNCHANGED tree

Close ==
  /\ Maintaining("maintain")
  /\ db = "open" /\ Maintained /\ pinned >= CacheCapacity /\ ~cooling
  /\ FlushAndDrop
  /\ UNCHANGED <<backend, pinned, cooling, queue, waiting, answer, fs, since, missed>>

FlushFails ==
  /\ Maintaining("recv")
  /\ db = "open" /\ Maintained /\ pinned >= CacheCapacity /\ ~cooling /\ ~fs
  /\ UNCHANGED <<sledVars, queue, waiting, answer, fs, since, missed>>

(* Whether the next one has to wait depends on how long this one took.     *)
Reopen ==
  /\ Maintaining("recv")
  /\ db = "closed"
  /\ db' = "open" /\ tree' = disk
  /\ pinned' = 0
  /\ cooling' \in BOOLEAN
  /\ missed' = 0
  /\ UNCHANGED <<backend, disk, queue, waiting, answer, fs, since>>

OpenFails ==
  /\ Maintaining("recv")
  /\ db = "closed" /\ ~fs
  /\ UNCHANGED <<sledVars, queue, waiting, answer, fs, since, missed>>

-----------------------------------------------------------------------------
(* The environment.                                                        *)

NextReopen ==
  /\ cooling /\ cooling' = FALSE
  /\ UNCHANGED <<backend, db, tree, disk, pinned, taskVars, fs, since, missed>>

(* The backend writes to disk on its own: sled every flush_every_ms.       *)
BackendFlushes ==
  /\ db = "open" /\ disk' = tree
  /\ UNCHANGED <<backend, db, tree, pinned, cooling, taskVars, fs, since, missed>>

StorageBreaks ==
  /\ fs /\ fs' = FALSE /\ missed' = 0
  /\ UNCHANGED <<sledVars, taskVars, since>>

StorageRecovers ==
  /\ ~fs /\ fs' = TRUE
  /\ UNCHANGED <<sledVars, taskVars, since, missed>>

(* The process ends, at whatever it was doing.                             *)
Exit ==
  /\ db # "down" /\ db' = "down"
  /\ tree' = disk
  /\ pinned' = 0 /\ cooling' = FALSE /\ pc' = "recv" /\ queue' = <<>>
  /\ waiting' = [r \in Readers |-> NoKey]
  /\ answer' = [r \in Readers |-> NoValue]
  /\ since' = {disk} /\ missed' = 0
  /\ UNCHANGED <<backend, disk, fs>>

Crash == Exit

(* blutgang_quit sends a flush and exits without waiting for it.  (If the  *)
(* flush is served before it exits, that is AdminFlushCache and a Crash.)  *)
AdminBlutgangQuit == ~Readonly /\ Exit

(* It starts: main opens the backend, then setup_data clears it or not,    *)
(* and ignores it if a write fails.  (A start that cannot open it ends at  *)
(* once.)                                                                  *)
SetupPuts == [k \in {VersionKey} |-> Version]
NoPuts    == [k \in {} |-> Version]
SetupDone == IF fs THEN {SetupPuts} ELSE {SetupPuts, NoPuts}
Start ==
  /\ db = "down" /\ db' = "open"
  /\ \E do_clear \in BOOLEAN, puts \in SetupDone :
       LET found == IF do_clear THEN [k \in Keys |-> NoValue] ELSE disk IN
         /\ tree' = Abstract!Changed(found, puts)
         /\ since' = since \cup {found, tree'}
         /\ pinned' = Pinning(0, puts)
  /\ UNCHANGED <<backend, disk, cooling, taskVars, fs, missed>>

-----------------------------------------------------------------------------
Init ==
  /\ backend \in {"sled", "rocksdb"}
  /\ db = "down"
  /\ tree = [k \in Keys |-> NoValue] /\ disk = tree
  /\ pinned = 0 /\ cooling = FALSE
  /\ pc = "recv" /\ queue = <<>>
  /\ waiting = [r \in Readers |-> NoKey]
  /\ answer = [r \in Readers |-> NoValue]
  /\ fs = TRUE
  /\ since = {tree} /\ missed = 0

Clients ==
  \/ \E r \in Readers, k \in Keys : DbGet(r, k)
  \/ \E k \in Keys, v \in Values : DbInsert(k, v)
  \/ \E S \in SUBSET Keys : DbDelete(S)

Task ==
  \/ Read \/ Change \/ Flush \/ ReadFails \/ OtherFails
  \/ NothingDue \/ Close \/ FlushFails \/ Reopen \/ OpenFails

Environment ==
  \/ NextReopen \/ BackendFlushes \/ StorageBreaks \/ StorageRecovers
  \/ Crash \/ AdminBlutgangQuit \/ Start

Next == Clients \/ AdminFlushCache \/ Task \/ Environment

Spec == Init /\ [][Next]_vars

(* The task is woken for every request, and no call of sled hangs.         *)
FairSpec == Spec /\ WF_vars(Task)

-----------------------------------------------------------------------------
Ops ==
  {Abstract!ReadOp(r, k) : r \in Readers, k \in Keys}
    \cup {Abstract!ChangeOp(puts) : puts \in Abstract!Changes} \cup {Abstract!FlushOp}

TypeOK ==
  /\ backend \in {"sled", "rocksdb"}
  /\ db \in {"open", "closed", "down"}
  /\ tree \in Abstract!Contents /\ disk \in Abstract!Contents
  /\ pinned \in 0..UsizeMax /\ cooling \in BOOLEAN
  /\ pc \in {"recv", "maintain"}
  /\ queue \in Seq(Ops)
  /\ waiting \in [Readers -> Keys \cup {NoKey}]
  /\ answer \in [Readers -> Values \cup {NoValue}]
  /\ fs \in BOOLEAN
  /\ since \subseteq Abstract!Contents /\ missed \in 0..2

(* Opening the database always finds what was there since the last flush   *)
(* that was answered, even in the middle of maintain, and a crash in       *)
(* between can lose no more than that.                                     *)
DiskIsRecent == {disk, View} \subseteq since

(* A database that could not be reopened does not stay closed: once the    *)
(* storage works again one more request is refused, and no other.          *)
TurnedAwayOnce == missed <= 1

(* Closing, reopening and the pinned estimate are invisible to the tasks:  *)
(* what they observe is a store.                                           *)
ImplementsStore == Abstract!Spec

(* Every db_get is answered, through failures and maintenance, or its task *)
(* ends with the process.                                                  *)
ReadsAnswered == \A r \in Readers : waiting[r] # NoKey ~> waiting[r] = NoKey

=============================================================================
