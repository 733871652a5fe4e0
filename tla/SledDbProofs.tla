---------------------------- MODULE SledDbProofs ----------------------------
(***************************************************************************)
(* SledDb, for every set of keys, responses and readers and every          *)
(* capacity: the type invariant, what opening the database finds, how      *)
(* often a closed database refuses, and that the tasks observe a Store.    *)
(***************************************************************************)
EXTENDS SledDb, FiniteSetTheorems, TLAPS

USE SledAssumption

-----------------------------------------------------------------------------
(* Operators.                                                              *)

(* A change of a content is a content.                                     *)
LEMMA ChangedType ==
  ASSUME NEW c \in Abstract!Contents, NEW puts \in Abstract!Changes
  PROVE  Abstract!Changed(c, puts) \in Abstract!Contents
<1>1. PICK S \in SUBSET Keys : puts \in [S -> Values \cup {NoValue}]
  BY DEF Abstract!Changes
<1>2. DOMAIN puts = S /\ \A k \in S : puts[k] \in Values \cup {NoValue}
  BY <1>1
<1> QED BY <1>1, <1>2 DEF Abstract!Changed, Abstract!Contents

(* What a change pins is a natural number.                                 *)
LEMMA WrittenType ==
  ASSUME NEW puts \in Abstract!Changes
  PROVE  Written(puts) \in Nat
<1>1. PICK S \in SUBSET Keys : puts \in [S -> Values \cup {NoValue}]
  BY DEF Abstract!Changes
<1>2. IsFiniteSet(DOMAIN puts)
  BY <1>1, FS_Subset DEF SledAssumption
<1>3. IsFiniteSet({k \in DOMAIN puts : puts[k] # NoValue})
  BY <1>2, FS_Subset
<1>4. /\ Cardinality(DOMAIN puts) \in Nat
      /\ Cardinality({k \in DOMAIN puts : puts[k] # NoValue}) \in Nat
  BY <1>2, <1>3, FS_CardinalityType
<1> QED BY <1>4 DEF Written, SledAssumption

(* The estimate stays within a usize.                                      *)
LEMMA PinType ==
  ASSUME NEW p \in 0..UsizeMax, NEW puts \in Abstract!Changes
  PROVE  Pinning(p, puts) \in 0..UsizeMax
<1> DEFINE w == Written(puts) * Fanout
<1>1. Written(puts) \in Nat
  BY WrittenType
<1>2. w \in Nat
  BY <1>1 DEF SledAssumption
<1>3. Pin(p, puts) = IF p + w > UsizeMax THEN UsizeMax ELSE p + w
  BY DEF Pin
<1> HIDE DEF w
<1>4. Pin(p, puts) \in 0..UsizeMax
  BY <1>2, <1>3 DEF SledAssumption
<1> QED BY <1>4 DEF Pinning

(* A change of one key, as db_insert makes it, is a change.                *)
LEMMA SingleType ==
  ASSUME NEW k \in Keys, NEW v \in Values
  PROVE  [x \in {k} |-> v] \in Abstract!Changes
<1>1. {k} \in SUBSET Keys /\ [x \in {k} |-> v] \in [{k} -> Values \cup {NoValue}]
  OBVIOUS
<1> QED BY <1>1 DEF Abstract!Changes

(* What setup_data writes, or fails to write, is a change.                 *)
LEMMA SetupPutsType == SetupDone \subseteq Abstract!Changes
<1>1. SetupPuts \in Abstract!Changes
  BY SingleType DEF SetupPuts, SledAssumption
<1>2. NoPuts \in [{} -> Values \cup {NoValue}]
  BY DEF NoPuts
<1>3. NoPuts \in Abstract!Changes
  BY <1>2 DEF Abstract!Changes
<1> QED BY <1>1, <1>3 DEF SetupDone

(* An empty database, which clear leaves, is a content.                    *)
LEMMA EmptyType == [k \in Keys |-> NoValue] \in Abstract!Contents
BY DEF Abstract!Contents

(* The parts of a request, by its kind.                                    *)
LEMMA OpParts ==
  ASSUME NEW op \in Ops
  PROVE  /\ op.kind = "read" =>
              /\ op.by \in Readers /\ op.key \in Keys
              /\ op = Abstract!ReadOp(op.by, op.key)
         /\ op.kind = "change" => op.puts \in Abstract!Changes
<1>1. CASE op \in {Abstract!ReadOp(r, k) : r \in Readers, k \in Keys}
  BY <1>1 DEF Abstract!ReadOp
<1>2. CASE op \in {Abstract!ChangeOp(puts) : puts \in Abstract!Changes}
  BY <1>2 DEF Abstract!ChangeOp
<1>3. CASE op = Abstract!FlushOp
  BY <1>3 DEF Abstract!FlushOp
<1> QED BY <1>1, <1>2, <1>3 DEF Ops

(* Taking a request leaves a queue of requests.                            *)
LEMMA TakeType ==
  ASSUME queue \in Seq(Ops), NEW kind, Take(kind)
  PROVE  /\ Head(queue) \in Ops /\ Head(queue).kind = kind
         /\ queue' = Tail(queue) /\ queue' \in Seq(Ops)
         /\ queue # <<>> /\ db # "down" /\ pc = "recv" /\ pc' = "maintain"
BY DEF Take, Recv

-----------------------------------------------------------------------------
(* One lemma per group of actions.                                         *)

(* The variables have their types at first.                                *)
LEMMA InitType == Init => TypeOK
<1> SUFFICES ASSUME Init PROVE TypeOK
  OBVIOUS
<1>1. tree \in Abstract!Contents /\ disk \in Abstract!Contents /\ since \subseteq Abstract!Contents
  BY EmptyType DEF Init
<1>2. pinned \in 0..UsizeMax /\ missed \in 0..2
  BY DEF Init, SledAssumption
<1>3. queue \in Seq(Ops)
  BY DEF Init
<1>4. waiting \in [Readers -> Keys \cup {NoKey}] /\ answer \in [Readers -> Values \cup {NoValue}]
  BY DEF Init
<1> QED BY <1>1, <1>2, <1>3, <1>4 DEF Init, TypeOK

(* Sending requests keeps the types.                                       *)
LEMMA ClientsType == TypeOK /\ (Clients \/ AdminFlushCache) => TypeOK'
<1> SUFFICES ASSUME TypeOK, Clients \/ AdminFlushCache
             PROVE  TypeOK'
  OBVIOUS
<1> USE DEF TypeOK, sledVars
<1>1. ASSUME NEW r \in Readers, NEW k \in Keys, DbGet(r, k) PROVE TypeOK'
  <2>1. Abstract!ReadOp(r, k) \in Ops
    BY DEF Ops
  <2> QED BY <1>1, <2>1 DEF DbGet
<1>2. ASSUME NEW op \in Ops, Send(op) PROVE TypeOK'
  BY <1>2 DEF Send
<1>3. ASSUME NEW k \in Keys, NEW v \in Values, DbInsert(k, v) PROVE TypeOK'
  <2>1. [x \in {k} |-> v] \in Abstract!Changes
    BY SingleType
  <2>2. Abstract!ChangeOp([x \in {k} |-> v]) \in Ops
    BY <2>1 DEF Ops
  <2> QED BY <1>2, <1>3, <2>2 DEF DbInsert
<1>4. ASSUME NEW S \in SUBSET Keys, DbDelete(S) PROVE TypeOK'
  <2>1. [k \in S |-> NoValue] \in Abstract!Changes
    BY DEF Abstract!Changes
  <2>2. Abstract!ChangeOp([k \in S |-> NoValue]) \in Ops
    BY <2>1 DEF Ops
  <2> QED BY <1>2, <1>4, <2>2 DEF DbDelete
<1>5. ASSUME DbFlush PROVE TypeOK'
  <2>1. Abstract!FlushOp \in Ops
    BY DEF Ops
  <2> QED BY <1>2, <1>5, <2>1 DEF DbFlush
<1> QED BY <1>1, <1>3, <1>4, <1>5 DEF Clients, AdminFlushCache

(* A step of database_processing or of maintain keeps the types.           *)
LEMMA TaskType == TypeOK /\ Task => TypeOK'
<1> SUFFICES ASSUME TypeOK, Task PROVE TypeOK'
  OBVIOUS
<1> USE DEF TypeOK, sledVars, taskVars
<1>1. ASSUME Read \/ ReadFails PROVE TypeOK'
  <2>1. Take("read")
    BY <1>1 DEF Read, ReadFails
  <2>2. Head(queue).by \in Readers /\ Head(queue).key \in Keys /\ queue' \in Seq(Ops)
    BY <2>1, TakeType, OpParts
  <2>3. pc' = "maintain"
    BY <2>1, TakeType
  <2>4. tree[Head(queue).key] \in Values \cup {NoValue}
    BY <2>2 DEF Abstract!Contents
  <2>5. CASE Read
    BY <2>2, <2>3, <2>4, <2>5 DEF Read, Give
  <2>6. CASE ReadFails
    BY <2>2, <2>3, <2>6 DEF ReadFails, Give, Refused
  <2> QED BY <1>1, <2>5, <2>6
<1>2. ASSUME Change PROVE TypeOK'
  <2>1. Take("change")
    BY <1>2 DEF Change
  <2>2. Head(queue).puts \in Abstract!Changes /\ queue' \in Seq(Ops) /\ pc' = "maintain"
    BY <2>1, TakeType, OpParts
  <2>3. tree' \in Abstract!Contents
    BY <1>2, <2>2, ChangedType DEF Change
  <2>4. pinned' \in 0..UsizeMax
    BY <1>2, <2>2, PinType DEF Change
  <2> QED BY <1>2, <2>2, <2>3, <2>4 DEF Change
<1>3. ASSUME Flush PROVE TypeOK'
  <2>1. queue' \in Seq(Ops) /\ pc' = "maintain"
    BY <1>3, TakeType DEF Flush
  <2> QED BY <1>3, <2>1 DEF Flush
<1>4. ASSUME OtherFails PROVE TypeOK'
  <2>1. queue' \in Seq(Ops) /\ pc' = "maintain"
    BY <1>4, TakeType DEF OtherFails
  <2> QED BY <1>4, <2>1 DEF OtherFails, Refused
<1>5. ASSUME NothingDue \/ Close \/ FlushFails \/ Reopen \/ OpenFails PROVE TypeOK'
  BY <1>5 DEF NothingDue, Close, FlushFails, Reopen, OpenFails, Maintaining, FlushAndDrop, SledAssumption
<1> QED BY <1>1, <1>2, <1>3, <1>4, <1>5 DEF Task

(* A crash, a start, and what the storage does keep the types.             *)
LEMMA EnvironmentType == TypeOK /\ Environment => TypeOK'
<1> SUFFICES ASSUME TypeOK, Environment PROVE TypeOK'
  OBVIOUS
<1> USE DEF TypeOK, sledVars, taskVars
<1>1. ASSUME NextReopen \/ BackendFlushes \/ StorageBreaks \/ StorageRecovers PROVE TypeOK'
  <2>1. CASE NextReopen
    BY <2>1 DEF NextReopen
  <2>2. CASE BackendFlushes
    BY <2>2 DEF BackendFlushes
  <2>3. CASE StorageBreaks
    <3>1. fs' = FALSE /\ missed' \in 0..2
      BY <2>3 DEF StorageBreaks
    <3> QED BY <2>3, <3>1 DEF StorageBreaks
  <2>4. CASE StorageRecovers
    BY <2>4 DEF StorageRecovers
  <2> QED BY <1>1, <2>1, <2>2, <2>3, <2>4
<1>2. ASSUME Exit PROVE TypeOK'
  <2>1. pinned' \in 0..UsizeMax /\ missed' \in 0..2
    BY <1>2 DEF Exit, SledAssumption
  <2>2. waiting' \in [Readers -> Keys \cup {NoKey}] /\ answer' \in [Readers -> Values \cup {NoValue}]
    BY <1>2 DEF Exit
  <2>3. queue' \in Seq(Ops)
    BY <1>2 DEF Exit
  <2> QED BY <1>2, <2>1, <2>2, <2>3 DEF Exit
<1>3. ASSUME Start PROVE TypeOK'
  <2>1. PICK do_clear \in BOOLEAN, puts \in SetupDone :
          LET found == IF do_clear THEN [k \in Keys |-> NoValue] ELSE disk IN
            /\ tree' = Abstract!Changed(found, puts)
            /\ since' = since \cup {found, tree'}
            /\ pinned' = Pinning(0, puts)
    BY <1>3 DEF Start
  <2> DEFINE found == IF do_clear THEN [k \in Keys |-> NoValue] ELSE disk
  <2>2. found \in Abstract!Contents
    BY EmptyType
  <2>3. tree' \in Abstract!Contents
    BY <2>1, <2>2, ChangedType, SetupPutsType
  <2>4. since' \subseteq Abstract!Contents
    BY <2>1, <2>2, <2>3
  <2>5. pinned' \in 0..UsizeMax
    BY <2>1, PinType, SetupPutsType DEF SledAssumption
  <2> QED BY <1>3, <2>3, <2>4, <2>5 DEF Start
<1> QED BY <1>1, <1>2, <1>3 DEF Environment, Crash, AdminBlutgangQuit

(* The type invariant of the database task: the queue holds requests, and  *)
(* the estimate of the pinned memory never leaves usize.                   *)
THEOREM SledTypeCorrect == Spec => []TypeOK
<1>1. TypeOK /\ [Next]_vars => TypeOK'
  <2>1. TypeOK /\ UNCHANGED vars => TypeOK'
    BY DEF TypeOK, vars, sledVars, taskVars
  <2> QED BY <2>1, ClientsType, TaskType, EnvironmentType DEF Next
<1> QED BY <1>1, InitType, PTL DEF Spec

-----------------------------------------------------------------------------
(* What opening the database finds.                                        *)

(* At first the disk is as the database is.                                *)
LEMMA RecentInit == Init => DiskIsRecent
BY DEF Init, DiskIsRecent, View

(* No step puts on disk what was not a content since the last flush.       *)
LEMMA RecentStep == TypeOK /\ DiskIsRecent /\ [Next]_vars => DiskIsRecent'
<1> SUFFICES ASSUME TypeOK, DiskIsRecent, [Next]_vars PROVE DiskIsRecent'
  OBVIOUS
<1> USE DEF DiskIsRecent, View, sledVars, taskVars
<1>1. CASE Clients \/ AdminFlushCache
  BY <1>1 DEF Clients, AdminFlushCache, DbGet, DbInsert, DbDelete, DbFlush, Send
<1>2. CASE Read \/ ReadFails \/ OtherFails
  BY <1>2 DEF Read, ReadFails, OtherFails
<1>3. CASE Change
  BY <1>3 DEF Change
<1>4. CASE Flush
  BY <1>4 DEF Flush
<1>5. CASE NothingDue \/ FlushFails \/ OpenFails
  BY <1>5 DEF NothingDue, FlushFails, OpenFails
<1>6. CASE Close
  BY <1>6 DEF Close, FlushAndDrop
<1>7. CASE Reopen
  BY <1>7 DEF Reopen
<1>8. CASE NextReopen \/ BackendFlushes \/ StorageBreaks \/ StorageRecovers
  BY <1>8 DEF NextReopen, BackendFlushes, StorageBreaks, StorageRecovers
<1>9. CASE Exit
  BY <1>9 DEF Exit
<1>10. CASE Start
  <2>1. since \subseteq since' /\ tree' \in since' /\ disk' = disk /\ db' = "open"
    BY <1>10 DEF Start
  <2> QED BY <2>1
<1>11. CASE UNCHANGED vars
  BY <1>11 DEF vars
<1> QED BY <1>1, <1>2, <1>3, <1>4, <1>5, <1>6, <1>7, <1>8, <1>9, <1>10, <1>11
        DEF Next, Task, Environment, Crash, AdminBlutgangQuit

(* At every moment, in the middle of maintain too, opening the database    *)
(* finds a content there was since the last flush that succeeded.          *)
THEOREM RecentHolds == Spec => []DiskIsRecent
BY RecentInit, RecentStep, SledTypeCorrect, PTL DEF Spec

-----------------------------------------------------------------------------
(* How often the closed database refuses.                                  *)

(* While the storage works, a request that was refused is followed by      *)
(* maintain, and while it does not, nothing is counted.                    *)
MissedOnce ==
  /\ missed \in {0, 1}
  /\ missed = 1 => pc = "maintain" /\ db = "closed" /\ fs

(* A refusal is followed by maintain, which opens the database again       *)
(* before another request is taken.                                        *)
LEMMA MissedStep == TypeOK /\ MissedOnce /\ [Next]_vars => MissedOnce'
<1> SUFFICES ASSUME TypeOK, MissedOnce, [Next]_vars PROVE MissedOnce'
  OBVIOUS
<1> USE DEF MissedOnce, sledVars, taskVars
<1>1. CASE Clients \/ AdminFlushCache
  BY <1>1 DEF Clients, AdminFlushCache, DbGet, DbInsert, DbDelete, DbFlush, Send
<1>2. CASE Read \/ Change \/ Flush
  BY <1>2 DEF Read, Change, Flush, Take, Recv
<1>3. CASE ReadFails \/ OtherFails
  <2>1. pc = "recv" /\ pc' = "maintain" /\ UNCHANGED <<db, fs>> /\ Refused
    BY <1>3 DEF ReadFails, OtherFails, Take, Recv
  <2>2. missed = 0
    BY <2>1
  <2> QED BY <2>1, <2>2 DEF Refused
<1>4. CASE NothingDue \/ Close \/ FlushFails \/ OpenFails
  BY <1>4 DEF NothingDue, NotDue, Close, FlushAndDrop, FlushFails, OpenFails, Maintaining
<1>5. CASE Reopen \/ StorageBreaks \/ Exit
  BY <1>5 DEF Reopen, StorageBreaks, Exit
<1>6. CASE NextReopen \/ BackendFlushes \/ StorageRecovers
  BY <1>6 DEF NextReopen, BackendFlushes, StorageRecovers
<1>7. CASE Start
  BY <1>7 DEF Start
<1>8. CASE UNCHANGED vars
  BY <1>8 DEF vars
<1> QED BY <1>1, <1>2, <1>3, <1>4, <1>5, <1>6, <1>7, <1>8 DEF Next, Task, Environment, Crash, AdminBlutgangQuit

(* However long reopening fails, once the storage works again one more     *)
(* request is refused and no other.                                        *)
THEOREM TurnedAwayOnceHolds == Spec => []TurnedAwayOnce
<1>1. Init => MissedOnce
  BY DEF Init, MissedOnce
<1>2. MissedOnce => TurnedAwayOnce
  BY DEF MissedOnce, TurnedAwayOnce
<1> QED BY <1>1, <1>2, MissedStep, SledTypeCorrect, PTL DEF Spec

-----------------------------------------------------------------------------
(* SledDb implements Store.                                                *)

(* A request that is sent to SledDb is one that is sent to the store.      *)
LEMMA ClientsImplement ==
  TypeOK /\ (Clients \/ AdminFlushCache) => Abstract!Next
<1> SUFFICES ASSUME TypeOK, Clients \/ AdminFlushCache
             PROVE  Abstract!Next
  OBVIOUS
<1> USE DEF View, sledVars, Room
<1>1. ASSUME NEW r \in Readers, NEW k \in Keys, DbGet(r, k) PROVE Abstract!Ask(r, k)
  BY <1>1 DEF DbGet, Abstract!Ask
<1>2. ASSUME NEW op, Send(op) PROVE Abstract!Send(op)
  BY <1>2 DEF Send, Abstract!Send
<1>3. ASSUME NEW k \in Keys, NEW v \in Values, DbInsert(k, v)
      PROVE  \E puts \in Abstract!Changes : Abstract!Send(Abstract!ChangeOp(puts))
  BY <1>2, <1>3, SingleType DEF DbInsert
<1>4. ASSUME NEW S \in SUBSET Keys, DbDelete(S)
      PROVE  \E puts \in Abstract!Changes : Abstract!Send(Abstract!ChangeOp(puts))
  <2>1. [k \in S |-> NoValue] \in Abstract!Changes
    BY DEF Abstract!Changes
  <2> QED BY <1>2, <1>4, <2>1 DEF DbDelete
<1>5. ASSUME DbFlush PROVE Abstract!Send(Abstract!FlushOp)
  BY <1>2, <1>5 DEF DbFlush
<1> QED BY <1>1, <1>3, <1>4, <1>5
        DEF Clients, AdminFlushCache, Abstract!Next

(* Taking a request from the channel is taking it from the store's queue.  *)
LEMMA TakeImplements ==
  ASSUME TypeOK, NEW kind, Take(kind)
  PROVE  Abstract!Taken(kind)
BY DEF Take, Recv, Abstract!Taken

(* Serving a request is a step of the store; maintenance is none.          *)
LEMMA TaskImplements == TypeOK /\ Task => [Abstract!Next]_Abstract!vars
<1> SUFFICES ASSUME TypeOK, Task PROVE [Abstract!Next]_Abstract!vars
  OBVIOUS
<1> USE DEF View, sledVars, taskVars
<1>1. CASE Read
  <2>1. Abstract!Taken("read") /\ db = "open" /\ db' = "open"
    BY <1>1, TakeImplements DEF Read
  <2>2. Abstract!AnswerRead
    BY <1>1, <2>1 DEF Read, Give, Abstract!AnswerRead
  <2> QED BY <2>2 DEF Abstract!Next
<1>2. CASE ReadFails
  <2>1. Abstract!Taken("read")
    BY <1>2, TakeImplements DEF ReadFails
  <2>2. Abstract!AnswerRead
    BY <1>2, <2>1 DEF ReadFails, Give, Abstract!AnswerRead
  <2> QED BY <2>2 DEF Abstract!Next
<1>3. CASE Change
  <2>1. Abstract!Taken("change") /\ db = "open" /\ db' = "open"
    BY <1>3, TakeImplements DEF Change
  <2>2. Abstract!MakeChange
    BY <1>3, <2>1 DEF Change, Abstract!MakeChange
  <2> QED BY <2>2 DEF Abstract!Next
<1>4. CASE Flush
  <2>1. Abstract!Taken("flush") /\ db = "open" /\ db' = "open"
    BY <1>4, TakeImplements DEF Flush
  <2>2. Abstract!Flush
    BY <1>4, <2>1 DEF Flush, Abstract!Flush
  <2> QED BY <2>2 DEF Abstract!Next
<1>5. CASE OtherFails
  <2>1. Abstract!Taken("change") \/ Abstract!Taken("flush")
    BY <1>5, TakeImplements DEF OtherFails
  <2>2. Abstract!Refuse
    BY <1>5, <2>1 DEF OtherFails, Abstract!Refuse
  <2> QED BY <2>2 DEF Abstract!Next
<1>6. CASE NothingDue \/ FlushFails \/ OpenFails
  BY <1>6 DEF NothingDue, FlushFails, OpenFails, Abstract!vars
<1>7. CASE Close
  BY <1>7 DEF Close, FlushAndDrop, Abstract!vars
<1>8. CASE Reopen
  BY <1>8 DEF Reopen, Abstract!vars
<1> QED BY <1>1, <1>2, <1>3, <1>4, <1>5, <1>6, <1>7, <1>8 DEF Task

(* A crash and a start are those of the store; the storage is not seen.    *)
LEMMA EnvironmentImplements ==
  TypeOK /\ DiskIsRecent /\ Environment => [Abstract!Next]_Abstract!vars
<1> SUFFICES ASSUME TypeOK, DiskIsRecent, Environment PROVE [Abstract!Next]_Abstract!vars
  OBVIOUS
<1> USE DEF View, sledVars, taskVars
<1>1. CASE NextReopen \/ BackendFlushes \/ StorageBreaks \/ StorageRecovers
  BY <1>1 DEF NextReopen, BackendFlushes, StorageBreaks, StorageRecovers, Abstract!vars
<1>2. CASE Exit
  <2>1. Abstract!Crash
    BY <1>2 DEF Exit, Abstract!Crash, DiskIsRecent
  <2> QED BY <2>1 DEF Abstract!Next
<1>3. CASE Start
  <2>1. PICK clear \in BOOLEAN, puts \in SetupDone :
          LET found == IF clear THEN [k \in Keys |-> NoValue] ELSE disk IN
            /\ tree' = Abstract!Changed(found, puts)
            /\ since' = since \cup {found, tree'}
    BY <1>3 DEF Start
  <2>2. View = disk /\ View' = tree' /\ db = "down" /\ db' # "down"
    BY <1>3 DEF Start
  <2>3. Abstract!Start
    BY <1>3, <2>1, <2>2, SetupPutsType DEF Start, Abstract!Start
  <2> QED BY <2>3 DEF Abstract!Next
<1> QED BY <1>1, <1>2, <1>3 DEF Environment, Crash, AdminBlutgangQuit

(* The tasks observe a store: closing and reopening the database never     *)
(* changes what a read finds, and a crash never goes back behind a flush.  *)
THEOREM SledImplementsStore == Spec => ImplementsStore
<1>1. Init => Abstract!Init
  BY DEF Init, Abstract!Init, View
<1>2. TypeOK /\ DiskIsRecent /\ [Next]_vars => [Abstract!Next]_Abstract!vars
  <2>1. UNCHANGED vars => UNCHANGED Abstract!vars
    BY DEF vars, sledVars, taskVars, Abstract!vars, View
  <2> QED BY <2>1, ClientsImplement, TaskImplements, EnvironmentImplements DEF Next
<1> QED BY <1>1, <1>2, SledTypeCorrect, RecentHolds, PTL DEF Spec, ImplementsStore, Abstract!Spec
=============================================================================
