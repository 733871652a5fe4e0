-------------------------------- MODULE Store --------------------------------
(***************************************************************************)
(* What the tasks of Blutgang may expect of the database task, whatever    *)
(* the backend does behind it.                                             *)
(*                                                                         *)
(* Requests are taken in the order they were sent.  A change is made as a  *)
(* whole or not at all; a read is answered with the present value or with  *)
(* a miss.  Nothing else changes the content while the process runs.  A    *)
(* crash brings back some content there was since the last flush that      *)
(* succeeded, and never an older one.                                      *)
(***************************************************************************)
EXTENDS Sequences

CONSTANTS
  Keys,     \* hashes of requests
  Values,   \* responses
  Readers,  \* tasks that read
  NoKey,    \* a task that is not reading
  NoValue   \* no response: db_get's None

VARIABLES
  up,       \* the process runs
  queue,    \* requests sent to the database task
  content,  \* what a read finds
  since,    \* every content there was since the last flush
  waiting,  \* the key each task awaits
  answer    \* what each task read last

vars == <<up, queue, content, since, waiting, answer>>

Contents == [Keys -> Values \cup {NoValue}]

(* A change gives some keys a value, or none: a write or a batch.          *)
Changes == UNION {[S -> Values \cup {NoValue}] : S \in SUBSET Keys}

ReadOp(r, k)   == [kind |-> "read", by |-> r, key |-> k]
ChangeOp(puts) == [kind |-> "change", puts |-> puts]
FlushOp        == [kind |-> "flush"]

Changed(c, puts) == [k \in Keys |-> IF k \in DOMAIN puts THEN puts[k] ELSE c[k]]

-----------------------------------------------------------------------------
Ask(r, k) ==
  /\ up /\ waiting[r] = NoKey
  /\ waiting' = [waiting EXCEPT ![r] = k]
  /\ queue' = Append(queue, ReadOp(r, k))
  /\ UNCHANGED <<up, content, since, answer>>

Send(op) ==
  /\ up
  /\ queue' = Append(queue, op)
  /\ UNCHANGED <<up, content, since, waiting, answer>>

Taken(kind) == up /\ queue # <<>> /\ Head(queue).kind = kind /\ queue' = Tail(queue)

AnswerRead ==
  /\ Taken("read")
  /\ LET op == Head(queue) IN
       /\ waiting' = [waiting EXCEPT ![op.by] = NoKey]
       /\ answer' \in {[answer EXCEPT ![op.by] = v] : v \in {content[op.key], NoValue}}
  /\ UNCHANGED <<up, content, since>>

MakeChange ==
  /\ Taken("change")
  /\ content' = Changed(content, Head(queue).puts)
  /\ since' = since \cup {content'}
  /\ UNCHANGED <<up, waiting, answer>>

Flush ==
  /\ Taken("flush")
  /\ since' = {content}
  /\ UNCHANGED <<up, content, waiting, answer>>

Refuse ==
  /\ Taken("change") \/ Taken("flush")
  /\ UNCHANGED <<up, content, since, waiting, answer>>

Crash ==
  /\ up /\ up' = FALSE
  /\ content' \in since
  /\ since' = {content'}
  /\ queue' = <<>>
  /\ waiting' = [r \in Readers |-> NoKey]
  /\ answer' = [r \in Readers |-> NoValue]

(* The process starts, on the content it finds or on none, and writes what *)
(* it writes on every start.                                               *)
Start ==
  /\ ~up /\ up' = TRUE
  /\ \E clear \in BOOLEAN, puts \in Changes :
       LET found == IF clear THEN [k \in Keys |-> NoValue] ELSE content IN
         /\ content' = Changed(found, puts)
         /\ since' = since \cup {found, content'}
  /\ UNCHANGED <<queue, waiting, answer>>

-----------------------------------------------------------------------------
Init ==
  /\ up = FALSE
  /\ queue = <<>>
  /\ content = [k \in Keys |-> NoValue]
  /\ since = {content}
  /\ waiting = [r \in Readers |-> NoKey]
  /\ answer = [r \in Readers |-> NoValue]

Next ==
  \/ \E r \in Readers, k \in Keys : Ask(r, k)
  \/ \E puts \in Changes : Send(ChangeOp(puts))
  \/ Send(FlushOp)
  \/ AnswerRead \/ MakeChange \/ Flush \/ Refuse
  \/ Crash \/ Start

Spec == Init /\ [][Next]_vars
=============================================================================
