# A TLA+ model of Blutgang

Blutgang is a load balancer and cache for Ethereum JSON-RPC nodes. This
directory models the parts of it that share state between tasks: which nodes
requests go to, which cached answers survive a reorg, and what is reported to
the outside about it; how calls are rewritten, cached and answered; how the
database task behaves through failures and crashes; and how WebSocket
connections and subscriptions survive the nodes. The modules are checked with
TLC on small instances, and every invariant and safety property that holds is
also proved with TLAPS for every instance.

Source paths below are relative to `src/src/`.

## 1. The system

| Part | Source | State it keeps | Operations | Shares with |
|---|---|---|---|---|
| RPC pool | `rpc/types.rs`, `config/setup.rs` | `rpc_list`, `poverty_list` (two `RwLock<Vec<Rpc>>`) | push, remove, retain | everything below |
| Health check | `health/check.rs` | the clone of a list it polls, the agreed head | `head_check`, `make_poverty`, `escape_poverty`, every `health_check_ttl` | pool; reports to the liveness monitor |
| Dropped listener | `health/check.rs` | – | `send_dropped_to_poverty`, `move_subscriptions`, `Reconnect` | pool, WS connections |
| Liveness monitor | `admin/liveready.rs` | `LiveReady {readiness, health}` | update listener, request processor | two bounded channels |
| Admin namespace | `admin/*.rs` | settings | add/remove RPCs, settings, quit, flush; `/ready`, `/health` | pool, settings, database |
| Selection | `balancer/selection/select.rs`, `rpc/types.rs` | `consecutive`, `last_used`, latency window of each RPC | `pick`, `update_latency` | pool |
| HTTP forwarding | `balancer/accept_http.rs`, `balancer/processing.rs` | retries of one request | `forward_value`, `fetch_from_rpc`, `cache_query`, `accept_request` | selection, database, head cache |
| Head cache | `health/head_cache.rs` | `head_cache`: block number → keys | `manage_cache`, `handle_reorg`, `remove_stale` | requests, database, watch channels |
| Heads and finality | `health/safe_block.rs` | two watch channels, `NamedBlocknumbers` | `subscribe_to_new_heads`, `get_safe_block` | head cache, WS |
| Database task | `database/accept.rs`, `database/types.rs` | the responses | `read`, `write`, `batch`, `flush`, `maintain` | FIFO request channel |
| WS connections | `websocket/client.rs` | a handle per RPC, a buffer | `send`, `reconnect`, `ws_conn` | pool, broadcast channel |
| Subscriptions | `websocket/types.rs`, `subscription_manager.rs`, `server.rs` | users, subscriptions, upstream subscriptions | subscribe, unsubscribe, dispatch, move | WS connections |

The tasks run on a multi-threaded tokio runtime. They interact through locks
that are held for a few statements at a time, through channels (bounded,
unbounded, watch and broadcast), and through await points at which everything
else may change. What is hard here is, in short:

* the health check awaits answers for a *clone* of a list that admin requests
  and dropped connections change meanwhile;
* an answer is put in `head_cache` and in the database in two steps, and a
  reorg may be handled in between;
* new heads travel through a channel that keeps only the last one;
* readiness and health share one bounded channel;
* selection counts calls that other paths make without counting;
* a move of subscriptions collects users and subscribes them several lock
  sections later, in two tasks that may do so at once;
* upstream subscriptions are looked up by ids that each node chooses for itself;
* an answer over WebSocket is recognised by the id of its user alone;
* deletions may fail, and a restart forgets what was to be deleted;
* sled is closed and reopened between two requests, and either step may fail or
  be the last one before a crash;
* a connection has two tasks that end independently, and whoever notices tells
  a third one, which tells a fourth one to reconnect;
* opening a connection may take for ever, and the manager of all connections
  waits for it;
* subscriptions are buffered while there is no node, and the tasks that would
  have the buffer unloaded may themselves wait for what is in it;
* a call with `latest` is rewritten with a number that changes, and is set back
  to "unknown", while the call is on its way.

`PROJECT.json` lists each such hazard with its line and the properties about it.

What makes each part correct:

* **Pool**: an RPC is in one list at most; what the health check evicts is not
  forgotten; what an admin removes does not come back; a good node gets back,
  a bad one gets out.
* **Liveness monitor**: every probe is answered, readiness is not taken back,
  the answer describes the lists once they settle.
* **Head cache**: a stored answer about a block that is not final can be found
  and deleted when the block is reorged.
* **Database task**: whatever the backend does behind it, the tasks see a store
  that answers or misses; a crash loses nothing from before the last flush.
* **Cached calls**: a stored answer answers the request of its key; a client
  gets the answer to what it asked, under its id.
* **WS connections**: a message is in one place until it is answered or given
  up; a broken connection is reported, and replaced unless the manager or the
  dropped listener hangs; the buffer is unloaded.
* **Selection**: `max_consecutive` and `min_time_delta` are respected as long
  as some RPC is allowed; every request ends.
* **Subscriptions**: a client is subscribed to what it asked for and to nothing
  else, across moves; who unsubscribed or left is in no subscription; a
  subscription that was ended upstream is not offered again.

## 2. Modules

| Module | Models | Composed of |
|---|---|---|
| `RpcPool` | pool, health check, dropped listener, admin list methods | – |
| `LiveReady` | liveness monitor and probes | – |
| `LiveReadyProofs` | theorems about `LiveReady` | extends it |
| `HealthService` | pool and monitor together | extends `RpcPool`, instance of `LiveReady` |
| `RpcPoolProofs` | theorems about `RpcPool` and `HealthService` | extends them |
| `HeadCache` | head cache, `cache_query`, database task, restarts | – |
| `HeadCacheProofs` | theorems about `HeadCache` | extends it |
| `Forwarding` | selection, retry loop, latencies | – |
| `ForwardingProofs` | theorems about `Forwarding` | extends it |
| `CachedCalls` | rewriting, cache rules, HTTP and WS calls over one cache, named block numbers | – |
| `CachedCallsProofs` | theorems about `CachedCalls` | extends it |
| `Store` | what the tasks may expect of the database task (abstract) | – |
| `SledDb` | the database task on sled or RocksDB | instance of `Store` (refinement) |
| `SledDbProofs` | theorems about `SledDb` | extends it |
| `WsConnections` | connection manager, connections, buffer, the tasks that reconnect | – |
| `WsConnectionsProofs` | theorems about `WsConnections` | extends it |
| `Subscriptions` | `SubscriptionData`, client tasks, dispatcher, `move_subscriptions` | – |
| `SubscriptionsProofs` | theorems about `Subscriptions` | extends it |
| `MC...` | instances for TLC | extend the module they are named after |

A definition keeps the name of the function it models. Where a module shows a
definition twice, the first one (named after what it gets wrong) is a plausible
slip used to see that the properties notice it; the specification only uses
the second.

### RpcPool

A list is the set of its entries, `[id, is_erroring]`; the position of an RPC
only matters to the admin index, and removal ranges over all entries.
`health_check` is five actions, one per stretch without an await: clone the
active list (`StartCheck`), evict (`MakePoverty`), clone the poverty list,
take back and retain (`EscapePoverty`), report. `node` is what each node would
answer at this moment and changes freely. `head_check` reads all answers at the
moment the list is updated; since nodes may change back, every combination of
earlier answers is reachable too. An answer to `eth_blockNumber` is a set with
the height or an empty one, an answer to `eth_syncing` is a Boolean, an object
or nothing usable; `BlockNumber` and `Syncing` turn them into height 0 and
"syncing" on failure, as the code does.

`ws_err` holds the `Closed` messages. Any RPC there ever was may be in one,
because tasks of replaced connections live on. `send_dropped_to_poverty` moves
the entry as it is; `dropped_pc = "moving"` is its wait in
`move_subscriptions`, of which nothing is assumed, not even that it ends.

`removed` is a history variable. `known` is the counter `NEXT_RPC_ID` as the
set of ids it has handed out.

### LiveReady and HealthService

One variable per channel with the code's blocking `send`, one per field of the
status, and for each probe where it is. `HealthService` replaces the open
environment of `LiveReady` (`SendHealth` of any state) by the report of
`EscapePoverty`, which waits for room in the channel; what `/health` answers is
then a statement about the lists (`HealthCatchesUp`). The run has no probes
(`Probe = {}`), since a probe only reads.

### HeadCache

A key stands for the hash of a cacheable request, `BlockOf` for the block it
names. Each request reads the database, is answered, looks at finality, pushes
its key, and queues the write: one action each, since the code awaits or takes
another lock in between. `manage_cache` is one action per await and lock. The
database task takes operations in order; `DbError` lets any of them fail. A
restart empties everything but the database.

`escaped` collects the keys that get past `head_cache` in one of three ways
the code admits; `Tracked` says there is no fourth. `ever_final` is the highest
block ever reported final: what is final cannot be reorged.

Not covered by `SweepComplete`: a head that repeats or goes back and is
followed by a higher one before `manage_cache` borrows it. The watch channel
only keeps the last value, so `manage_cache` never learns of such a reorg. The
model has this behaviour (`NewHead` overwrites); no property claims more.

### Forwarding

`since[r]` is what the wall clock says about `last_used`, `rest[r]` the real
time since the last call and `ahead[r]` what the wall clock was set ahead since
then. They stop growing when `since[r]`, or the sum of the other two, is above
`min_time_delta`, the only threshold compared with them. `Tick` is time that
passes, `ClockSetBack` and `ClockSetAhead` are corrections of the clock, as the
code uses `SystemTime`. A clock that is set ahead shortens an RPC's rest, and
`RateRespected` says that it does so by what it skips and no more; one that is
set back shortens nothing. Latencies are in small units (`Durations`), the
window and its integer average as in `update_latency`. `WsSend` and `WsMessage` are the
WebSocket paths to `pick` and `update_latency`, `Leaves` and `Joins` what
`RpcPool` does to the list. `excused` and `unrecorded` remember calls that
`pick` made without counting or recording them.

### CachedCalls

A request is `[method, params]`; a param is a block tag, a number, something
else, or a block too short to be sliced. Tags are resolved with `named` as
`replace_block_tags` does it, before the key is taken; `has_block_tag` looks at
all params, `get_block_number_from_request` at the block param only. A response
carries the request it answers, so that `RepliesMatch` can compare what a client
gets with what it asked (`asked`) and with what its tag named at that moment
(`at`). An HTTP response belongs to its request. A WebSocket answer is found by
the id of the user: `out` holds the calls that were sent, also those whose user
gave up (`WsLags`), and any of them may be taken for the present one. Users this
happened to are in `gave_up`, what they store afterwards is `tainted`; the two
properties except those. `NewHead` and `SafeBlock` change the named numbers
freely, 0 for unknown included; `Delete` is what reorgs do.

### Store and SledDb

`Store` is the promise: requests are taken in order, a change is made as a whole
or not at all, a read finds the present value or misses, nothing else changes
the content while the process runs, and a crash brings back a content there was
since the last flush that succeeded. `SledDb` is the database task: one request,
then `maintain`, each split where the process may crash. `backend` is chosen at
the start; RocksDB has the operations without the maintenance. `tree` is what
the open database holds, `disk` what opening it would find; the backend writes
`tree` to `disk` on its own at any time, and on a flush. `db = "closed"` is the
database dropped and not yet reopened. `pinned` saturates like the `usize` it
is; `cooling` stands for `now < next_reopen`. `StorageBreaks` makes every call
of the backend able to fail until `StorageRecovers`. `Exit` loses everything but
the disk; `blutgang_quit` is an `Exit` because it does not wait for its flush.

The refinement mapping is `up <- db # "down"` and
`content <- IF db = "open" THEN tree ELSE disk`; queue, answers and `since` are
the same. Closing, reopening, failing and pinning are stutters of `Store`.

### WsConnections

A message is followed from its making to its answer. It is in the manager's
channel, in the buffer, taken out of the buffer, in the channel of a connection,
or sent to a node and not answered; `fate` says whether it is underway. A
connection is a node and a slot: a node may have several at a time, because
`reconnect` replaces handles while the tasks of the old connections live on.
`open` returns a handle whether or not it could connect; `Dead` is the slot of
one that has nothing behind it. The manager is one action per stretch without an
await: clone the list (`StartReconnect`), replace the handles and take the
buffer (`Replace`), then send one message at a time. `connecting` holds the RPCs
it is opening connections to, in a reconnect or for one message
(`StartOpening`); while it is not empty the manager does nothing else, and
nothing says that `connect_async` ever returns. The message for which a
connection is opened stays at the head of its queue until it is sent; as only
the manager reads that queue, this is the same as taking it out first. All
connections of a reconnect are opened in one step, as their handles come into
use together. `SenderFails` and `ReceiverEnds` are the two tasks of a
connection ending by themselves, each with the report it makes or not. The
dropped listener and the newHeads subscriber wait for the answers of their moves
(`"moving"`), the listener before it asks for a reconnect and the subscriber
after. `PoolChanges` is what `RpcPool` does to the list.

### Subscriptions

The three maps of `SubscriptionData` are functions with finite domains, as in
the code: topic to upstream subscription (a node and an id), upstream
subscription to users, and the set of connected users. A step is what happens
under one lock or between two awaits: a client that is answered by a node first
registers the subscription and then subscribes to it, the dispatcher first finds
out that nobody is subscribed and then ends the subscription, and a move
collects, unregisters, registers and subscribes the users one by one. Two
reductions: `remove_user` is one step, because its last lock section does the
whole work, and `eth_unsubscribe` looks the id up and unsubscribes in one.

`Mover` are the two tasks that call `move_subscriptions`, the dropped listener
and the newHeads subscriber. Every step of one may come between two of the
other's. Both use the same message ids, so an answer to one is taken by the
other (`MoveAnswered` takes any). `raw_subscribe(..)?` fails in a move when the
other one has unregistered the topic in between; the move then stops and leaves
its other users where they are (`MoveSubscribe`).

Nothing is assumed about the ids: any node may answer with any of them, also one
that another node, or the same node, gave to something else. `topic[x]` is what
`x` was first registered for. Lookups go by the id alone, as in the code.

The broadcast channel is not a variable. A reader that waits may read any
message that a node has still to send; one that waits in the channel is the same
as one sent later, as nodes are under no obligation. `UserLags` and
`MoveInterrupted` are the errors of a reader that fell behind; a dispatcher that
did is one that takes no further step. `late` counts, for each user and call,
the answers to calls that were given up. The next call of the same user may read
one of them: any string is registered as a subscription id, be it the answer to
a call that is no subscription (`Other`). Because a node may notify of any id
whenever it likes, the `eth_unsubscribe` messages to nodes need no variable.

The histories:

* `mixed`: an id came to stand for two things. A late answer was registered for
  another call, or an id was registered for two topics. `OnlyAskedFor` is about
  the runs where this did not happen; a move cannot tell two subscriptions of
  one id apart, and takes the users of the one to the other.
* `quit`: who unsubscribed from what, and was told so. An unsubscription while a
  move has collected the user for this id does not count, as the move subscribes
  it again; and it is forgotten when a move subscribes the user under another
  id than the one it collected it for, because the topic was registered anew in
  between. `UnsubscribeSticks` says that there is no other way back.
* `missed`: users that left while a move had collected them, or whose own call
  was carried out after they were removed. `LeftUsersGone` is about the others.

## 3. Runs

| Run | Question | Result |
|---|---|---|
| `pool` | safety of the pool over 3 RPCs, every answer, 2 Closed messages | holds |
| `pool_lost` | is every RPC in one of the lists? | violated (below) |
| `liveready` | probes, readiness with full channels | holds |
| `health_service` | does `/health` describe the lists once they settle, and who gets in and out of them eventually? | holds |
| `head_cache` | can a reorg find what is stored? | holds, with the named exceptions |
| `forwarding` | the two limits of selection, the end of every request | hold, the limits with the named exceptions |
| `cached_calls` | does every stored and every sent answer belong to its request? | holds, with the named exceptions |
| `database` | is the database task a `Store`, what survives a crash, is every read answered? | holds |
| `ws_connections` | where messages are, what becomes of broken connections and of the buffer | holds |
| `ws_stuck` | does a buffered subscription leave the buffer once there are nodes? | violated |
| `subscriptions` | who is subscribed to what | holds, with the named exceptions |
| `subscriptions_ended` | is an ended subscription forgotten? | violated |

The violated runs are the disagreements between the code and its comments that
`PROJECT.json` lists as findings:

1. *An RPC is lost* (`NoRpcLost`). A dropped connection moves an RPC to the
   poverty list without the error flag; `escape_poverty` only retains flagged
   entries.
2. *A buffer is never unloaded* (`BufferedAreSent`). The newHeads subscriber
   asks for a reconnect and only then sends the subscriptions of its move. With
   no node in the list they are buffered after that reconnect; the subscriber
   waits for their answers without a timeout, and when nodes return nobody asks
   for the reconnect that would unload the buffer.
3. *An ended subscription is offered again* (`EndedIsForgotten`). The dispatcher
   unregisters by subscription id in a map keyed by params.

The exceptions are behaviours of the code that a property names instead of
hiding, each by a history variable that only the step in question sets:

* `escaped` (`Tracked`): a reorg between `cache_query`'s push and its write
  deletes first and writes second; a batch fails; the process restarts.
* `excused` and `unrecorded` (`RowRespected`, `RateRespected`): `pick` neither
  counts nor records the calls to an RPC that is alone in the list, and does not
  count the fallback when no RPC is allowed.
* `panicked` requests (`RequestsEnd` counts them as ended): an RPC added with
  `ma_length` 0 panics in `update_latency`. A block param of less than two
  characters panics in `get_block_number_from_request` (`"gone"` in
  `CachedCalls`).
* `ahead` (`RateRespected`): the wall clock was set ahead.
* `gave_up` and `tainted` (`StoredAnswersKey`, `RepliesMatch`): a late answer is
  taken for the answer to the next call.
* `mixed` (`OnlyAskedFor`), `quit` (`UnsubscribeSticks`) and `missed`
  (`LeftUsersGone`): see Subscriptions.

`BrokenReplaced` and `UnloadedOnReconnect` have a premise instead, `OpeningEnds`:
the manager does not wait for ever in a connection attempt. Without it both are
false in the model, and in the code: `connect_async` (`websocket/client.rs:234`)
has no timeout. `BufferedAreSent` has the same premise, so that its violation is
not about such an attempt.

### Bounds

* Pool: three RPCs, so that one can be evicted, one active and one added; heads
  0 and 1, where "below, at and above the agreed head" all occur; two Closed
  messages, so that the same RPC may be dropped twice. The symmetry of the
  configured RPCs is used for safety only.
* LiveReady: a request channel of one message and an update channel of two, so
  that every sender waits.
* HealthService: two configured RPCs, so that one can be the highest and the
  other behind, and the list can become empty.
* HeadCache: three blocks and one key about the middle one, so that heads fall
  below, on and above it; two clients that ask for it at once; finality up to
  the key's block; a queue of two operations, so that a batch can overtake a
  write and be overtaken; one restart.
* Forwarding: two RPCs with different limits, one of them without a latency
  window, one request with two attempts; the effect of other requests on
  selection is what `WsSend` and `WsMessage` do. `MaxClockBack` is how far the
  wall clock is set back, `MaxClockAhead` how far it is set ahead between two
  calls of an RPC: by 1 each, the largest `min_time_delta` of the instance.
* CachedCalls: one HTTP and one WebSocket client whose requests meet in a key:
  the balance at block 1, asked for by number and as `latest`. Two blocks, so
  that `latest` changes its meaning; a method that is rewritten but not cached,
  a block param that cannot be sliced, and an id that is not a number. A user
  lags once.
* SledDb: two keys, one of them the one `setup_data` writes; one value and
  none; one reader; two requests waiting. With lengths of 1, a capacity of 3
  and a `usize` of 4, two writes close the database and a third would overflow.
* WsConnections: one node with two slots, so that a new connection and the one
  it replaced coexist, and one message of each kind; one task of a connection
  ends by itself. With one node the list is empty or not, which is all that
  buffering depends on.
* Subscriptions: two users, two topics of which one can be moved, two nodes, two
  ids, two movers. `MaxSent` = 3 bounds the calls sent upstream and the moves
  together: two calls and a move, so that a move finds both a topic to move and
  one to leave, or users of both topics under one id; one call and two moves at
  once; or three calls, with late answers of the first two. A run may come to
  rest when they are used up.

Fixed bounds of the model that the code does not have: `MaxHead`, `MaxWsErr`,
`MaxBlock`, `MaxFinal`, `MaxQueue`, `MaxRestarts`, `MaxClockBack`,
`MaxClockAhead`, `MaxSent`, `Slots`, `MaxInbox`, `MaxBreaks`.

### Fairness

* The health check loops forever and each of its waits ends with an answer or
  a timeout: weak fairness of its steps. Nothing is assumed of nodes,
  connections, admins or `move_subscriptions`.
* The monitor's tasks are woken for every message (weak fairness); tokio's mpsc
  channels wake waiting senders in order, so a sender does not miss room that
  others keep taking: strong fairness of the senders.
* Each HTTP request is a task and its wait for an RPC is bounded by ttl: weak
  fairness of its steps.
* The database task is woken for every request and no call of the backend hangs:
  weak fairness of its steps. Nothing says that the storage recovers.
* The connection manager goes on when it is not waiting for a connection it
  opens, and the dropped listener when it is not waiting for a move (weak
  fairness). Opening a connection, and writing to one, may take for ever. The newHeads subscriber's timeout fires when it is
  waiting for a head (weak fairness): that no head arrives is the case in which
  connections need to be repaired. Nothing is assumed of nodes or the network,
  so that no answer ever has to come.

## 4. Proofs

`RpcPoolProofs` proves `TypeOK`, `OneHome`, `ActiveNotErroring`,
`RemovedStaysOut` and `ErroringNeverLost` for every `Rpc`, `Configured`,
`MaxHead`, `Answers`, `MaxWsErr` and `Readonly` that satisfy `PoolAssumption`.
The inductive invariant is `PoolInv`: to these four invariants it adds
`ListedKnown`, that listed and removed ids were handed out. Without it a new id
might be one that is listed already, and an added RPC one that was removed.
`OneHome` is not inductive without `ActiveNotErroring` in the argument for
`ErroringNeverLost`: only because active entries are unflagged is the flagged
entry of an RPC in the poverty list the only one there is. There is one lemma
per action that changes a list, one for all the others, and five about the ids
of sets of entries.

`ForwardingProofs` proves `TypeOK`, `RowRespected` and `RateRespected` for any
number of RPCs and requests and any limits. `ForwardingInv` adds `RowCounted`
(the counter is at least the real row, unless a call of the row was uncounted)
and `RestCovered` (the wall clock shows no more rest than there was and it
skipped, unless the last call was unrecorded); the two properties follow from them state by state.
The work is in `PickForwardingInv`: one case for the shortcut, one for the
fallback and one for a regular pick.

`SledDbProofs` proves `TypeOK`, `DiskIsRecent` and `TurnedAwayOnce` for any
finite set of keys, any values, readers, sizes and bounds, and that `SledDb`
implements `Store`. `DiskIsRecent` is inductive over `TypeOK` and is what the
refinement needs: the content a crash brings back is on disk, and `Store` only
allows it to be one of `since`. `TurnedAwayOnce` needs to know where the task
is: a closed database has refused nothing yet, or it is in `maintain` and tries
to reopen. For the refinement there is one lemma per group of actions, each
showing that its actions are a step of `Store` or leave its variables alone.

`CachedCallsProofs` proves `TypeOK`, `StoredAnswersKey` and `RepliesMatch` for
any clients, requests and block numbers. `CallsInv` adds three facts about calls
on their way: `CallMeansAsked` (the rewritten request is what the client asked
for, at the block its tag named then, and the key is the rewritten request),
`OutIsAwaited` (a call that was sent is the one its user awaits, unless the user
gave up), and `AnswerIsToCall` (an answer is to the call it was fetched for,
with the same exception). `StoredAnswersKey` follows at the moment of storing,
`RepliesMatch` from the other three.

`LiveReadyProofs` proves `LiveTypeOK` and `ReadyIsKept` for any probes and any
capacities of the two channels. `ReadyIsKept` is about the past of a probe, so
`ReadyInv` adds what keeps it true: the stored readiness is `Ready` as soon as a
`/ready` probe was answered 200 or one began after that (`SeenIsStored`), and a
probe is in the request channel at most once and only while it has no answer
(`QueuedOnce`). Two action properties follow that no run checks: a status that
was given never changes (`AnsweredOnce`), and readiness is never taken back
(`ReadinessStays`).

`ServiceImplementsPool`, in `RpcPoolProofs`, is about `HealthService`: each of
its steps is a step of the pool or leaves it alone, although the report waits for
room in the monitor's channel. What is proved of the pool alone therefore holds
of the service.

`HeadCacheProofs` proves `TypeOK`, `Tracked` and `SweepComplete` for any keys,
requests, blocks and bounds. `Tracked` says where a key is that *will be*
stored, which depends on the last operation in the queue that touches it. The
lemmas `WillBeStoredMeans`, `AppendSettles` and `TailSettles` replace the `Max`
in its definition by what taking an operation from the queue, or adding one,
does to it. `CacheInv` then has `StoredCovered` (`Tracked`, said of queue and
database) and `PushedCovered`: a request between `cache_query`'s push and its
write finds its key covered, or has escaped, whatever was swept meanwhile.
`RequestKeys` is why a request that skipped `head_cache` was right to,
`ReadsWait` why the database's answers go to requests that wait for them,
`BatchHeld` and `FinalKnown` why nothing is deleted twice or too late.
`SweepComplete` is an action property over the same invariant.

`WsConnectionsProofs` proves `TypeOK`, `BrokenIsReported` and `OnePlace` for any
nodes, messages, slots and bounds. `TypeInv` adds to the types that the manager
has taken something from the buffer exactly while it is unloading (`UnloadHeld`).
`BrokenIsReported` is inductive over it: whatever makes a handle broken
(`SenderFails`) reports it, and each hand-over, from the report to the listener
and from there to the manager, is a step that makes the next disjunct true.
`OnePlace` counts, which is no basis for induction; `PlaceInv` says the same
without numbers: no message is in a queue twice (`AllDistinct`), no two places
have a message in common (`Apart`), and a message is somewhere exactly if it is
underway (`Underway`). That this makes the sum of the five counts 1 or 0 is
shown once, in `PlacesAreOne`. The proofs need the kinds of messages to be
disjoint, which `WsAssumption` says: they stand for different calls.

`SubscriptionsProofs` proves `TypeOK`, `OnlyAskedFor`, `UnsubscribeSticks` and
`LeftUsersGone` for any clients, topics, ids, nodes and movers. `TypeInv` adds
what tasks hold between two locks: a call that waits is one (`CallsHeld`), and a
move past its answer has a topic and an id (`MovesHeld`). It does *not* say that
the topic is still registered: the other move may have unregistered it, and the
dispatcher tries to (`GiveUpEffect`: it gives an id where a topic is expected).

`OnlyAskedFor` needs four facts that hold until an id stands for two things,
together `Asked`: what is registered for a topic was first registered for it
(`RegisteredMatch`, also a theorem), the same of what a move is about to register
(`MovingMatch`), and the users of subscriptions and of moves asked for their
topic (`SubscribedAsked`, `MovingAsked`). `Stable` is what no step takes back:
what users wanted, `mixed`, and the topic of an id once it has one.

For the other two, `NextKinds` shows that every step is of one of a few kinds: a
user subscribes by itself, is subscribed by a move, unsubscribes, or is removed, a
move collects users, or nobody comes. `UnsubscribeSticks` is inductive with `CollectedStay`: who has quit
an id is not collected for it, as a move only collects users that are
subscribed. `LeftUsersGone` is not: a task may end long after its user was
removed. `OutIsMissed` says it of the users that are not connected, and
`EndedIsOut` that a task only ends when its user is not.

### Assumptions

The theorems rest on the assumptions on constants that the modules name
(`PoolAssumption`, `LiveReadyAssumption`, `WsAssumption`,
`SubscriptionsAssumption` and so on): finiteness, bounds that are natural
numbers, capacities that are not 0, and that values that mean different things
are different. TLC evaluates them on every run.

### Only model-checked

Everything that says "eventually" (`ProbesAnswered`, `BecomesReady`,
`HealthCatchesUp`, `GoodEscapes`, `SyncingLeaves`, `ServiceReturns`,
`RequestsEnd`, `ReadsAnswered`, `BrokenReplaced`, `UnloadedOnReconnect`): the
prover has no fairness and no ENABLED. And the three properties that are
violated.

## 5. Not modelled

* The text of requests and responses: which bytes make a response an error or
  `null`, how ids and hashes are printed. `CachedCalls` has what follows from
  it.
* Configuration and command line, TLS and HTTP framing, metrics, logging: input
  handling and output without state of their own.
* JWT verification: a request without a valid token changes nothing.
* The two ttls an admin may set: they decide how long a task sleeps or waits,
  and every wait in the models may already end at any time.
* The selection features that are off by default.
* Poisoned locks. A poisoned list is recovered from by the tasks, while admin
  methods that write return errors from then on. A malformed head makes the
  newHeads subscriber panic while it holds the lock of the named block numbers
  (`health/safe_block.rs:233-235`); the `unwrap` in `get_safe_block` (line 151)
  then ends the health check. The models take heads to be well formed; the
  liveness of the pool is that of a health check that goes on.

## 6. Plan

Done, in order of importance: pool and health check; monitor; their
composition; head cache; forwarding; the proofs of pool and forwarding;
subscriptions; the database task and its refinement; connections; cached calls;
the proofs of the database task and of cached calls; the proofs of the monitor,
of the health service's refinement, of the head cache, of the connections and
of the subscriptions.

Next:

1. `HeadCache` over `Store` instead of its own queue, so that a reorg's
   deletions are followed to the disk; its proofs with it.
2. The dropped listener once for pool, connections and subscriptions together,
   and that each of them is implemented by the composition.
