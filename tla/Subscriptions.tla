---------------------------- MODULE Subscriptions ----------------------------
(***************************************************************************)
(* WebSocket subscriptions: clients subscribe at Blutgang, which holds one *)
(* upstream subscription per topic at some node and passes its             *)
(* notifications on.                                                       *)
(*                                                                         *)
(* SubscriptionData (websocket/types.rs) is three maps, each behind a lock *)
(* of its own: the connected users, the upstream subscription registered   *)
(* for each topic, and the users of each upstream subscription.  It is     *)
(* used by the task of every client (server.rs, execute_ws_call in         *)
(* client.rs), by the dispatcher, and by move_subscriptions                *)
(* (subscription_manager.rs), which two tasks call that may run at once:   *)
(* the dropped listener (check.rs) when a connection breaks and the        *)
(* newHeads subscriber (safe_block.rs) when no head came in time.          *)
(*                                                                         *)
(* Everything nodes send goes through one broadcast channel.  Each task    *)
(* reads it at its own pace and ignores what is not for it.  The model     *)
(* lets a message be sent when it is read: a message that waits in the     *)
(* channel is one the node sends later.  A reader that falls behind by the *)
(* channel's capacity gets an error; the traffic that makes it fall behind *)
(* is not modelled, so this may happen at any time.                        *)
(*                                                                         *)
(* Nothing is assumed of the nodes.  They choose the subscription ids, and *)
(* SubscriptionData looks most things up by the id alone, so two nodes, or *)
(* one node after a reconnect, may give one id to two subscriptions.  Any  *)
(* node may notify of any id at any time, whether it granted it or not.    *)
(* Answers carry the id of the user, not of the call: the answer to a call *)
(* that was given up, of whatever method, may be taken for that of a later *)
(* one.  Of the calls that are no subscriptions only this is modelled.     *)
(***************************************************************************)
EXTENDS Naturals

CONSTANTS
  User,         \* clients; ids are random and taken to be distinct
  Topic,        \* the params of eth_subscribe
  Movable,      \* the topics whose params are all strings
  SubId,        \* the subscription ids nodes answer with
  Node,         \* upstream nodes
  Mover,        \* the tasks that call move_subscriptions
  MaxSent       \* bound on the number of calls sent upstream and moves begun

ASSUME SubscriptionsAssumption ==
  /\ Movable \subseteq Topic
  /\ Topic \cap SubId = {} /\ {"free", "no_call", "other"} \cap Topic = {}
  /\ MaxSent \in Nat

VARIABLES
  users,                   \* SubscriptionData.users
  subscriptions,           \* SubscriptionData.subscriptions
  incoming_subscriptions,  \* SubscriptionData.incoming_subscriptions
  pc,                      \* where the client's task is
  call,                    \* the call it is executing
  sent,                    \* the number of calls sent upstream and moves begun so far
  late,                    \* how many answers to earlier calls are still to come, by call
  unwanted,                \* the subscription the dispatcher found without users
  move_pc,                 \* where move_subscriptions is, in each of its two tasks
  pairs,                   \* its local: the topics still to be moved
  move_pair,               \* the topic it is moving
  move_info,               \* where to, under the id it read
  move_users,              \* the users to move
  topic,                   \* history: the topic each SubId was first registered for
  wanted,                  \* history: the topics each user asked for
  quit,                    \* history: <<user, id>> unsubscribed since (see UnsubscribeSticks)
  missed,                  \* history: users that are not removed for good (see LeftUsersGone)
  mixed                    \* history: an id came to stand for two things

dataVars == <<users, subscriptions, incoming_subscriptions>>
userVars == <<pc, call>>
nodeVars == <<sent, late, topic>>
moveVars == <<move_pc, pairs, move_pair, move_info, move_users>>
history  == <<wanted, quit, missed, mixed>>
vars     == <<dataVars, userVars, nodeVars, unwanted, moveVars, history>>

Free    == "free"      \* the topic of an id that was never registered
NoCall  == "no_call"
Other   == "other"     \* any call that is no subscription
Call    == Topic \cup {Other}
NoTopic == "no_topic"
NodeSubInfo == [node_id : Node, subscription_id : SubId]
Info(n, x)  == [node_id |-> n, subscription_id |-> x]
NoInfo      == [node_id |-> "no_node", subscription_id |-> "no_sub"]

-----------------------------------------------------------------------------
(* SubscriptionData.                                                       *)

Registered(x) ==
  \E p \in DOMAIN incoming_subscriptions : incoming_subscriptions[p].subscription_id = x

(* The map is keyed by topic; the mutant keys it by id.                    *)
RawRegisterById(p, info) ==
  [q \in DOMAIN incoming_subscriptions \cup {info.subscription_id} |->
     IF q = info.subscription_id THEN info ELSE incoming_subscriptions[q]]
RawRegister(p, info) ==
  [q \in DOMAIN incoming_subscriptions \cup {p} |->
     IF q = p THEN info ELSE incoming_subscriptions[q]]

UnregisterSubscription(k) ==
  [q \in DOMAIN incoming_subscriptions \ {k} |-> incoming_subscriptions[q]]

Subscribed(u, info) ==
  [i \in DOMAIN subscriptions \cup {info} |->
     (IF i \in DOMAIN subscriptions THEN subscriptions[i] ELSE {})
       \cup (IF i = info THEN {u} ELSE {})]

(* unsubscribe_user takes the user out of the subscription at every node;  *)
(* the mutant, only where it is registered.                                *)
UnsubscribedWhereRegistered(S, x) ==
  [i \in DOMAIN subscriptions |->
     IF i.subscription_id = x /\ \E p \in DOMAIN incoming_subscriptions : incoming_subscriptions[p] = i
     THEN subscriptions[i] \ S ELSE subscriptions[i]]
UnsubscribeUser(S, x) ==
  [i \in DOMAIN subscriptions |->
     IF i.subscription_id = x THEN subscriptions[i] \ S ELSE subscriptions[i]]

(* remove_user takes users out of all subscriptions; the mutant leaves     *)
(* them subscribed.                                                        *)
WithoutNobody(S) == subscriptions
Without(S)       == [i \in DOMAIN subscriptions |-> subscriptions[i] \ S]

(* The last of its lock sections does all of it, so it is one step.        *)
RemoveUser(S) ==
  /\ subscriptions' = Without(S)
  /\ users' = users \ S
  /\ quit' = {r \in quit : r[1] \notin S}
  /\ missed' = (missed \ S) \cup {u \in S : \E m \in Mover : u \in move_users[m]}

(* The users of the first entry with this id, in a map without order; the  *)
(* mutant does not look at the id.                                         *)
UsersForAny(x)  == {subscriptions[i] : i \in DOMAIN subscriptions}
UsersFor(x) ==
  {subscriptions[i] : i \in {j \in DOMAIN subscriptions : j.subscription_id = x}}

HasUser(u, x) ==
  \E i \in DOMAIN subscriptions : i.subscription_id = x /\ u \in subscriptions[i]

(* raw_subscribe to the subscription registered for p.                     *)
RawSubscribe(u, p) == subscriptions' = Subscribed(u, incoming_subscriptions[p])

(* In a call of the user, which may have left while the call waited in a   *)
(* queue or for a node.                                                    *)
SubscribeUser(u, p) ==
  /\ RawSubscribe(u, p)
  /\ quit' = quit \ {<<u, incoming_subscriptions[p].subscription_id>>}
  /\ missed' = IF u \in users THEN missed ELSE missed \cup {u}

(* A move has collected the user for this id.                              *)
Collected(u, x) ==
  \E m \in Mover : u \in move_users[m] /\ move_info[m].subscription_id = x

-----------------------------------------------------------------------------
(* The task of a client.                                                   *)

AddUser(u) ==
  /\ pc[u] = "new"
  /\ users' = users \cup {u}
  /\ pc' = [pc EXCEPT ![u] = "idle"]
  /\ UNCHANGED <<subscriptions, incoming_subscriptions, call,
                 nodeVars, unwanted, moveVars, history>>

(* The call is answered to the client, and the next one in the task's      *)
(* queue may follow; if the connection is gone, see SendFails.             *)
Reply(u) ==
  /\ pc' = [pc EXCEPT ![u] = "idle"]
  /\ call' = [call EXCEPT ![u] = NoCall]

(* eth_subscribe to a topic that is registered.                            *)
SubscribeExisting(u, p) ==
  /\ pc[u] = "idle"
  /\ p \in DOMAIN incoming_subscriptions
  /\ SubscribeUser(u, p)
  /\ wanted' = [wanted EXCEPT ![u] = @ \cup {p}]
  /\ Reply(u)
  /\ UNCHANGED <<users, incoming_subscriptions,
                 nodeVars, unwanted, moveVars, mixed>>

(* Another topic, and any other call, is sent upstream under the user's id *)
(* instead of the client's.                                                *)
ForwardCall(u, c) ==
  /\ pc[u] = "idle"
  /\ c \notin DOMAIN incoming_subscriptions
  /\ sent < MaxSent /\ sent' = sent + 1
  /\ call' = [call EXCEPT ![u] = c]
  /\ wanted' = [wanted EXCEPT ![u] = @ \cup ({c} \cap Topic)]
  /\ pc' = [pc EXCEPT ![u] = "waiting"]
  /\ UNCHANGED <<dataVars, late, topic, unwanted, moveVars, quit, missed, mixed>>

(* eth_unsubscribe; the answer is an error if the id is not registered.    *)
UnsubscribeCall(u, x) ==
  /\ pc[u] = "idle"
  /\ \/ /\ Registered(x)
        /\ subscriptions' = UnsubscribeUser({u}, x)
        /\ quit' = IF HasUser(u, x) /\ ~Collected(u, x) THEN quit \cup {<<u, x>>} ELSE quit
     \/ /\ ~Registered(x)
        /\ UNCHANGED <<subscriptions, quit>>
  /\ Reply(u)
  /\ UNCHANGED <<users, incoming_subscriptions,
                 nodeVars, unwanted, moveVars, wanted, missed, mixed>>

(* listen_for_response returns the first message with the user's id: the   *)
(* answer to the call, or to one that was given up before it.  Then the    *)
(* answer to the call itself is still to come.                             *)
Answered(u, c) ==
  /\ pc[u] = "waiting"
  /\ \/ c = call[u] /\ UNCHANGED late
     \/ /\ c # call[u] /\ late[u][c] > 0
        /\ late' = [late EXCEPT ![u][c] = @ - 1, ![u][call[u]] = @ + 1]
  /\ UNCHANGED sent

(* Any string is a subscription id, whatever was asked.                    *)
RegisterSubscription(u, c, n, x) ==
  /\ Answered(u, c)
  /\ call[u] \in Topic
  /\ incoming_subscriptions' = RawRegister(call[u], Info(n, x))
  /\ topic' = [topic EXCEPT ![x] = IF @ = Free THEN call[u] ELSE @]
  /\ mixed' = (mixed \/ c # call[u] \/ topic[x] \notin {Free, call[u]})
  /\ pc' = [pc EXCEPT ![u] = "registered"]
  /\ UNCHANGED <<users, subscriptions, call, unwanted, moveVars,
                 wanted, quit, missed>>

(* The answer to another call, or one that is no string, which is an error *)
(* to the client.                                                          *)
NoSubscription(u, c) ==
  /\ Answered(u, c)
  /\ Reply(u)
  /\ UNCHANGED <<dataVars, topic, unwanted, moveVars, history>>

(* The lock was released since the registration; with a move in between    *)
(* the topic may not be registered any more, which is an error.            *)
SubscribeRegistered(u) ==
  /\ pc[u] = "registered"
  /\ \/ call[u] \in DOMAIN incoming_subscriptions /\ SubscribeUser(u, call[u])
     \/ call[u] \notin DOMAIN incoming_subscriptions /\ UNCHANGED <<subscriptions, quit, missed>>
  /\ Reply(u)
  /\ UNCHANGED <<users, incoming_subscriptions,
                 nodeVars, unwanted, moveVars, wanted, mixed>>

(* The receiver lagged: the call is answered with an error, and whatever   *)
(* the node answers later still carries the user's id.                     *)
UserLags(u) ==
  /\ pc[u] = "waiting"
  /\ late' = [late EXCEPT ![u][call[u]] = @ + 1]
  /\ Reply(u)
  /\ UNCHANGED <<dataVars, sent, topic, unwanted, moveVars, history>>

(* When the client closes its connection nothing happens until an answer   *)
(* or a notification is sent to it: the task removes the user and ends.    *)
SendFails(u) ==
  /\ pc[u] = "idle"
  /\ RemoveUser({u})
  /\ pc' = [pc EXCEPT ![u] = "ended"]
  /\ UNCHANGED <<incoming_subscriptions, call, nodeVars, unwanted, moveVars, wanted, mixed>>

(* The connection breaks and its reader removes the user, while a call may *)
(* be waiting.                                                             *)
ReadFails(u) ==
  /\ u \in users
  /\ RemoveUser({u})
  /\ UNCHANGED <<incoming_subscriptions, pc, call, nodeVars, unwanted, moveVars, wanted, mixed>>

(* Then the task's channel has no sender left.                             *)
TaskEnds(u) ==
  /\ pc[u] = "idle" /\ u \notin users
  /\ pc' = [pc EXCEPT ![u] = "ended"]
  /\ UNCHANGED <<dataVars, call, nodeVars, unwanted, moveVars, history>>

-----------------------------------------------------------------------------
(* subscription_dispatcher.  When it lags behind the channel it returns,   *)
(* and nobody restarts it: it is one that takes no further step.           *)

(* A notification of an unknown subscription changes nothing.              *)
NoticeUnwanted(i) ==
  /\ unwanted = NoInfo
  /\ i \in DOMAIN subscriptions
  /\ subscriptions[i] = {}
  /\ unwanted' = i
  /\ UNCHANGED <<dataVars, userVars, nodeVars, moveVars, history>>

(* Without the locks: unregister, and send an eth_unsubscribe upstream.    *)
(* The registrations are keyed by topic, but the key given is the id.      *)
GiveUp ==
  /\ unwanted # NoInfo
  /\ incoming_subscriptions' = UnregisterSubscription(unwanted.subscription_id)
  /\ unwanted' = NoInfo
  /\ UNCHANGED <<users, subscriptions, userVars, nodeVars, moveVars, history>>

(* The recipients are collected under the locks, and sent to without.  One *)
(* whose task has ended in between cannot be sent to, and is removed.  The *)
(* collected users are not kept: it may be any that ended.                 *)
NoticeSend(u) ==
  /\ unwanted = NoInfo
  /\ pc[u] = "ended"
  /\ RemoveUser({u})
  /\ UNCHANGED <<incoming_subscriptions, unwanted, userVars, nodeVars, moveVars, wanted, mixed>>

-----------------------------------------------------------------------------
(* move_subscriptions, in the task m.                                      *)

(* The topics get_subscription_by_node can read again.                     *)
MovedTopics(n) ==
  {p \in Movable \cap DOMAIN incoming_subscriptions : incoming_subscriptions[p].node_id = n}

(* The listener moves what is at a node whose connection broke, and the    *)
(* newHeads subscriber what is at the node that has the id its last head   *)
(* came with: any node that something is registered at.  With nothing to   *)
(* move they are done.  What is sent is an eth_subscribe for each topic,   *)
(* under message ids that start at the same number in every move, and an   *)
(* eth_unsubscribe for each id to the node that is left.                   *)
MoveStart(m, n) ==
  /\ move_pc[m] = "idle" /\ sent < MaxSent
  /\ MovedTopics(n) # {}
  /\ sent' = sent + 1
  /\ pairs' = [pairs EXCEPT ![m] = MovedTopics(n)]
  /\ move_pc' = [move_pc EXCEPT ![m] = "waiting"]
  /\ UNCHANGED <<dataVars, userVars, late, topic, unwanted, move_pair, move_info, move_users,
                 history>>

(* A return, with an error but for the last pair: the subscriptions and    *)
(* the users that are left stay where they are.                            *)
MoveStops(m) ==
  /\ move_pc' = [move_pc EXCEPT ![m] = "idle"]
  /\ pairs' = [pairs EXCEPT ![m] = {}]
  /\ move_pair' = [move_pair EXCEPT ![m] = NoTopic]
  /\ move_info' = [move_info EXCEPT ![m] = NoInfo]
  /\ move_users' = [move_users EXCEPT ![m] = {}]
  /\ UNCHANGED <<dataVars, userVars, nodeVars, unwanted, history>>

(* A message without an id, which any notification is, or a lag.           *)
MoveInterrupted(m) == move_pc[m] = "waiting" /\ MoveStops(m)

(* An answer to one of the pairs, whatever it says.  Only the message id   *)
(* is compared, so it may be for the other task or an earlier move: with   *)
(* its own call sent too, some node may answer a pair at any time.         *)
MoveAnswered(m, p, n) ==
  /\ move_pc[m] = "waiting"
  /\ p \in pairs[m]
  /\ \/ /\ p \in DOMAIN incoming_subscriptions
        /\ move_pair' = [move_pair EXCEPT ![m] = p]
        /\ move_info' = [move_info EXCEPT ![m] = Info(n, incoming_subscriptions[p].subscription_id)]
        /\ move_pc' = [move_pc EXCEPT ![m] = "collect"]
        /\ UNCHANGED <<dataVars, userVars, nodeVars, unwanted, pairs, move_users, history>>
     \/ /\ p \notin DOMAIN incoming_subscriptions
        /\ MoveStops(m)

(* The users of the id it read, also of another node or topic.             *)
MoveCollect(m) ==
  LET found == UsersFor(move_info[m].subscription_id)
  IN  /\ move_pc[m] = "collect"
      /\ \/ /\ \E S \in found \ {{}} : move_users' = [move_users EXCEPT ![m] = S]
            /\ move_pc' = [move_pc EXCEPT ![m] = "unregister"]
            /\ UNCHANGED <<dataVars, userVars, nodeVars, unwanted, pairs, move_pair,
                           move_info, history>>
         \/ /\ found = {} \/ {} \in found
            /\ MoveStops(m)

(* The users are unsubscribed from the params instead of the id, which no  *)
(* subscription has; then the topic is unregistered.                       *)
MoveUnregister(m) ==
  /\ move_pc[m] = "unregister"
  /\ subscriptions' = UnsubscribeUser(move_users[m], move_pair[m])
  /\ incoming_subscriptions' = UnregisterSubscription(move_pair[m])
  /\ move_pc' = [move_pc EXCEPT ![m] = "register"]
  /\ UNCHANGED <<users, userVars, nodeVars, unwanted, pairs,
                 move_pair, move_info, move_users, history>>

(* The old id is registered at the new node.                               *)
MoveRegister(m) ==
  /\ move_pc[m] = "register"
  /\ incoming_subscriptions' = RawRegister(move_pair[m], move_info[m])
  /\ move_pc' = [move_pc EXCEPT ![m] = "subscribe"]
  /\ UNCHANGED <<users, subscriptions, userVars, nodeVars, unwanted, pairs,
                 move_pair, move_info, move_users, history>>

(* The other task may have unregistered the topic meanwhile: an error.     *)
MoveSubscribe(m, u) ==
  /\ move_pc[m] = "subscribe"
  /\ u \in move_users[m]
  /\ \/ /\ move_pair[m] \in DOMAIN incoming_subscriptions
        /\ RawSubscribe(u, move_pair[m])
        /\ move_users' = [move_users EXCEPT ![m] = @ \ {u}]
        /\ LET x == incoming_subscriptions[move_pair[m]].subscription_id
           IN  quit' = IF x = move_info[m].subscription_id THEN quit ELSE quit \ {<<u, x>>}
        /\ UNCHANGED <<users, incoming_subscriptions, userVars, nodeVars, unwanted,
                       move_pc, pairs, move_pair, move_info, wanted, missed, mixed>>
     \/ /\ move_pair[m] \notin DOMAIN incoming_subscriptions
        /\ MoveStops(m)

(* On to the next pair, if there is one.                                   *)
MovePairDone(m) ==
  /\ move_pc[m] = "subscribe"
  /\ move_users[m] = {}
  /\ \/ /\ pairs[m] # {move_pair[m]}
        /\ pairs' = [pairs EXCEPT ![m] = @ \ {move_pair[m]}]
        /\ move_pc' = [move_pc EXCEPT ![m] = "waiting"]
        /\ move_pair' = [move_pair EXCEPT ![m] = NoTopic]
        /\ move_info' = [move_info EXCEPT ![m] = NoInfo]
        /\ UNCHANGED <<dataVars, userVars, nodeVars, unwanted, move_users, history>>
     \/ /\ pairs[m] = {move_pair[m]}
        /\ MoveStops(m)

-----------------------------------------------------------------------------
Init ==
  /\ users = {} /\ subscriptions = <<>> /\ incoming_subscriptions = <<>>
  /\ pc = [u \in User |-> "new"]
  /\ call = [u \in User |-> NoCall]
  /\ sent = 0 /\ late = [u \in User |-> [c \in Call |-> 0]]
  /\ unwanted = NoInfo
  /\ move_pc = [m \in Mover |-> "idle"]
  /\ pairs = [m \in Mover |-> {}]
  /\ move_pair = [m \in Mover |-> NoTopic]
  /\ move_info = [m \in Mover |-> NoInfo]
  /\ move_users = [m \in Mover |-> {}]
  /\ topic = [x \in SubId |-> Free]
  /\ wanted = [u \in User |-> {}]
  /\ quit = {} /\ missed = {} /\ mixed = FALSE

Client(u) ==
  \/ AddUser(u) \/ ReadFails(u)
  \/ \E p \in Topic : SubscribeExisting(u, p)
  \/ \E x \in SubId : UnsubscribeCall(u, x)
  \/ \E c \in Call :
       \/ ForwardCall(u, c) \/ NoSubscription(u, c)
       \/ \E n \in Node, x \in SubId : RegisterSubscription(u, c, n, x)
  \/ SubscribeRegistered(u) \/ UserLags(u) \/ SendFails(u) \/ TaskEnds(u)

Dispatcher ==
  \/ GiveUp
  \/ \E i \in DOMAIN subscriptions : NoticeUnwanted(i)
  \/ \E u \in User : NoticeSend(u)

Move(m) ==
  \/ \E n \in Node : MoveStart(m, n) \/ \E p \in Topic : MoveAnswered(m, p, n)
  \/ MoveInterrupted(m) \/ MoveCollect(m) \/ MoveUnregister(m) \/ MoveRegister(m)
  \/ \E u \in User : MoveSubscribe(m, u)
  \/ MovePairDone(m)

Next == (\E u \in User : Client(u)) \/ Dispatcher \/ (\E m \in Mover : Move(m))

Spec == Init /\ [][Next]_vars

-----------------------------------------------------------------------------
(* The types of the variables.  That subscriptions are keyed by a node and *)
(* an id and registrations by a topic is what their lookups rest on.       *)
TypeOK ==
  /\ users \subseteq User
  /\ DOMAIN subscriptions \subseteq NodeSubInfo
  /\ \A i \in DOMAIN subscriptions : subscriptions[i] \subseteq User
  /\ DOMAIN incoming_subscriptions \subseteq Topic
  /\ \A p \in DOMAIN incoming_subscriptions : incoming_subscriptions[p] \in NodeSubInfo
  /\ pc \in [User -> {"new", "idle", "waiting", "registered", "ended"}]
  /\ call \in [User -> Call \cup {NoCall}]
  /\ sent \in 0..MaxSent /\ late \in [User -> [Call -> Nat]]
  /\ unwanted \in NodeSubInfo \cup {NoInfo}
  /\ move_pc \in [Mover -> {"idle", "waiting", "collect", "unregister", "register", "subscribe"}]
  /\ pairs \in [Mover -> SUBSET Topic]
  /\ move_pair \in [Mover -> Topic \cup {NoTopic}]
  /\ move_info \in [Mover -> NodeSubInfo \cup {NoInfo}]
  /\ move_users \in [Mover -> SUBSET User]
  /\ topic \in [SubId -> Topic \cup {Free}]
  /\ wanted \in [User -> SUBSET Topic]
  /\ quit \subseteq User \X SubId /\ missed \subseteq User
  /\ mixed \in BOOLEAN

(* Users are subscribed only to topics they asked for, however calls,      *)
(* moves and duplicate registrations interleave.  The exception, for good, *)
(* is that an id came to stand for two things: a late answer was taken for *)
(* that of another call, or nodes gave one id to two topics, which a move  *)
(* cannot tell apart.                                                      *)
OnlyAskedFor ==
  ~mixed =>
    \A i \in DOMAIN subscriptions : \A u \in subscriptions[i] :
      topic[i.subscription_id] \in wanted[u]

(* A user that unsubscribed, and was told so, is in no subscription with   *)
(* that id at any node, however often it was moved and whatever else has   *)
(* the id, until it subscribes again.  Moves subscribe without asking, but *)
(* they bring nobody back except in two races: the move had collected the  *)
(* user for this id when it unsubscribed, or had collected it for another  *)
(* id before the topic was registered under this one.                      *)
UnsubscribeSticks == \A r \in quit : ~HasUser(r[1], r[2])

(* A client whose task has ended is in no subscription, or the upstream    *)
(* subscription could never be given up.  The exceptions are one that a    *)
(* move had collected when it was removed, and one whose own call, still   *)
(* queued or waiting then, was carried out afterwards.                     *)
LeftUsersGone ==
  \A u \in User : pc[u] = "ended" /\ u \notin missed => \A x \in SubId : ~HasUser(u, x)

(* "If the subscription does not exist, return error" (types.rs:176): once *)
(* the dispatcher unsubscribes from a subscription upstream, no topic      *)
(* leads to it any more.                                                   *)
EndedIsForgotten ==
  [][GiveUp => \A p \in DOMAIN incoming_subscriptions' :
                 incoming_subscriptions'[p] # unwanted]_vars
=============================================================================
