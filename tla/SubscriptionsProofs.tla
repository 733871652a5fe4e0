-------------------------- MODULE SubscriptionsProofs --------------------------
(***************************************************************************)
(* The WebSocket subscriptions, for every set of clients, topics, nodes    *)
(* and ids, every number of tasks that move subscriptions at once and      *)
(* every number of calls and moves: users are subscribed to what they      *)
(* asked for and nothing else, and one that unsubscribed or left comes     *)
(* back only in the ways that are known.                                   *)
(***************************************************************************)
EXTENDS Subscriptions, TLAPS

-----------------------------------------------------------------------------
(* Types.                                                                  *)

(* The types of the variables, by who uses them.                           *)
DataOK ==
  /\ users \subseteq User
  /\ DOMAIN subscriptions \subseteq NodeSubInfo
  /\ \A i \in DOMAIN subscriptions : subscriptions[i] \subseteq User
  /\ DOMAIN incoming_subscriptions \subseteq Topic
  /\ \A p \in DOMAIN incoming_subscriptions : incoming_subscriptions[p] \in NodeSubInfo

UserOK ==
  /\ pc \in [User -> {"new", "idle", "waiting", "registered", "ended"}]
  /\ call \in [User -> Call \cup {NoCall}]

NodeOK ==
  /\ sent \in 0..MaxSent /\ late \in [User -> [Call -> Nat]]
  /\ topic \in [SubId -> Topic \cup {Free}]

DispOK == unwanted \in NodeSubInfo \cup {NoInfo}

MoveOK ==
  /\ move_pc \in [Mover -> {"idle", "waiting", "collect", "unregister", "register", "subscribe"}]
  /\ pairs \in [Mover -> SUBSET Topic]
  /\ move_pair \in [Mover -> Topic \cup {NoTopic}]
  /\ move_info \in [Mover -> NodeSubInfo \cup {NoInfo}]
  /\ move_users \in [Mover -> SUBSET User]

HistoryOK ==
  /\ wanted \in [User -> SUBSET Topic]
  /\ quit \subseteq User \X SubId /\ missed \subseteq User
  /\ mixed \in BOOLEAN

(* What the tasks hold between two steps: the call that is not answered,   *)
(* the topic that is being moved, and its users once they are collected.   *)
Calling(u) == pc[u] \in {"waiting", "registered"}

Moving(m) == move_pc[m] \in {"collect", "unregister", "register", "subscribe"}

CallsHeld ==
  \A u \in User : /\ Calling(u) => call[u] \in Call
                  /\ pc[u] = "registered" => call[u] \in Topic

MovesHeld ==
  \A m \in Mover : /\ Moving(m) => move_pair[m] \in Topic /\ move_info[m] \in NodeSubInfo
                   /\ move_pc[m] \in {"idle", "waiting", "collect"} => move_users[m] = {}

TypeInv ==
  /\ DataOK /\ UserOK /\ NodeOK /\ DispOK /\ MoveOK /\ HistoryOK
  /\ CallsHeld /\ MovesHeld

(* A node and an id.                                                       *)
LEMMA InfoType ==
  ASSUME NEW n \in Node, NEW x \in SubId
  PROVE  Info(n, x) \in NodeSubInfo /\ Info(n, x).subscription_id = x
  BY DEF Info, NodeSubInfo

LEMMA InfoFields ==
  ASSUME NEW i \in NodeSubInfo
  PROVE  i.subscription_id \in SubId /\ i.node_id \in Node
  BY DEF NodeSubInfo

(* What a topic is registered as, and that giving up a subscription, whose *)
(* id is no topic, unregisters nothing.                                    *)
LEMMA RegisterEffect ==
  ASSUME DataOK, NEW p \in Topic, NEW info \in NodeSubInfo
  PROVE  /\ DOMAIN RawRegister(p, info) = DOMAIN incoming_subscriptions \cup {p}
         /\ RawRegister(p, info)[p] = info
         /\ \A q \in DOMAIN incoming_subscriptions :
              q # p => RawRegister(p, info)[q] = incoming_subscriptions[q]
  BY DEF RawRegister, DataOK

LEMMA RegisterTypes ==
  ASSUME DataOK, NEW p \in Topic, NEW info \in NodeSubInfo, UNCHANGED <<users, subscriptions>>,
         incoming_subscriptions' = RawRegister(p, info)
  PROVE  DataOK'
  <1>1. DOMAIN incoming_subscriptions' = DOMAIN incoming_subscriptions \cup {p}
    BY RegisterEffect
  <1>2. ASSUME NEW q \in DOMAIN incoming_subscriptions' PROVE incoming_subscriptions'[q] \in NodeSubInfo
    <2>1. CASE q = p
      BY <2>1, RegisterEffect
    <2>2. CASE q # p
      <3>1. q \in DOMAIN incoming_subscriptions
        BY <1>1, <1>2, <2>2
      <3>2. incoming_subscriptions'[q] = incoming_subscriptions[q]
        BY <2>2, <3>1, RegisterEffect
      <3> QED BY <3>1, <3>2 DEF DataOK
    <2> QED BY <2>1, <2>2
  <1> QED BY <1>1, <1>2 DEF DataOK

LEMMA UnregisterEffect ==
  ASSUME DataOK, NEW k
  PROVE  /\ DOMAIN UnregisterSubscription(k) = DOMAIN incoming_subscriptions \ {k}
         /\ \A q \in DOMAIN incoming_subscriptions :
              q # k => UnregisterSubscription(k)[q] = incoming_subscriptions[q]
  BY DEF UnregisterSubscription

LEMMA GiveUpEffect ==
  ASSUME TypeInv, GiveUp
  PROVE  /\ DOMAIN incoming_subscriptions' = DOMAIN incoming_subscriptions
         /\ \A q \in DOMAIN incoming_subscriptions :
              incoming_subscriptions'[q] = incoming_subscriptions[q]
  <1>1. unwanted \in NodeSubInfo
    BY DEF GiveUp, TypeInv, DispOK
  <1>2. unwanted.subscription_id \notin Topic
    BY <1>1, InfoFields, SubscriptionsAssumption
  <1> QED BY <1>2, UnregisterEffect DEF GiveUp, TypeInv, DataOK

(* Who is subscribed after a user subscribes, unsubscribes or is removed.  *)
LEMMA SubscribedEffect ==
  ASSUME DataOK, NEW u \in User, NEW info \in NodeSubInfo,
         subscriptions' = Subscribed(u, info)
  PROVE  /\ DOMAIN subscriptions' = DOMAIN subscriptions \cup {info}
         /\ \A i \in DOMAIN subscriptions' : subscriptions'[i] \subseteq User
         /\ \A i \in DOMAIN subscriptions' : \A v \in subscriptions'[i] :
              (v = u /\ i = info) \/ (i \in DOMAIN subscriptions /\ v \in subscriptions[i])
         /\ u \in subscriptions'[info]
         /\ \A i \in DOMAIN subscriptions : subscriptions[i] \subseteq subscriptions'[i]
  BY DEF DataOK, Subscribed

LEMMA FewerEffect ==
  ASSUME DataOK, NEW S, NEW x,
         subscriptions' = Without(S) \/ subscriptions' = UnsubscribeUser(S, x)
  PROVE  /\ DOMAIN subscriptions' = DOMAIN subscriptions
         /\ \A i \in DOMAIN subscriptions : subscriptions'[i] \subseteq subscriptions[i]
  BY DEF Without, UnsubscribeUser

LEMMA RawSubscribeTypes ==
  ASSUME DataOK, NEW u \in User, NEW p \in DOMAIN incoming_subscriptions, RawSubscribe(u, p),
         UNCHANGED <<users, incoming_subscriptions>>
  PROVE  DataOK' /\ incoming_subscriptions[p].subscription_id \in SubId
  <1> DEFINE info == incoming_subscriptions[p]
  <1>1. info \in NodeSubInfo /\ info.subscription_id \in SubId
    BY InfoFields DEF DataOK
  <1>2. subscriptions' = Subscribed(u, info)
    BY DEF RawSubscribe
  <1> HIDE DEF info
  <1>3. /\ DOMAIN subscriptions' = DOMAIN subscriptions \cup {info}
        /\ \A i \in DOMAIN subscriptions' : subscriptions'[i] \subseteq User
    BY <1>1, <1>2, SubscribedEffect
  <1>4. DataOK'
    BY <1>1, <1>3 DEF DataOK
  <1> QED BY <1>1, <1>4 DEF info

(* A user that subscribes by itself.                                       *)
LEMMA SubscribeTypes ==
  ASSUME TypeInv, NEW u \in User, NEW p \in DOMAIN incoming_subscriptions,
         SubscribeUser(u, p), UNCHANGED <<users, incoming_subscriptions>>
  PROVE  DataOK' /\ quit' \subseteq User \X SubId /\ missed' \subseteq User
  <1>1. DataOK' /\ incoming_subscriptions[p].subscription_id \in SubId
    BY RawSubscribeTypes DEF SubscribeUser, TypeInv
  <1>2. quit' \subseteq quit /\ missed' \subseteq missed \cup {u}
    BY DEF SubscribeUser
  <1> QED BY <1>1, <1>2 DEF TypeInv, HistoryOK

(* Users that are removed.                                                 *)
LEMMA RemoveTypes ==
  ASSUME TypeInv, NEW S \in SUBSET User, RemoveUser(S), UNCHANGED incoming_subscriptions
  PROVE  DataOK' /\ quit' \subseteq User \X SubId /\ missed' \subseteq User
  <1>1. DataOK /\ HistoryOK
    BY DEF TypeInv
  <1>2. /\ DOMAIN subscriptions' = DOMAIN subscriptions
        /\ \A i \in DOMAIN subscriptions : subscriptions'[i] \subseteq subscriptions[i]
    BY <1>1, FewerEffect DEF RemoveUser
  <1>3. users' \subseteq users /\ quit' \subseteq quit /\ missed' \subseteq missed \cup S
    BY DEF RemoveUser
  <1>4. quit' \subseteq User \X SubId /\ missed' \subseteq User
    BY <1>1, <1>3 DEF HistoryOK
  <1>5. DataOK'
    BY <1>1, <1>2, <1>3 DEF DataOK
  <1> QED BY <1>4, <1>5

LEMMA InitTypes == Init => TypeInv
  <1> SUFFICES ASSUME Init PROVE TypeInv
    OBVIOUS
  <1>1. DataOK
    BY DEF Init, DataOK
  <1>2. UserOK /\ DispOK /\ HistoryOK
    BY DEF Init, UserOK, DispOK, HistoryOK
  <1>5. NodeOK
    <2>1. sent \in 0..MaxSent
      BY SubscriptionsAssumption DEF Init
    <2> QED BY <2>1 DEF Init, NodeOK
  <1>3. MoveOK
    BY DEF Init, MoveOK
  <1>4. CallsHeld /\ MovesHeld
    BY DEF Init, CallsHeld, MovesHeld, Moving, Calling
  <1> QED BY <1>1, <1>2, <1>3, <1>4, <1>5 DEF TypeInv

(* The parts that a step leaves alone.                                     *)
LEMMA KeptTypes ==
  ASSUME TypeInv
  PROVE  /\ UNCHANGED dataVars => DataOK'
         /\ UNCHANGED userVars => UserOK' /\ CallsHeld'
         /\ UNCHANGED nodeVars => NodeOK'
         /\ UNCHANGED unwanted => DispOK'
         /\ UNCHANGED moveVars => MoveOK' /\ MovesHeld'
         /\ UNCHANGED history => HistoryOK'
  <1>1. DataOK /\ UserOK /\ NodeOK /\ DispOK /\ MoveOK /\ HistoryOK /\ CallsHeld /\ MovesHeld
    BY DEF TypeInv
  <1>2. /\ UNCHANGED dataVars => DataOK'
        /\ UNCHANGED nodeVars => NodeOK'
        /\ UNCHANGED unwanted => DispOK'
        /\ UNCHANGED history => HistoryOK'
    BY <1>1 DEF DataOK, NodeOK, DispOK, HistoryOK, dataVars, nodeVars, history
  <1>3. UNCHANGED userVars => UserOK' /\ CallsHeld'
    BY <1>1 DEF UserOK, CallsHeld, Calling, userVars
  <1>4. UNCHANGED moveVars => MoveOK' /\ MovesHeld'
    BY <1>1 DEF MoveOK, MovesHeld, Moving, moveVars
  <1> QED BY <1>2, <1>3, <1>4

(* Where the task of a client goes after a call.                           *)
LEMMA ReplyTypes ==
  ASSUME TypeInv, NEW u \in User, Reply(u)
  PROVE  UserOK' /\ CallsHeld'
  <1>1. UserOK /\ CallsHeld
    BY DEF TypeInv
  <1>2. UserOK'
    BY <1>1 DEF Reply, UserOK
  <1>3. ASSUME NEW v \in User PROVE (Calling(v) => call[v] \in Call)' /\ (pc[v] = "registered" => call[v] \in Topic)'
    BY <1>1 DEF Reply, UserOK, CallsHeld, Calling
  <1> QED BY <1>2, <1>3 DEF CallsHeld

LEMMA PcTypes ==
  ASSUME TypeInv, NEW u \in User, NEW a \in {"idle", "ended"}, pc' = [pc EXCEPT ![u] = a],
         UNCHANGED call
  PROVE  UserOK' /\ CallsHeld'
  BY DEF TypeInv, UserOK, CallsHeld, Calling

(* The answers that are still to come.                                     *)
LEMMA AnsweredTypes ==
  ASSUME TypeInv, NEW u \in User, NEW c \in Call, Answered(u, c)
  PROVE  sent' \in 0..MaxSent /\ late' \in [User -> [Call -> Nat]]
  <1>1. call[u] \in Call /\ late \in [User -> [Call -> Nat]] /\ sent \in 0..MaxSent
    BY DEF TypeInv, CallsHeld, Calling, Answered, NodeOK
  <1>2. CASE UNCHANGED late
    BY <1>1, <1>2 DEF Answered
  <1>3. CASE ~UNCHANGED late
    <2>1. late[u][c] > 0 /\ c # call[u] /\ UNCHANGED sent
      BY <1>3 DEF Answered
    <2>2. late' = [late EXCEPT ![u][c] = @ - 1, ![u][call[u]] = @ + 1]
      BY <1>3 DEF Answered
    <2>3. late[u][c] - 1 \in Nat
      BY <1>1, <2>1
    <2> QED BY <1>1, <2>1, <2>2, <2>3
  <1> QED BY <1>2, <1>3

LEMMA ClientTypes ==
  ASSUME TypeInv, NEW u \in User, Client(u)
  PROVE  TypeInv'
  <1>0. DataOK /\ UserOK /\ NodeOK /\ DispOK /\ MoveOK /\ HistoryOK /\ CallsHeld /\ MovesHeld
    BY DEF TypeInv
  <1>m. DispOK' /\ MoveOK' /\ MovesHeld'
    BY KeptTypes DEF Client, AddUser, ReadFails, SubscribeExisting, UnsubscribeCall, ForwardCall,
         NoSubscription, RegisterSubscription, SubscribeRegistered, UserLags, SendFails, TaskEnds
  <1>1. CASE AddUser(u)
    <2>1. DataOK'
      BY <1>0, <1>1 DEF AddUser, DataOK
    <2>2. pc' = [pc EXCEPT ![u] = "idle"] /\ UNCHANGED <<call, nodeVars, history>>
      BY <1>1 DEF AddUser
    <2> QED BY <1>m, <2>1, <2>2, PcTypes, KeptTypes DEF TypeInv
  <1>2. CASE ReadFails(u)
    <2>1. RemoveUser({u}) /\ UNCHANGED <<incoming_subscriptions, userVars, nodeVars, wanted, mixed>>
      BY <1>2 DEF ReadFails, userVars
    <2>2. DataOK' /\ HistoryOK'
      BY <1>0, <2>1, RemoveTypes DEF HistoryOK
    <2> QED BY <1>m, <2>1, <2>2, KeptTypes DEF TypeInv
  <1>3. CASE SendFails(u)
    <2>1. /\ RemoveUser({u}) /\ UNCHANGED <<incoming_subscriptions, call, nodeVars, wanted, mixed>>
          /\ pc' = [pc EXCEPT ![u] = "ended"]
      BY <1>3 DEF SendFails
    <2>2. DataOK' /\ HistoryOK'
      BY <1>0, <2>1, RemoveTypes DEF HistoryOK
    <2> QED BY <1>m, <2>1, <2>2, PcTypes, KeptTypes DEF TypeInv
  <1>4. CASE TaskEnds(u)
    BY <1>m, <1>4, PcTypes, KeptTypes DEF TaskEnds, TypeInv
  <1>5. ASSUME NEW p \in Topic, SubscribeExisting(u, p) PROVE TypeInv'
    <2>1. /\ p \in DOMAIN incoming_subscriptions /\ SubscribeUser(u, p) /\ Reply(u)
          /\ wanted' = [wanted EXCEPT ![u] = @ \cup {p}]
          /\ UNCHANGED <<users, incoming_subscriptions, nodeVars, mixed>>
      BY <1>5 DEF SubscribeExisting
    <2>2. DataOK' /\ HistoryOK'
      BY <1>0, <2>1, SubscribeTypes DEF HistoryOK
    <2> QED BY <1>m, <2>1, <2>2, ReplyTypes, KeptTypes DEF TypeInv
  <1>6. ASSUME NEW x \in SubId, UnsubscribeCall(u, x) PROVE TypeInv'
    <2>1. /\ UNCHANGED <<users, incoming_subscriptions, nodeVars, wanted, missed, mixed>>
          /\ subscriptions' = UnsubscribeUser({u}, x) \/ UNCHANGED subscriptions
          /\ quit' \subseteq quit \cup {<<u, x>>} /\ Reply(u)
      BY <1>6 DEF UnsubscribeCall
    <2>2. DataOK'
      BY <1>0, <2>1, FewerEffect DEF DataOK
    <2>3. HistoryOK'
      BY <1>0, <2>1 DEF HistoryOK
    <2> QED BY <1>m, <2>1, <2>2, <2>3, ReplyTypes, KeptTypes DEF TypeInv
  <1>7. ASSUME NEW c \in Call, ForwardCall(u, c) PROVE TypeInv'
    <2>1. /\ UNCHANGED <<dataVars, late, topic, quit, missed, mixed>>
          /\ sent < MaxSent /\ sent' = sent + 1
          /\ call' = [call EXCEPT ![u] = c] /\ pc' = [pc EXCEPT ![u] = "waiting"]
          /\ wanted' = [wanted EXCEPT ![u] = @ \cup ({c} \cap Topic)]
      BY <1>7 DEF ForwardCall
    <2>2. sent' \in 0..MaxSent
      BY <1>0, <2>1, SubscriptionsAssumption DEF NodeOK
    <2>3. NodeOK' /\ HistoryOK'
      BY <1>0, <2>1, <2>2 DEF NodeOK, HistoryOK
    <2>4. UserOK' /\ CallsHeld'
      BY <1>0, <2>1 DEF UserOK, CallsHeld, Calling
    <2> QED BY <1>m, <2>1, <2>3, <2>4, KeptTypes DEF TypeInv
  <1>8. ASSUME NEW c \in Call, NoSubscription(u, c) PROVE TypeInv'
    <2>1. Answered(u, c) /\ Reply(u) /\ UNCHANGED <<dataVars, topic, history>>
      BY <1>8 DEF NoSubscription
    <2>2. NodeOK'
      BY <1>0, <2>1, AnsweredTypes DEF NodeOK
    <2> QED BY <1>m, <2>1, <2>2, ReplyTypes, KeptTypes DEF TypeInv
  <1>9. ASSUME NEW c \in Call, NEW n \in Node, NEW x \in SubId, RegisterSubscription(u, c, n, x)
        PROVE  TypeInv'
    <2>1. /\ Answered(u, c) /\ call[u] \in Topic /\ Info(n, x) \in NodeSubInfo
          /\ incoming_subscriptions' = RawRegister(call[u], Info(n, x))
          /\ topic' = [topic EXCEPT ![x] = IF @ = Free THEN call[u] ELSE @]
          /\ pc' = [pc EXCEPT ![u] = "registered"]
          /\ UNCHANGED <<users, subscriptions, call, wanted, quit, missed>>
      BY <1>9, InfoType DEF RegisterSubscription
    <2>2. mixed' \in BOOLEAN
      BY <1>9 DEF RegisterSubscription
    <2>3. DataOK'
      BY <1>0, <2>1, RegisterTypes
    <2>4. topic' \in [SubId -> Topic \cup {Free}]
      BY <1>0, <2>1 DEF NodeOK
    <2>5. NodeOK' /\ HistoryOK'
      BY <1>0, <2>1, <2>2, <2>4, AnsweredTypes DEF NodeOK, HistoryOK
    <2>6. UserOK' /\ CallsHeld'
      BY <1>0, <2>1 DEF UserOK, CallsHeld, Calling, Call
    <2> QED BY <1>m, <2>3, <2>5, <2>6 DEF TypeInv
  <1>10. CASE SubscribeRegistered(u)
    <2>1. /\ Reply(u) /\ UNCHANGED <<users, incoming_subscriptions, nodeVars, wanted, mixed>>
          /\ \/ call[u] \in DOMAIN incoming_subscriptions /\ SubscribeUser(u, call[u])
             \/ UNCHANGED <<subscriptions, quit, missed>>
      BY <1>10 DEF SubscribeRegistered
    <2>2. DataOK' /\ HistoryOK'
      <3>1. CASE call[u] \in DOMAIN incoming_subscriptions /\ SubscribeUser(u, call[u])
        BY <1>0, <2>1, <3>1, SubscribeTypes DEF HistoryOK
      <3>2. CASE UNCHANGED <<subscriptions, quit, missed>>
        BY <1>0, <2>1, <3>2 DEF DataOK, HistoryOK
      <3> QED BY <2>1, <3>1, <3>2
    <2> QED BY <1>m, <2>1, <2>2, ReplyTypes, KeptTypes DEF TypeInv
  <1>11. CASE UserLags(u)
    <2>1. /\ pc[u] = "waiting" /\ late' = [late EXCEPT ![u][call[u]] = @ + 1]
          /\ Reply(u) /\ UNCHANGED <<dataVars, sent, topic, history>>
      BY <1>11 DEF UserLags
    <2>2. NodeOK'
      BY <1>0, <2>1 DEF NodeOK, CallsHeld, Calling
    <2> QED BY <1>m, <2>1, <2>2, ReplyTypes, KeptTypes DEF TypeInv
  <1> QED
    BY <1>1, <1>2, <1>3, <1>4, <1>5, <1>6, <1>7, <1>8, <1>9, <1>10, <1>11 DEF Client

LEMMA DispatcherTypes ==
  ASSUME TypeInv, Dispatcher
  PROVE  TypeInv'
  <1>0. DataOK /\ UserOK /\ NodeOK /\ DispOK /\ MoveOK /\ HistoryOK /\ CallsHeld /\ MovesHeld
    BY DEF TypeInv
  <1>1. UserOK' /\ NodeOK' /\ MoveOK' /\ CallsHeld' /\ MovesHeld'
    BY KeptTypes DEF Dispatcher, GiveUp, NoticeUnwanted, NoticeSend
  <1>2. CASE GiveUp
    <2>1. /\ DOMAIN incoming_subscriptions' = DOMAIN incoming_subscriptions
          /\ \A q \in DOMAIN incoming_subscriptions :
               incoming_subscriptions'[q] = incoming_subscriptions[q]
      BY <1>2, GiveUpEffect
    <2>2. DataOK' /\ DispOK'
      BY <1>0, <1>2, <2>1 DEF GiveUp, DataOK, DispOK
    <2> QED BY <1>1, <1>2, <2>2, KeptTypes DEF GiveUp, TypeInv
  <1>3. ASSUME NEW i \in DOMAIN subscriptions, NoticeUnwanted(i) PROVE TypeInv'
    <2>1. DispOK' /\ UNCHANGED <<dataVars, history>>
      BY <1>0, <1>3 DEF NoticeUnwanted, DispOK, DataOK
    <2> QED BY <1>1, <2>1, KeptTypes DEF TypeInv
  <1>4. ASSUME NEW u \in User, NoticeSend(u) PROVE TypeInv'
    <2>1. RemoveUser({u}) /\ UNCHANGED <<incoming_subscriptions, unwanted, wanted, mixed>>
      BY <1>4 DEF NoticeSend
    <2>2. DataOK' /\ HistoryOK'
      BY <1>0, <2>1, RemoveTypes DEF HistoryOK
    <2> QED BY <1>1, <2>1, <2>2, KeptTypes DEF TypeInv
  <1> QED BY <1>2, <1>3, <1>4 DEF Dispatcher

(* The end of a move.                                                      *)
LEMMA StopsTypes ==
  ASSUME TypeInv, NEW m \in Mover, MoveStops(m)
  PROVE  TypeInv'
  <1>0. MoveOK /\ MovesHeld
    BY DEF TypeInv
  <1>1. UNCHANGED <<dataVars, userVars, nodeVars, unwanted, history>>
    BY DEF MoveStops
  <1>2. /\ move_pc' = [move_pc EXCEPT ![m] = "idle"] /\ pairs' = [pairs EXCEPT ![m] = {}]
        /\ move_pair' = [move_pair EXCEPT ![m] = NoTopic]
        /\ move_info' = [move_info EXCEPT ![m] = NoInfo]
        /\ move_users' = [move_users EXCEPT ![m] = {}]
    BY DEF MoveStops
  <1>3. MoveOK'
    BY <1>0, <1>2 DEF MoveOK
  <1>4. MovesHeld'
    BY <1>0, <1>2 DEF MoveOK, MovesHeld, Moving
  <1> QED BY <1>1, <1>3, <1>4, KeptTypes DEF TypeInv

LEMMA MoveTypes ==
  ASSUME TypeInv, NEW m \in Mover, Move(m)
  PROVE  TypeInv'
  <1>0. DataOK /\ UserOK /\ NodeOK /\ DispOK /\ MoveOK /\ HistoryOK /\ CallsHeld /\ MovesHeld
    BY DEF TypeInv
  <1>1. ASSUME NEW n \in Node, MoveStart(m, n) PROVE TypeInv'
    <2>1. /\ move_pc[m] = "idle" /\ sent < MaxSent /\ sent' = sent + 1
          /\ pairs' = [pairs EXCEPT ![m] = MovedTopics(n)]
          /\ move_pc' = [move_pc EXCEPT ![m] = "waiting"]
          /\ UNCHANGED <<dataVars, userVars, late, topic, unwanted, move_pair, move_info, move_users,
                         history>>
      BY <1>1 DEF MoveStart
    <2>2. MovedTopics(n) \subseteq Topic
      BY SubscriptionsAssumption DEF MovedTopics
    <2>3. sent' \in 0..MaxSent
      BY <1>0, <2>1, SubscriptionsAssumption DEF NodeOK
    <2>4. NodeOK' /\ MoveOK'
      BY <1>0, <2>1, <2>2, <2>3 DEF NodeOK, MoveOK
    <2>5. MovesHeld'
      BY <1>0, <2>1 DEF MoveOK, MovesHeld, Moving
    <2> QED BY <2>1, <2>4, <2>5, KeptTypes DEF TypeInv
  <1>2. CASE MoveStops(m)
    BY <1>2, StopsTypes
  <1>3. ASSUME NEW p \in Topic, NEW n \in Node, MoveAnswered(m, p, n) PROVE TypeInv'
    <2> DEFINE info == Info(n, incoming_subscriptions[p].subscription_id)
    <2>1. CASE /\ move_pc[m] = "waiting" /\ p \in DOMAIN incoming_subscriptions
               /\ move_pair' = [move_pair EXCEPT ![m] = p]
               /\ move_info' = [move_info EXCEPT ![m] = info]
               /\ move_pc' = [move_pc EXCEPT ![m] = "collect"]
               /\ UNCHANGED <<dataVars, userVars, nodeVars, unwanted, pairs, move_users, history>>
      <3>1. info \in NodeSubInfo
        BY <1>0, <2>1, InfoFields, InfoType DEF DataOK
      <3> HIDE DEF info
      <3>2. MoveOK'
        BY <1>0, <2>1, <3>1 DEF MoveOK
      <3>3. MovesHeld'
        BY <1>0, <2>1, <3>1 DEF MoveOK, MovesHeld, Moving
      <3> QED BY <2>1, <3>2, <3>3, KeptTypes DEF TypeInv
    <2> QED BY <1>2, <1>3, <2>1 DEF MoveAnswered
  <1>4. CASE MoveCollect(m)
    <2>1. ASSUME NEW S \in UsersFor(move_info[m].subscription_id), move_pc[m] = "collect",
                 move_users' = [move_users EXCEPT ![m] = S],
                 move_pc' = [move_pc EXCEPT ![m] = "unregister"],
                 UNCHANGED <<dataVars, userVars, nodeVars, unwanted, pairs, move_pair, move_info,
                             history>>
          PROVE  TypeInv'
      <3>1. S \subseteq User
        BY <1>0, <2>1 DEF UsersFor, DataOK
      <3>2. MoveOK'
        BY <1>0, <2>1, <3>1 DEF MoveOK
      <3>3. MovesHeld'
        BY <1>0, <2>1 DEF MoveOK, MovesHeld, Moving
      <3> QED BY <2>1, <3>2, <3>3, KeptTypes DEF TypeInv
    <2> QED BY <1>2, <1>4, <2>1 DEF MoveCollect
  <1>5. CASE MoveUnregister(m)
    <2>1. /\ move_pc[m] = "unregister" /\ move_pc' = [move_pc EXCEPT ![m] = "register"]
          /\ subscriptions' = UnsubscribeUser(move_users[m], move_pair[m])
          /\ incoming_subscriptions' = UnregisterSubscription(move_pair[m])
          /\ UNCHANGED <<users, userVars, nodeVars, unwanted, pairs, move_pair, move_info, move_users,
                         history>>
      BY <1>5 DEF MoveUnregister
    <2>2. DataOK'
      BY <1>0, <2>1, FewerEffect, UnregisterEffect DEF DataOK
    <2>3. MoveOK' /\ MovesHeld'
      BY <1>0, <2>1 DEF MoveOK, MovesHeld, Moving
    <2> QED BY <2>1, <2>2, <2>3, KeptTypes DEF TypeInv
  <1>6. CASE MoveRegister(m)
    <2>1. /\ move_pc[m] = "register" /\ move_pc' = [move_pc EXCEPT ![m] = "subscribe"]
          /\ incoming_subscriptions' = RawRegister(move_pair[m], move_info[m])
          /\ UNCHANGED <<users, subscriptions, userVars, nodeVars, unwanted, pairs, move_pair,
                         move_info, move_users, history>>
      BY <1>6 DEF MoveRegister
    <2>2. DataOK'
      BY <1>0, <2>1, RegisterTypes DEF MovesHeld, Moving
    <2>3. MoveOK' /\ MovesHeld'
      BY <1>0, <2>1 DEF MoveOK, MovesHeld, Moving
    <2> QED BY <2>1, <2>2, <2>3, KeptTypes DEF TypeInv
  <1>7. ASSUME NEW u \in User, MoveSubscribe(m, u) PROVE TypeInv'
    <2>1. CASE /\ move_pc[m] = "subscribe" /\ move_pair[m] \in DOMAIN incoming_subscriptions
               /\ RawSubscribe(u, move_pair[m])
               /\ move_users' = [move_users EXCEPT ![m] = @ \ {u}] /\ quit' \subseteq quit
               /\ UNCHANGED <<users, incoming_subscriptions, userVars, nodeVars, unwanted, move_pc,
                              pairs, move_pair, move_info, wanted, missed, mixed>>
      <3>1. DataOK'
        BY <1>0, <2>1, RawSubscribeTypes
      <3>2. MoveOK' /\ HistoryOK'
        BY <1>0, <2>1 DEF MoveOK, HistoryOK
      <3>3. MovesHeld'
        BY <1>0, <2>1 DEF MoveOK, MovesHeld, Moving
      <3> QED BY <2>1, <3>1, <3>2, <3>3, KeptTypes DEF TypeInv
    <2> QED BY <1>2, <1>7, <2>1 DEF MoveSubscribe
  <1>8. CASE MovePairDone(m)
    <2>1. CASE /\ move_users[m] = {}
               /\ pairs' = [pairs EXCEPT ![m] = @ \ {move_pair[m]}]
               /\ move_pc' = [move_pc EXCEPT ![m] = "waiting"]
               /\ move_pair' = [move_pair EXCEPT ![m] = NoTopic]
               /\ move_info' = [move_info EXCEPT ![m] = NoInfo]
               /\ UNCHANGED <<dataVars, userVars, nodeVars, unwanted, move_users, history>>
      <3>1. MoveOK'
        BY <1>0, <2>1 DEF MoveOK
      <3>2. MovesHeld'
        BY <1>0, <2>1 DEF MoveOK, MovesHeld, Moving
      <3> QED BY <2>1, <3>1, <3>2, KeptTypes DEF TypeInv
    <2> QED BY <1>2, <1>8, <2>1 DEF MovePairDone
  <1> QED
    BY <1>1, <1>2, <1>3, <1>4, <1>5, <1>6, <1>7, <1>8 DEF Move, MoveInterrupted

LEMMA NextTypes == TypeInv /\ [Next]_vars => TypeInv'
<1> SUFFICES ASSUME TypeInv, [Next]_vars PROVE TypeInv'
  OBVIOUS
<1>1. CASE UNCHANGED vars
  BY <1>1, KeptTypes DEF vars, TypeInv
<1> QED BY <1>1, ClientTypes, DispatcherTypes, MoveTypes DEF Next

(* TypeOK, however calls and moves interleave: subscriptions are kept by   *)
(* node and id, registrations by topic, and a move in either task holds a  *)
(* topic, a subscription and users.                                        *)
THEOREM SubscriptionsTypeCorrect == Spec => []TypeOK
  <1>1. TypeInv => TypeOK
    BY DEF TypeInv, DataOK, UserOK, NodeOK, DispOK, MoveOK, HistoryOK, TypeOK
  <1> QED BY <1>1, InitTypes, NextTypes, PTL DEF Spec

-----------------------------------------------------------------------------
(* Who is in a subscription with an id, at any node.                       *)

LEMMA HasUserAdded ==
  ASSUME DataOK, NEW u \in User, NEW info \in NodeSubInfo,
         subscriptions' = Subscribed(u, info)
  PROVE  \A v, x : HasUser(v, x)' <=> HasUser(v, x) \/ (v = u /\ x = info.subscription_id)
  <1> SUFFICES ASSUME NEW v, NEW x
               PROVE  HasUser(v, x)' <=> HasUser(v, x) \/ (v = u /\ x = info.subscription_id)
    OBVIOUS
  <1>1. /\ DOMAIN subscriptions' = DOMAIN subscriptions \cup {info}
        /\ \A i \in DOMAIN subscriptions' : \A w \in subscriptions'[i] :
             (w = u /\ i = info) \/ (i \in DOMAIN subscriptions /\ w \in subscriptions[i])
        /\ u \in subscriptions'[info]
        /\ \A i \in DOMAIN subscriptions : subscriptions[i] \subseteq subscriptions'[i]
    BY SubscribedEffect
  <1> QED BY <1>1 DEF HasUser

LEMMA HasUserRemoved ==
  ASSUME NEW S, subscriptions' = Without(S)
  PROVE  \A v, x : HasUser(v, x)' <=> HasUser(v, x) /\ v \notin S
  BY DEF Without, HasUser

LEMMA HasUserUnsubscribed ==
  ASSUME NEW S, NEW y, subscriptions' = UnsubscribeUser(S, y)
  PROVE  \A v, x : HasUser(v, x)' <=> HasUser(v, x) /\ ~(x = y /\ v \in S)
  BY DEF UnsubscribeUser, HasUser

LEMMA HasUserKept ==
  ASSUME UNCHANGED subscriptions
  PROVE  \A v, x : HasUser(v, x)' <=> HasUser(v, x)
  BY DEF HasUser

(* Every step is of one of these kinds: somebody subscribes by itself, is  *)
(* subscribed by a move that collected it, unsubscribes, is removed or is  *)
(* collected, or nobody comes and no move holds anybody new.               *)
Added(u, x) ==
  \A v, y : HasUser(v, y)' <=> HasUser(v, y) \/ (v = u /\ y = x)

Subscribes(u, x) ==
  /\ Added(u, x)
  /\ quit' = quit \ {<<u, x>>}
  /\ missed' = IF u \in users THEN missed ELSE missed \cup {u}
  /\ UNCHANGED <<users, move_info, move_users>>

IsMoved(u, m, x) ==
  /\ Added(u, x)
  /\ u \in move_users[m] /\ \A k \in Mover : move_users'[k] \subseteq move_users[k]
  /\ quit' = IF x = move_info[m].subscription_id THEN quit ELSE quit \ {<<u, x>>}
  /\ UNCHANGED <<users, move_info, missed>>

Unsubscribes(u, x) ==
  /\ \A v, y : HasUser(v, y)' <=> HasUser(v, y) /\ ~(v = u /\ y = x)
  /\ quit' \subseteq quit \cup {r \in {<<u, x>>} : ~Collected(u, x)}
  /\ UNCHANGED <<users, missed, move_info, move_users>>

Removed(S) ==
  /\ \A v, y : HasUser(v, y)' <=> HasUser(v, y) /\ v \notin S
  /\ users' = users \ S
  /\ quit' \subseteq quit
  /\ missed' = (missed \ S) \cup {u \in S : \E m \in Mover : u \in move_users[m]}
  /\ UNCHANGED <<move_info, move_users>>

Collects(m) ==
  /\ \A v, y : HasUser(v, y)' <=> HasUser(v, y)
  /\ \A u \in move_users'[m] : HasUser(u, move_info[m].subscription_id)
  /\ \A k \in Mover \ {m} : move_users'[k] = move_users[k]
  /\ UNCHANGED <<users, quit, missed, move_info>>

NobodyComes ==
  /\ \A v, y : HasUser(v, y)' => HasUser(v, y)
  /\ users \subseteq users'
  /\ \A m \in Mover : move_users'[m] = {} \/ UNCHANGED <<move_users[m], move_info[m]>>
  /\ UNCHANGED <<quit, missed>>

SomeKind ==
  \/ \E u \in User, x \in SubId : Subscribes(u, x) \/ Unsubscribes(u, x)
  \/ \E u \in User, m \in Mover, x \in SubId : IsMoved(u, m, x)
  \/ \E S : Removed(S)
  \/ \E m \in Mover : Collects(m)
  \/ NobodyComes

LEMMA RemoveKind ==
  ASSUME NEW S, RemoveUser(S), UNCHANGED <<move_info, move_users>>
  PROVE  SomeKind
  <1>1. Removed(S)
    BY HasUserRemoved DEF RemoveUser, Removed
  <1> QED BY <1>1 DEF SomeKind

LEMMA KeptKind ==
  ASSUME UNCHANGED <<subscriptions, quit, missed, move_info, move_users>>, users \subseteq users'
  PROVE  SomeKind
  BY HasUserKept DEF NobodyComes, SomeKind

LEMMA AddedKind ==
  ASSUME TypeInv, NEW u \in User, NEW p \in DOMAIN incoming_subscriptions, RawSubscribe(u, p)
  PROVE  /\ incoming_subscriptions[p].subscription_id \in SubId
         /\ Added(u, incoming_subscriptions[p].subscription_id)
  <1> DEFINE info == incoming_subscriptions[p]
  <1>1. info \in NodeSubInfo /\ info.subscription_id \in SubId
    BY InfoFields DEF TypeInv, DataOK
  <1>2. subscriptions' = Subscribed(u, info)
    BY DEF RawSubscribe
  <1> HIDE DEF info
  <1>3. Added(u, info.subscription_id)
    BY <1>1, <1>2, HasUserAdded DEF Added, TypeInv
  <1> QED BY <1>1, <1>3 DEF info

LEMMA SubscribeKind ==
  ASSUME TypeInv, NEW u \in User, NEW p \in DOMAIN incoming_subscriptions,
         SubscribeUser(u, p), UNCHANGED <<users, move_info, move_users>>
  PROVE  SomeKind
  <1> DEFINE x == incoming_subscriptions[p].subscription_id
  <1>1. x \in SubId /\ Added(u, x)
    BY AddedKind DEF SubscribeUser
  <1>2. /\ quit' = quit \ {<<u, x>>}
        /\ missed' = IF u \in users THEN missed ELSE missed \cup {u}
    BY DEF SubscribeUser
  <1> HIDE DEF x
  <1>3. Subscribes(u, x)
    BY <1>1, <1>2 DEF Subscribes
  <1> QED BY <1>1, <1>3 DEF SomeKind

LEMMA StopsKind ==
  ASSUME TypeInv, NEW m \in Mover, MoveStops(m)
  PROVE  SomeKind
  <1>1. UNCHANGED <<users, subscriptions, quit, missed>>
    BY DEF MoveStops, dataVars, history
  <1>2. \A k \in Mover : move_users'[k] = {} \/ UNCHANGED <<move_users[k], move_info[k]>>
    BY DEF MoveStops, TypeInv, MoveOK
  <1>3. NobodyComes
    BY <1>1, <1>2, HasUserKept DEF NobodyComes
  <1> QED BY <1>3 DEF SomeKind

LEMMA MoveKinds ==
  ASSUME TypeInv, NEW m \in Mover, Move(m)
  PROVE  SomeKind
  <1>1. CASE MoveStops(m)
    BY <1>1, StopsKind
  <1>2. CASE MoveRegister(m) \/ \E n \in Node : MoveStart(m, n)
    BY <1>2, KeptKind DEF MoveRegister, MoveStart, dataVars, history
  <1>3. ASSUME NEW p \in Topic, NEW n \in Node, MoveAnswered(m, p, n) PROVE SomeKind
    <2>1. CASE /\ move_pc[m] = "waiting" /\ UNCHANGED <<dataVars, move_users, history>>
               /\ move_info' = [move_info EXCEPT ![m] = Info(n, incoming_subscriptions[p].subscription_id)]
      <3>1. move_users[m] = {} /\ move_users'[m] = {}
        BY <2>1 DEF TypeInv, MovesHeld
      <3>2. \A k \in Mover : move_users'[k] = {} \/ UNCHANGED <<move_users[k], move_info[k]>>
        BY <2>1, <3>1 DEF TypeInv, MoveOK
      <3>3. NobodyComes
        BY <2>1, <3>2, HasUserKept DEF NobodyComes, dataVars, history
      <3> QED BY <3>3 DEF SomeKind
    <2> QED BY <1>1, <1>3, <2>1 DEF MoveAnswered
  <1>4. CASE MoveCollect(m)
    <2>1. ASSUME NEW S \in UsersFor(move_info[m].subscription_id),
                 move_users' = [move_users EXCEPT ![m] = S],
                 UNCHANGED <<dataVars, move_info, history>>
          PROVE  SomeKind
      <3>1. \A u \in move_users'[m] : HasUser(u, move_info[m].subscription_id)
        BY <2>1 DEF UsersFor, HasUser, TypeInv, MoveOK
      <3>2. \A k \in Mover \ {m} : move_users'[k] = move_users[k]
        BY <2>1 DEF TypeInv, MoveOK
      <3>3. Collects(m)
        BY <2>1, <3>1, <3>2, HasUserKept DEF Collects, dataVars, history
      <3> QED BY <3>3 DEF SomeKind
    <2> QED BY <1>1, <1>4, <2>1 DEF MoveCollect
  <1>5. CASE MoveUnregister(m)
    <2>1. \A v, y : HasUser(v, y)' => HasUser(v, y)
      BY <1>5, HasUserUnsubscribed DEF MoveUnregister
    <2>2. NobodyComes
      BY <1>5, <2>1 DEF MoveUnregister, history, NobodyComes
    <2> QED BY <2>2 DEF SomeKind
  <1>6. ASSUME NEW u \in User, MoveSubscribe(m, u) PROVE SomeKind
    <2> DEFINE x == incoming_subscriptions[move_pair[m]].subscription_id
    <2>1. CASE /\ u \in move_users[m] /\ move_pair[m] \in DOMAIN incoming_subscriptions
               /\ RawSubscribe(u, move_pair[m])
               /\ move_users' = [move_users EXCEPT ![m] = @ \ {u}]
               /\ quit' = IF x = move_info[m].subscription_id THEN quit ELSE quit \ {<<u, x>>}
               /\ UNCHANGED <<users, move_info, missed>>
      <3>1. x \in SubId /\ Added(u, x)
        BY <2>1, AddedKind
      <3> HIDE DEF x
      <3>2. \A k \in Mover : move_users'[k] \subseteq move_users[k]
        BY <2>1 DEF TypeInv, MoveOK
      <3>3. IsMoved(u, m, x)
        BY <2>1, <3>1, <3>2 DEF IsMoved
      <3> QED BY <3>1, <3>3 DEF SomeKind
    <2> QED BY <1>1, <1>6, <2>1 DEF MoveSubscribe
  <1>7. CASE MovePairDone(m)
    <2>1. CASE /\ move_users[m] = {} /\ UNCHANGED <<dataVars, move_users, history>>
               /\ move_info' = [move_info EXCEPT ![m] = NoInfo]
      <3>1. \A k \in Mover : move_users'[k] = {} \/ UNCHANGED <<move_users[k], move_info[k]>>
        BY <2>1 DEF TypeInv, MoveOK
      <3>2. NobodyComes
        BY <2>1, <3>1, HasUserKept DEF NobodyComes, dataVars, history
      <3> QED BY <3>2 DEF SomeKind
    <2> QED BY <1>1, <1>7, <2>1 DEF MovePairDone
  <1> QED BY <1>1, <1>2, <1>3, <1>4, <1>5, <1>6, <1>7 DEF Move, MoveInterrupted

LEMMA NextKinds ==
  ASSUME TypeInv, [Next]_vars
  PROVE  SomeKind
  <1>1. ASSUME NEW u \in User, Client(u) PROVE SomeKind
    <2>0. UNCHANGED <<move_info, move_users>>
      BY <1>1 DEF Client, AddUser, ReadFails, SubscribeExisting, UnsubscribeCall, ForwardCall,
           NoSubscription, RegisterSubscription, SubscribeRegistered, UserLags, SendFails, TaskEnds,
           moveVars
    <2>1. CASE AddUser(u)
      BY <2>0, <2>1, KeptKind DEF AddUser, history
    <2>2. CASE \/ UserLags(u) \/ TaskEnds(u)
               \/ \E c \in Call : \/ ForwardCall(u, c) \/ NoSubscription(u, c)
                                  \/ \E n \in Node, x \in SubId : RegisterSubscription(u, c, n, x)
      BY <2>0, <2>2, KeptKind DEF UserLags, TaskEnds, ForwardCall, NoSubscription,
                                  RegisterSubscription, dataVars, history
    <2>3. CASE ReadFails(u) \/ SendFails(u)
      BY <2>0, <2>3, RemoveKind DEF ReadFails, SendFails
    <2>4. ASSUME NEW p \in Topic, SubscribeExisting(u, p) PROVE SomeKind
      BY <2>0, <2>4, SubscribeKind DEF SubscribeExisting
    <2>5. CASE SubscribeRegistered(u)
      BY <2>0, <2>5, SubscribeKind, KeptKind DEF SubscribeRegistered
    <2>6. ASSUME NEW x \in SubId, UnsubscribeCall(u, x) PROVE SomeKind
      <3>1. CASE UNCHANGED <<subscriptions, quit>>
        BY <2>0, <2>6, <3>1, KeptKind DEF UnsubscribeCall
      <3>2. CASE /\ subscriptions' = UnsubscribeUser({u}, x)
                 /\ quit' = IF HasUser(u, x) /\ ~Collected(u, x) THEN quit \cup {<<u, x>>} ELSE quit
        <4>1. \A v, y : HasUser(v, y)' <=> HasUser(v, y) /\ ~(y = x /\ v \in {u})
          BY <3>2, HasUserUnsubscribed
        <4>2. quit' \subseteq quit \cup {r \in {<<u, x>>} : ~Collected(u, x)}
          BY <3>2
        <4>3. Unsubscribes(u, x)
          BY <2>0, <2>6, <4>1, <4>2 DEF UnsubscribeCall, Unsubscribes
        <4> QED BY <4>3 DEF SomeKind
      <3> QED BY <2>6, <3>1, <3>2 DEF UnsubscribeCall
    <2> QED BY <1>1, <2>1, <2>2, <2>3, <2>4, <2>5, <2>6 DEF Client
  <1>2. CASE Dispatcher
    <2>1. CASE GiveUp \/ \E i \in DOMAIN subscriptions : NoticeUnwanted(i)
      BY <2>1, KeptKind DEF GiveUp, NoticeUnwanted, dataVars, moveVars, history
    <2>2. ASSUME NEW u \in User, NoticeSend(u) PROVE SomeKind
      BY <2>2, RemoveKind DEF NoticeSend, moveVars
    <2> QED BY <1>2, <2>1, <2>2 DEF Dispatcher
  <1>3. CASE UNCHANGED vars
    BY <1>3, KeptKind DEF vars, dataVars, moveVars, history
  <1> QED BY <1>1, <1>2, <1>3, MoveKinds DEF Next

-----------------------------------------------------------------------------
(* Who unsubscribed stays so, and who left is gone.                        *)

(* A move that begins to collect finds nobody who has unsubscribed.        *)
CollectedStay ==
  \A m \in Mover : \A u \in move_users[m] : <<u, move_info[m].subscription_id>> \notin quit

LEMMA NextSticks ==
  TypeInv /\ UnsubscribeSticks /\ CollectedStay /\ [Next]_vars => UnsubscribeSticks' /\ CollectedStay'
  <1> SUFFICES ASSUME TypeInv, UnsubscribeSticks, CollectedStay, [Next]_vars
               PROVE  UnsubscribeSticks' /\ CollectedStay'
    OBVIOUS
  <1>0. /\ \A r \in quit : ~HasUser(r[1], r[2])
        /\ \A m \in Mover : \A u \in move_users[m] : <<u, move_info[m].subscription_id>> \notin quit
    BY DEF UnsubscribeSticks, CollectedStay
  <1>1. \A r \in quit \cup quit' : r = <<r[1], r[2]>>
    BY NextTypes DEF TypeInv, HistoryOK
  <1>2. ASSUME NEW u \in User, NEW x \in SubId, Subscribes(u, x)
        PROVE  UnsubscribeSticks' /\ CollectedStay'
    <2>1. UnsubscribeSticks'
      BY <1>0, <1>1, <1>2 DEF Subscribes, Added, UnsubscribeSticks
    <2>2. CollectedStay'
      BY <1>0, <1>2 DEF Subscribes, CollectedStay
    <2> QED BY <2>1, <2>2
  <1>3. ASSUME NEW u \in User, NEW m \in Mover, NEW x \in SubId, IsMoved(u, m, x)
        PROVE  UnsubscribeSticks' /\ CollectedStay'
    <2>1. <<u, x>> \notin quit'
      BY <1>0, <1>3 DEF IsMoved
    <2>2. UnsubscribeSticks'
      BY <1>0, <1>1, <1>3, <2>1 DEF IsMoved, Added, UnsubscribeSticks
    <2>3. CollectedStay'
      BY <1>0, <1>3 DEF IsMoved, CollectedStay
    <2> QED BY <2>2, <2>3
  <1>4. ASSUME NEW u \in User, NEW x \in SubId, Unsubscribes(u, x)
        PROVE  UnsubscribeSticks' /\ CollectedStay'
    <2>1. UnsubscribeSticks'
      BY <1>0, <1>1, <1>4 DEF Unsubscribes, UnsubscribeSticks
    <2>2. ASSUME NEW m \in Mover, NEW v \in move_users[m]
          PROVE  <<v, move_info[m].subscription_id>> \notin quit'
      BY <1>0, <1>4, <2>2 DEF Unsubscribes, Collected
    <2>3. CollectedStay'
      BY <1>4, <2>2 DEF Unsubscribes, CollectedStay
    <2> QED BY <2>1, <2>3
  <1>5. ASSUME NEW S, Removed(S) PROVE UnsubscribeSticks' /\ CollectedStay'
    BY <1>0, <1>5 DEF Removed, UnsubscribeSticks, CollectedStay
  <1>6. ASSUME NEW m \in Mover, Collects(m) PROVE UnsubscribeSticks' /\ CollectedStay'
    <2>1. UnsubscribeSticks'
      BY <1>0, <1>6 DEF Collects, UnsubscribeSticks
    <2>2. ASSUME NEW u \in move_users'[m] PROVE <<u, move_info[m].subscription_id>> \notin quit
      <3>1. HasUser(u, move_info[m].subscription_id)
        BY <1>6, <2>2 DEF Collects
      <3> QED BY <1>0, <3>1
    <2>3. CollectedStay'
      BY <1>0, <1>6, <2>2 DEF Collects, CollectedStay
    <2> QED BY <2>1, <2>3
  <1>7. CASE NobodyComes
    <2>1. UnsubscribeSticks'
      BY <1>0, <1>7 DEF NobodyComes, UnsubscribeSticks
    <2>2. CollectedStay'
      BY <1>0, <1>7 DEF NobodyComes, CollectedStay
    <2> QED BY <2>1, <2>2
  <1> QED BY <1>2, <1>3, <1>4, <1>5, <1>6, <1>7, NextKinds DEF SomeKind

(* A user is in the subscriptions or held by a move only while connected,  *)
(* or if its removal missed it, and a task ends only when its user has     *)
(* been removed.                                                           *)
OutIsMissed ==
  \A u \in User : u \notin users /\ u \notin missed =>
    /\ \A x \in SubId : ~HasUser(u, x)
    /\ \A m \in Mover : u \notin move_users[m]

EndedIsOut == \A u \in User : pc[u] = "ended" => u \notin users

LEMMA NextOut == TypeInv /\ OutIsMissed /\ [Next]_vars => OutIsMissed'
  <1> SUFFICES ASSUME TypeInv, OutIsMissed, [Next]_vars, NEW v \in User, v \notin users',
                      v \notin missed'
               PROVE  (\A y \in SubId : ~HasUser(v, y)') /\ \A m \in Mover : v \notin move_users'[m]
    BY DEF OutIsMissed
  <1> DEFINE Goal == (\A y \in SubId : ~HasUser(v, y)') /\ \A m \in Mover : v \notin move_users'[m]
  <1>0. v \notin users /\ v \notin missed =>
          (\A y \in SubId : ~HasUser(v, y)) /\ \A m \in Mover : v \notin move_users[m]
    BY DEF OutIsMissed
  <1>2. ASSUME NEW u \in User, NEW x \in SubId, Subscribes(u, x) PROVE Goal
    <2>1. v \notin users /\ v \notin missed /\ v # u
      BY <1>2 DEF Subscribes
    <2> QED BY <1>0, <1>2, <2>1 DEF Subscribes, Added
  <1>3. ASSUME NEW u \in User, NEW m \in Mover, NEW x \in SubId, IsMoved(u, m, x) PROVE Goal
    <2>1. v \notin users /\ v \notin missed
      BY <1>3 DEF IsMoved
    <2>2. v # u
      BY <1>0, <1>3, <2>1 DEF IsMoved
    <2> QED BY <1>0, <1>3, <2>1, <2>2 DEF IsMoved, Added
  <1>4. ASSUME NEW u \in User, NEW x \in SubId, Unsubscribes(u, x) PROVE Goal
    BY <1>0, <1>4 DEF Unsubscribes
  <1>5. ASSUME NEW S, Removed(S) PROVE Goal
    BY <1>0, <1>5 DEF Removed
  <1>6. ASSUME NEW m \in Mover, Collects(m) PROVE Goal
    <2>1. v \notin users /\ v \notin missed
      BY <1>6 DEF Collects
    <2>2. (\A y \in SubId : ~HasUser(v, y)) /\ \A k \in Mover : v \notin move_users[k]
      BY <1>0, <2>1
    <2>3. ASSUME v \in move_users'[m] PROVE FALSE
      <3>1. HasUser(v, move_info[m].subscription_id)
        BY <1>6, <2>3 DEF Collects
      <3>2. move_info[m].subscription_id \in SubId
        BY <3>1, InfoFields DEF HasUser, TypeInv, DataOK
      <3> QED BY <2>2, <3>1, <3>2
    <2> QED BY <1>6, <2>2, <2>3 DEF Collects
  <1>7. CASE NobodyComes
    <2>1. v \notin users /\ v \notin missed
      BY <1>7 DEF NobodyComes
    <2> QED BY <1>0, <1>7, <2>1 DEF NobodyComes
  <1> QED BY <1>2, <1>3, <1>4, <1>5, <1>6, <1>7, NextKinds DEF SomeKind

LEMMA NextEnded == TypeInv /\ EndedIsOut /\ [Next]_vars => EndedIsOut'
  <1> SUFFICES ASSUME TypeInv, EndedIsOut, [Next]_vars PROVE EndedIsOut'
    OBVIOUS
  <1>1. pc \in [User -> {"new", "idle", "waiting", "registered", "ended"}]
    BY DEF TypeInv, UserOK
  <1>2. ASSUME NEW u \in User, Client(u) PROVE EndedIsOut'
    <2>1. CASE AddUser(u)
      BY <1>1, <2>1 DEF AddUser, EndedIsOut
    <2>2. CASE ReadFails(u)
      BY <1>1, <2>2 DEF ReadFails, RemoveUser, EndedIsOut
    <2>3. CASE SendFails(u) \/ TaskEnds(u)
      BY <1>1, <2>3 DEF SendFails, TaskEnds, RemoveUser, dataVars, EndedIsOut
    <2>4. CASE \/ UserLags(u) \/ SubscribeRegistered(u)
               \/ \E p \in Topic : SubscribeExisting(u, p)
               \/ \E x \in SubId : UnsubscribeCall(u, x)
               \/ \E c \in Call : \/ ForwardCall(u, c) \/ NoSubscription(u, c)
                                  \/ \E n \in Node, x \in SubId : RegisterSubscription(u, c, n, x)
      <3>1. UNCHANGED users
        BY <2>4 DEF UserLags, SubscribeRegistered, SubscribeExisting, ForwardCall, UnsubscribeCall,
                    NoSubscription, RegisterSubscription, dataVars
      <3>2. \E a \in {"idle", "waiting", "registered"} : pc' = [pc EXCEPT ![u] = a]
        BY <2>4 DEF UserLags, SubscribeRegistered, SubscribeExisting, ForwardCall, UnsubscribeCall,
                    NoSubscription, RegisterSubscription, Reply
      <3> QED BY <1>1, <3>1, <3>2 DEF EndedIsOut
    <2> QED BY <1>2, <2>1, <2>2, <2>3, <2>4 DEF Client
  <1>3. CASE Dispatcher
    <2>1. users' \subseteq users /\ UNCHANGED pc
      BY <1>3 DEF Dispatcher, GiveUp, NoticeUnwanted, NoticeSend, RemoveUser, dataVars, userVars
    <2> QED BY <2>1 DEF EndedIsOut
  <1>4. CASE (\E m \in Mover : Move(m)) \/ UNCHANGED vars
    <2>1. UNCHANGED <<users, pc>>
      BY <1>4 DEF Move, MoveStart, MoveInterrupted, MoveStops, MoveAnswered, MoveCollect,
           MoveUnregister, MoveRegister, MovePairDone, MoveSubscribe, vars, dataVars, userVars
    <2> QED BY <2>1 DEF EndedIsOut
  <1> QED BY <1>2, <1>3, <1>4 DEF Next

(* eth_unsubscribe, against the moves of any number of tasks: who          *)
(* unsubscribed from an id is in no subscription with it until it          *)
(* subscribes again, or a move that it could not know of brings it back.   *)
THEOREM UnsubscribeSticksHolds == Spec => []UnsubscribeSticks
  <1>1. Init => UnsubscribeSticks /\ CollectedStay
    BY DEF Init, UnsubscribeSticks, CollectedStay
  <1> QED BY <1>1, InitTypes, NextTypes, NextSticks, PTL DEF Spec

(* remove_user, and the ends of a client's task: it leaves nothing behind, *)
(* except through a move that had collected the user or a call of its own  *)
(* that was carried out afterwards.                                        *)
THEOREM LeftUsersGoneHolds == Spec => []LeftUsersGone
  <1>1. Init => OutIsMissed /\ EndedIsOut
    BY DEF Init, OutIsMissed, EndedIsOut, HasUser
  <1>2. OutIsMissed /\ EndedIsOut => LeftUsersGone
    BY DEF OutIsMissed, EndedIsOut, LeftUsersGone
  <1> QED BY <1>1, <1>2, InitTypes, NextTypes, NextOut, NextEnded, PTL DEF Spec

-----------------------------------------------------------------------------
(* Users are subscribed to what they asked for.                            *)

RegisteredMatch ==
  \A p \in DOMAIN incoming_subscriptions : topic[incoming_subscriptions[p].subscription_id] = p

SubscribedAsked ==
  \A i \in DOMAIN subscriptions : \A u \in subscriptions[i] : topic[i.subscription_id] \in wanted[u]

CallsAsked == \A u \in User : Calling(u) /\ call[u] \in Topic => call[u] \in wanted[u]

(* A move holds an id of its topic, and users that asked for the topic.    *)
MovingMatch == \A m \in Mover : Moving(m) => topic[move_info[m].subscription_id] = move_pair[m]

MovingAsked == \A m \in Mover : \A u \in move_users[m] : move_pair[m] \in wanted[u]

Asked == RegisteredMatch /\ SubscribedAsked /\ MovingMatch /\ MovingAsked

AskedInv == CallsAsked /\ (~mixed => Asked)

(* What was asked for stays so, and an id keeps its topic.                 *)
Stable ==
  /\ \A u \in User : wanted[u] \subseteq wanted'[u]
  /\ \A x \in SubId : topic[x] # Free => topic'[x] = topic[x]
  /\ mixed => mixed'

LEMMA NextStable == TypeInv /\ [Next]_vars => Stable
  <1> SUFFICES ASSUME TypeInv, [Next]_vars PROVE Stable
    OBVIOUS
  <1>0. wanted \in [User -> SUBSET Topic] /\ topic \in [SubId -> Topic \cup {Free}]
    BY DEF TypeInv, HistoryOK, NodeOK
  <1>1. ASSUME NEW u \in User, Client(u) PROVE Stable
    <2>1. CASE UNCHANGED <<wanted, topic, mixed>>
      BY <2>1 DEF Stable
    <2>2. CASE \/ AddUser(u) \/ ReadFails(u) \/ SubscribeRegistered(u) \/ UserLags(u)
               \/ SendFails(u) \/ TaskEnds(u)
               \/ \E x \in SubId : UnsubscribeCall(u, x)
               \/ \E c \in Call : NoSubscription(u, c)
      BY <2>1, <2>2 DEF AddUser, ReadFails, SubscribeRegistered, UserLags, SendFails, TaskEnds,
                        UnsubscribeCall, NoSubscription, nodeVars, history
    <2>3. ASSUME NEW p \in Topic, SubscribeExisting(u, p) PROVE Stable
      BY <1>0, <2>3 DEF SubscribeExisting, nodeVars, Stable
    <2>4. ASSUME NEW c \in Call, ForwardCall(u, c) PROVE Stable
      BY <1>0, <2>4 DEF ForwardCall, Stable
    <2>5. ASSUME NEW c \in Call, NEW n \in Node, NEW x \in SubId, RegisterSubscription(u, c, n, x)
          PROVE  Stable
      <3>1. topic' = [topic EXCEPT ![x] = IF @ = Free THEN call[u] ELSE @] /\ UNCHANGED wanted
        BY <2>5 DEF RegisterSubscription
      <3>2. mixed => mixed'
        BY <2>5 DEF RegisterSubscription
      <3> QED BY <1>0, <3>1, <3>2 DEF Stable
    <2> QED BY <1>1, <2>2, <2>3, <2>4, <2>5 DEF Client
  <1>2. CASE Dispatcher \/ (\E m \in Mover : Move(m)) \/ UNCHANGED vars
    <2>1. UNCHANGED <<wanted, topic, mixed>>
      BY <1>2 DEF Dispatcher, GiveUp, NoticeUnwanted, NoticeSend, Move, MoveStart, MoveInterrupted,
           MoveStops, MoveAnswered, MoveCollect, MoveUnregister, MoveRegister, MovePairDone,
           MoveSubscribe, vars, nodeVars, history
    <2> QED BY <2>1 DEF Stable
  <1> QED BY <1>1, <1>2 DEF Next

(* What a step that leaves a part alone, or takes from it, keeps.          *)
LEMMA StableKeeps ==
  ASSUME TypeInv, Stable
  PROVE  /\ RegisteredMatch /\ UNCHANGED incoming_subscriptions => RegisteredMatch'
         /\ MovingMatch /\ UNCHANGED <<move_pc, move_pair, move_info>> => MovingMatch'
         /\ MovingAsked /\ UNCHANGED <<move_pair, move_users>> => MovingAsked'
  <1>0. Free \notin Topic
    BY SubscriptionsAssumption DEF Free
  <1>1. ASSUME RegisteredMatch, UNCHANGED incoming_subscriptions, NEW p \in DOMAIN incoming_subscriptions
        PROVE  topic'[incoming_subscriptions[p].subscription_id] = p
    <2>1. p \in Topic /\ incoming_subscriptions[p].subscription_id \in SubId
      BY InfoFields DEF TypeInv, DataOK
    <2> QED BY <1>0, <1>1, <2>1 DEF RegisteredMatch, Stable
  <1>2. ASSUME MovingMatch, UNCHANGED <<move_pc, move_pair, move_info>>, NEW m \in Mover, Moving(m)
        PROVE  topic'[move_info[m].subscription_id] = move_pair[m]
    <2>1. move_pair[m] \in Topic /\ move_info[m].subscription_id \in SubId
      BY <1>2, InfoFields DEF TypeInv, MovesHeld
    <2> QED BY <1>0, <1>2, <2>1 DEF MovingMatch, Stable
  <1>3. MovingAsked /\ UNCHANGED <<move_pair, move_users>> => MovingAsked'
    BY DEF MovingAsked, Stable, TypeInv, MoveOK
  <1> QED BY <1>1, <1>2, <1>3 DEF RegisteredMatch, MovingMatch, Moving

LEMMA FewerAsked ==
  ASSUME TypeInv, Stable, SubscribedAsked, DOMAIN subscriptions' = DOMAIN subscriptions,
         \A i \in DOMAIN subscriptions : subscriptions'[i] \subseteq subscriptions[i]
  PROVE  SubscribedAsked'
  <1> SUFFICES ASSUME NEW i \in DOMAIN subscriptions, NEW u \in subscriptions'[i]
               PROVE  topic'[i.subscription_id] \in wanted'[u]
    BY DEF SubscribedAsked
  <1>1. u \in User /\ i.subscription_id \in SubId
    BY InfoFields DEF TypeInv, DataOK
  <1>2. topic[i.subscription_id] \in wanted[u] /\ wanted[u] \subseteq Topic
    BY <1>1 DEF SubscribedAsked, TypeInv, HistoryOK
  <1>3. topic[i.subscription_id] # Free
    BY <1>2, SubscriptionsAssumption DEF Free
  <1> QED BY <1>1, <1>2, <1>3 DEF Stable

(* One that subscribes to a topic it asked for.                            *)
LEMMA SubscribesAsked ==
  ASSUME TypeInv, Stable, RegisteredMatch, SubscribedAsked, NEW u \in User,
         NEW p \in DOMAIN incoming_subscriptions, RawSubscribe(u, p), p \in wanted'[u]
  PROVE  SubscribedAsked'
  <1> DEFINE info == incoming_subscriptions[p]
  <1>1. info \in NodeSubInfo /\ info.subscription_id \in SubId /\ p \in Topic
    BY InfoFields DEF TypeInv, DataOK
  <1>2. subscriptions' = Subscribed(u, info)
    BY DEF RawSubscribe
  <1>3. topic[info.subscription_id] = p
    BY DEF RegisteredMatch
  <1>4. topic'[info.subscription_id] = p
    BY <1>1, <1>3, SubscriptionsAssumption DEF Stable, Free
  <1> HIDE DEF info
  <1>5. \A i \in DOMAIN subscriptions' : \A v \in subscriptions'[i] :
          (v = u /\ i = info) \/ (i \in DOMAIN subscriptions /\ v \in subscriptions[i])
    BY <1>1, <1>2, SubscribedEffect DEF TypeInv
  <1>6. ASSUME NEW i \in DOMAIN subscriptions, NEW v \in subscriptions[i]
        PROVE  topic'[i.subscription_id] \in wanted'[v]
    <2>1. v \in User /\ i.subscription_id \in SubId
      BY InfoFields DEF TypeInv, DataOK
    <2>2. topic[i.subscription_id] \in wanted[v] /\ wanted[v] \subseteq Topic
      BY <2>1 DEF SubscribedAsked, TypeInv, HistoryOK
    <2>3. topic[i.subscription_id] # Free
      BY <2>2, SubscriptionsAssumption DEF Free
    <2> QED BY <2>1, <2>2, <2>3 DEF Stable
  <1> QED BY <1>4, <1>5, <1>6 DEF SubscribedAsked

LEMMA NextCallsAsked == TypeInv /\ CallsAsked /\ [Next]_vars => CallsAsked'
  <1> SUFFICES ASSUME TypeInv, CallsAsked, [Next]_vars PROVE CallsAsked'
    OBVIOUS
  <1>1. /\ pc \in [User -> {"new", "idle", "waiting", "registered", "ended"}]
        /\ call \in [User -> Call \cup {NoCall}] /\ wanted \in [User -> SUBSET Topic]
    BY DEF TypeInv, UserOK, HistoryOK
  <1>2. \A u \in User : wanted[u] \subseteq wanted'[u]
    BY NextStable DEF Stable
  <1>3. ASSUME NEW u \in User, Client(u) PROVE CallsAsked'
    <2>1. ASSUME NEW c \in Call, ForwardCall(u, c) PROVE CallsAsked'
      <3>1. c \in Topic => c \in wanted'[u]
        BY <1>1, <2>1 DEF ForwardCall
      <3>2. call' = [call EXCEPT ![u] = c] /\ pc' = [pc EXCEPT ![u] = "waiting"]
        BY <2>1 DEF ForwardCall
      <3> QED BY <1>1, <1>2, <3>1, <3>2 DEF CallsAsked, Calling
    <2>2. CASE \/ \E p \in Topic : SubscribeExisting(u, p)
               \/ SubscribeRegistered(u) \/ UserLags(u) \/ SendFails(u) \/ TaskEnds(u) \/ AddUser(u)
               \/ \E x \in SubId : UnsubscribeCall(u, x)
               \/ \E c \in Call : NoSubscription(u, c)
      <3>1. /\ \E a \in {"idle", "ended"} : pc' = [pc EXCEPT ![u] = a]
            /\ UNCHANGED call \/ call' = [call EXCEPT ![u] = NoCall]
        BY <2>2 DEF SubscribeExisting, SubscribeRegistered, UserLags, SendFails, TaskEnds, AddUser,
                    UnsubscribeCall, NoSubscription, Reply
      <3> QED BY <1>1, <1>2, <3>1 DEF CallsAsked, Calling
    <2>3. ASSUME NEW c \in Call, NEW n \in Node, NEW x \in SubId, RegisterSubscription(u, c, n, x)
          PROVE  CallsAsked'
      <3>1. pc[u] = "waiting" /\ pc' = [pc EXCEPT ![u] = "registered"] /\ UNCHANGED call
        BY <2>3 DEF RegisterSubscription, Answered
      <3> QED BY <1>1, <1>2, <3>1 DEF CallsAsked, Calling
    <2>4. CASE ReadFails(u)
      BY <1>2, <2>4 DEF ReadFails, CallsAsked, Calling
    <2> QED BY <1>3, <2>1, <2>2, <2>3, <2>4 DEF Client
  <1>4. CASE Dispatcher \/ (\E m \in Mover : Move(m)) \/ UNCHANGED vars
    <2>1. UNCHANGED userVars
      BY <1>4 DEF Dispatcher, GiveUp, NoticeUnwanted, NoticeSend, Move, MoveStart, MoveInterrupted,
           MoveStops, MoveAnswered, MoveCollect, MoveUnregister, MoveRegister, MovePairDone,
           MoveSubscribe, vars
    <2> QED BY <1>2, <2>1 DEF userVars, CallsAsked, Calling
  <1> QED BY <1>3, <1>4 DEF Next

(* Steps of clients, while no id stands for two things.                    *)
LEMMA ClientAsked ==
  ASSUME TypeInv, Stable, CallsAsked, Asked, NEW u \in User, Client(u), ~mixed'
  PROVE  Asked'
  <1>0. RegisteredMatch /\ SubscribedAsked /\ MovingMatch /\ MovingAsked
    BY DEF Asked
  <1>1. UNCHANGED moveVars
    BY DEF Client, AddUser, ReadFails, SubscribeExisting, ForwardCall, UnsubscribeCall,
           NoSubscription, RegisterSubscription, SubscribeRegistered, UserLags, SendFails, TaskEnds
  <1>2. MovingMatch' /\ MovingAsked'
    BY <1>0, <1>1, StableKeeps DEF moveVars
  <1>3. CASE \/ AddUser(u) \/ UserLags(u) \/ TaskEnds(u)
             \/ \E c \in Call : ForwardCall(u, c) \/ NoSubscription(u, c)
    <2>1. UNCHANGED <<subscriptions, incoming_subscriptions>>
      BY <1>3 DEF AddUser, UserLags, TaskEnds, ForwardCall, NoSubscription, dataVars
    <2>2. SubscribedAsked' /\ RegisteredMatch'
      BY <1>0, <2>1, FewerAsked, StableKeeps
    <2> QED BY <1>2, <2>2 DEF Asked
  <1>4. CASE ReadFails(u) \/ SendFails(u) \/ \E x \in SubId : UnsubscribeCall(u, x)
    <2>1. /\ UNCHANGED incoming_subscriptions
          /\ \/ UNCHANGED subscriptions
             \/ subscriptions' = Without({u})
             \/ \E x \in SubId : subscriptions' = UnsubscribeUser({u}, x)
      BY <1>4 DEF ReadFails, SendFails, RemoveUser, UnsubscribeCall
    <2>2. /\ DOMAIN subscriptions' = DOMAIN subscriptions
          /\ \A i \in DOMAIN subscriptions : subscriptions'[i] \subseteq subscriptions[i]
      BY <2>1, FewerEffect DEF TypeInv
    <2>3. SubscribedAsked' /\ RegisteredMatch'
      BY <1>0, <2>1, <2>2, FewerAsked, StableKeeps
    <2> QED BY <1>2, <2>3 DEF Asked
  <1>5. ASSUME NEW p \in Topic, SubscribeExisting(u, p) PROVE Asked'
    <2>1. /\ p \in DOMAIN incoming_subscriptions /\ RawSubscribe(u, p)
          /\ wanted' = [wanted EXCEPT ![u] = @ \cup {p}] /\ UNCHANGED incoming_subscriptions
      BY <1>5 DEF SubscribeExisting, SubscribeUser
    <2>2. p \in wanted'[u]
      BY <2>1 DEF TypeInv, HistoryOK
    <2>3. SubscribedAsked' /\ RegisteredMatch'
      BY <1>0, <2>1, <2>2, SubscribesAsked, StableKeeps
    <2> QED BY <1>2, <2>3 DEF Asked
  <1>6. ASSUME NEW c \in Call, NEW n \in Node, NEW x \in SubId, RegisterSubscription(u, c, n, x)
        PROVE  Asked'
    <2> DEFINE info == Info(n, x)
    <2>1. /\ call[u] \in Topic /\ incoming_subscriptions' = RawRegister(call[u], info)
          /\ topic' = [topic EXCEPT ![x] = IF @ = Free THEN call[u] ELSE @]
          /\ topic[x] \in {Free, call[u]} /\ UNCHANGED subscriptions
      BY <1>6 DEF RegisterSubscription
    <2>2. info \in NodeSubInfo /\ info.subscription_id = x
      BY InfoType
    <2>3. topic'[x] = call[u]
      BY <2>1 DEF TypeInv, NodeOK
    <2> HIDE DEF info
    <2>4. RegisteredMatch'
      <3>1. /\ DOMAIN incoming_subscriptions' = DOMAIN incoming_subscriptions \cup {call[u]}
            /\ incoming_subscriptions'[call[u]] = info
            /\ \A q \in DOMAIN incoming_subscriptions :
                 q # call[u] => incoming_subscriptions'[q] = incoming_subscriptions[q]
        BY <2>1, <2>2, RegisterEffect DEF TypeInv
      <3>2. ASSUME NEW q \in DOMAIN incoming_subscriptions
            PROVE  topic'[incoming_subscriptions[q].subscription_id] = q
        <4>1. q \in Topic /\ incoming_subscriptions[q].subscription_id \in SubId
          BY InfoFields DEF TypeInv, DataOK
        <4> QED BY <1>0, <4>1, SubscriptionsAssumption DEF RegisteredMatch, Stable, Free
      <3> QED BY <2>2, <2>3, <3>1, <3>2 DEF RegisteredMatch
    <2>5. SubscribedAsked'
      BY <1>0, <2>1, FewerAsked
    <2> QED BY <1>2, <2>4, <2>5 DEF Asked
  <1>7. CASE SubscribeRegistered(u)
    <2>1. /\ pc[u] = "registered" /\ UNCHANGED incoming_subscriptions
          /\ \/ call[u] \in DOMAIN incoming_subscriptions /\ RawSubscribe(u, call[u])
             \/ UNCHANGED subscriptions
      BY <1>7 DEF SubscribeRegistered, SubscribeUser
    <2>2. call[u] \in wanted[u]
      BY <2>1 DEF CallsAsked, Calling, TypeInv, CallsHeld
    <2>3. call[u] \in wanted'[u]
      BY <2>2 DEF Stable
    <2>4. SubscribedAsked' /\ RegisteredMatch'
      BY <1>0, <2>1, <2>3, SubscribesAsked, FewerAsked, StableKeeps
    <2> QED BY <1>2, <2>4 DEF Asked
  <1> QED BY <1>3, <1>4, <1>5, <1>6, <1>7 DEF Client

LEMMA DispatcherAsked ==
  ASSUME TypeInv, Stable, Asked, Dispatcher
  PROVE  Asked'
  <1>0. RegisteredMatch /\ SubscribedAsked /\ MovingMatch /\ MovingAsked
    BY DEF Asked
  <1>1. UNCHANGED moveVars
    BY DEF Dispatcher, GiveUp, NoticeUnwanted, NoticeSend
  <1>2. MovingMatch' /\ MovingAsked'
    BY <1>0, <1>1, StableKeeps DEF moveVars
  <1>3. CASE GiveUp
    <2>1. /\ DOMAIN incoming_subscriptions' = DOMAIN incoming_subscriptions
          /\ \A q \in DOMAIN incoming_subscriptions :
               incoming_subscriptions'[q] = incoming_subscriptions[q]
      BY <1>3, GiveUpEffect
    <2>2. UNCHANGED <<subscriptions, topic>>
      BY <1>3 DEF GiveUp, nodeVars
    <2>3. RegisteredMatch'
      BY <1>0, <2>1, <2>2 DEF RegisteredMatch
    <2>4. SubscribedAsked'
      BY <1>0, <2>2, FewerAsked
    <2> QED BY <1>2, <2>3, <2>4 DEF Asked
  <1>4. CASE (\E i \in DOMAIN subscriptions : NoticeUnwanted(i)) \/ \E u \in User : NoticeSend(u)
    <2>1. /\ UNCHANGED incoming_subscriptions
          /\ UNCHANGED subscriptions \/ \E S : subscriptions' = Without(S)
      BY <1>4 DEF NoticeUnwanted, NoticeSend, RemoveUser, dataVars
    <2>2. /\ DOMAIN subscriptions' = DOMAIN subscriptions
          /\ \A i \in DOMAIN subscriptions : subscriptions'[i] \subseteq subscriptions[i]
      BY <2>1, FewerEffect DEF TypeInv
    <2>3. SubscribedAsked' /\ RegisteredMatch'
      BY <1>0, <2>1, <2>2, FewerAsked, StableKeeps
    <2> QED BY <1>2, <2>3 DEF Asked
  <1> QED BY <1>3, <1>4 DEF Dispatcher

LEMMA StopsAsked ==
  ASSUME TypeInv, Stable, Asked, NEW m \in Mover, MoveStops(m)
  PROVE  Asked'
  <1>0. RegisteredMatch /\ SubscribedAsked /\ MovingMatch /\ MovingAsked
    BY DEF Asked
  <1>1. /\ UNCHANGED <<dataVars, topic, wanted>> /\ move_pc' = [move_pc EXCEPT ![m] = "idle"]
        /\ move_pair' = [move_pair EXCEPT ![m] = NoTopic]
        /\ move_info' = [move_info EXCEPT ![m] = NoInfo]
        /\ move_users' = [move_users EXCEPT ![m] = {}]
    BY DEF MoveStops, nodeVars, history
  <1>2. MovingMatch' /\ MovingAsked'
    BY <1>0, <1>1 DEF MovingMatch, MovingAsked, Moving, TypeInv, MoveOK
  <1>3. RegisteredMatch' /\ SubscribedAsked'
    BY <1>0, <1>1, FewerAsked, StableKeeps DEF dataVars
  <1> QED BY <1>2, <1>3 DEF Asked

(* The users of a subscription that is moved asked for its topic, and the  *)
(* other task, which may move it at the same time, holds an id of it too.  *)
LEMMA MoveAsked ==
  ASSUME TypeInv, Stable, Asked, NEW m \in Mover, Move(m)
  PROVE  Asked'
  <1>0. RegisteredMatch /\ SubscribedAsked /\ MovingMatch /\ MovingAsked
    BY DEF Asked
  <1>t. MoveOK /\ MovesHeld
    BY DEF TypeInv
  <1>1. UNCHANGED <<topic, wanted>>
    BY DEF Move, MoveStart, MoveInterrupted, MoveStops, MoveAnswered, MoveCollect, MoveUnregister,
           MoveRegister, MovePairDone, MoveSubscribe, nodeVars, history
  <1>2. CASE MoveStops(m)
    BY <1>2, StopsAsked
  <1>3. CASE MovePairDone(m) \/ \E n \in Node : MoveStart(m, n)
    <2>1. CASE /\ UNCHANGED <<dataVars, move_users>> /\ move_users[m] = {}
               /\ move_pc' = [move_pc EXCEPT ![m] = "waiting"]
               /\ UNCHANGED <<move_pair, move_info>>
                  \/ /\ move_pair' = [move_pair EXCEPT ![m] = NoTopic]
                     /\ move_info' = [move_info EXCEPT ![m] = NoInfo]
      <3>1. MovingMatch'
        BY <1>0, <1>1, <1>t, <2>1 DEF MovingMatch, Moving, MoveOK
      <3>2. MovingAsked'
        BY <1>0, <1>1, <1>t, <2>1 DEF MovingAsked, MoveOK
      <3>3. RegisteredMatch' /\ SubscribedAsked'
        BY <1>0, <2>1, FewerAsked, StableKeeps DEF dataVars
      <3> QED BY <3>1, <3>2, <3>3 DEF Asked
    <2>2. ASSUME NEW n \in Node, MoveStart(m, n) PROVE move_users[m] = {}
      BY <1>t, <2>2 DEF MoveStart, MovesHeld
    <2> QED BY <1>2, <1>3, <2>1, <2>2 DEF MovePairDone, MoveStart
  <1>4. ASSUME NEW p \in Topic, NEW n \in Node, MoveAnswered(m, p, n) PROVE Asked'
    <2> DEFINE x == incoming_subscriptions[p].subscription_id
               info == Info(n, x)
    <2>1. CASE /\ move_pc[m] = "waiting" /\ p \in DOMAIN incoming_subscriptions
               /\ move_pair' = [move_pair EXCEPT ![m] = p]
               /\ move_info' = [move_info EXCEPT ![m] = info]
               /\ move_pc' = [move_pc EXCEPT ![m] = "collect"]
               /\ UNCHANGED <<dataVars, move_users>>
      <3>1. x \in SubId /\ topic[x] = p
        BY <1>0, <2>1, InfoFields DEF RegisteredMatch, TypeInv, DataOK
      <3>2. info.subscription_id = x
        BY <3>1, InfoType
      <3> HIDE DEF x, info
      <3>3. MovingMatch'
        BY <1>0, <1>1, <1>t, <2>1, <3>1, <3>2 DEF MovingMatch, Moving, MoveOK
      <3>4. move_users[m] = {}
        BY <1>t, <2>1 DEF MovesHeld
      <3>5. MovingAsked'
        BY <1>0, <1>1, <1>t, <2>1, <3>4 DEF MovingAsked, MoveOK
      <3>6. RegisteredMatch' /\ SubscribedAsked'
        BY <1>0, <2>1, FewerAsked, StableKeeps DEF dataVars
      <3> QED BY <3>3, <3>5, <3>6 DEF Asked
    <2> QED BY <1>2, <1>4, <2>1 DEF MoveAnswered
  <1>5. CASE MoveCollect(m)
    <2> DEFINE x == move_info[m].subscription_id
    <2>1. ASSUME NEW S \in UsersFor(x), move_pc[m] = "collect",
                 move_users' = [move_users EXCEPT ![m] = S],
                 move_pc' = [move_pc EXCEPT ![m] = "unregister"],
                 UNCHANGED <<dataVars, move_pair, move_info>>
          PROVE  Asked'
      <3>1. topic[x] = move_pair[m]
        BY <1>0, <2>1 DEF MovingMatch, Moving
      <3>2. \A u \in S : move_pair[m] \in wanted[u]
        BY <1>0, <2>1, <3>1 DEF UsersFor, SubscribedAsked
      <3> HIDE DEF x
      <3>3. MovingAsked'
        BY <1>0, <1>1, <1>t, <2>1, <3>2 DEF MovingAsked, MoveOK
      <3>4. MovingMatch'
        BY <1>0, <1>1, <1>t, <2>1 DEF MovingMatch, Moving, MoveOK
      <3>5. RegisteredMatch' /\ SubscribedAsked'
        BY <1>0, <2>1, FewerAsked, StableKeeps DEF dataVars
      <3> QED BY <3>3, <3>4, <3>5 DEF Asked
    <2> QED BY <1>2, <1>5, <2>1 DEF MoveCollect
  <1>6. CASE MoveUnregister(m)
    <2>1. /\ move_pc[m] = "unregister" /\ move_pc' = [move_pc EXCEPT ![m] = "register"]
          /\ UNCHANGED <<move_pair, move_info, move_users>>
      BY <1>6 DEF MoveUnregister
    <2>2. MovingMatch' /\ MovingAsked'
      BY <1>0, <1>1, <1>t, <2>1 DEF MovingMatch, MovingAsked, Moving, MoveOK
    <2>3. RegisteredMatch'
      <3>1. /\ DOMAIN incoming_subscriptions' = DOMAIN incoming_subscriptions \ {move_pair[m]}
            /\ \A q \in DOMAIN incoming_subscriptions :
                 q # move_pair[m] => incoming_subscriptions'[q] = incoming_subscriptions[q]
        BY <1>6, UnregisterEffect DEF MoveUnregister, TypeInv
      <3> QED BY <1>0, <1>1, <3>1 DEF RegisteredMatch
    <2>4. SubscribedAsked'
      <3>1. /\ DOMAIN subscriptions' = DOMAIN subscriptions
            /\ \A i \in DOMAIN subscriptions : subscriptions'[i] \subseteq subscriptions[i]
        BY <1>6, FewerEffect DEF MoveUnregister, TypeInv
      <3> QED BY <1>0, <3>1, FewerAsked
    <2> QED BY <2>2, <2>3, <2>4 DEF Asked
  <1>7. CASE MoveRegister(m)
    <2>1. /\ move_pc[m] = "register" /\ move_pc' = [move_pc EXCEPT ![m] = "subscribe"]
          /\ UNCHANGED <<subscriptions, move_pair, move_info, move_users>>
          /\ incoming_subscriptions' = RawRegister(move_pair[m], move_info[m])
      BY <1>7 DEF MoveRegister
    <2>2. MovingMatch' /\ MovingAsked'
      BY <1>0, <1>1, <1>t, <2>1 DEF MovingMatch, MovingAsked, Moving, MoveOK
    <2>3. RegisteredMatch'
      <3>1. /\ move_pair[m] \in Topic /\ move_info[m] \in NodeSubInfo
            /\ topic[move_info[m].subscription_id] = move_pair[m]
        BY <1>0, <1>t, <2>1 DEF MovingMatch, MovesHeld, Moving
      <3>2. /\ DOMAIN incoming_subscriptions' = DOMAIN incoming_subscriptions \cup {move_pair[m]}
            /\ incoming_subscriptions'[move_pair[m]] = move_info[m]
            /\ \A q \in DOMAIN incoming_subscriptions :
                 q # move_pair[m] => incoming_subscriptions'[q] = incoming_subscriptions[q]
        BY <2>1, <3>1, RegisterEffect DEF TypeInv
      <3> QED BY <1>0, <1>1, <3>1, <3>2 DEF RegisteredMatch
    <2>4. SubscribedAsked'
      BY <1>0, <2>1, FewerAsked
    <2> QED BY <2>2, <2>3, <2>4 DEF Asked
  <1>8. ASSUME NEW u \in User, MoveSubscribe(m, u) PROVE Asked'
    <2>1. CASE /\ u \in move_users[m] /\ move_pair[m] \in DOMAIN incoming_subscriptions
               /\ RawSubscribe(u, move_pair[m])
               /\ move_users' = [move_users EXCEPT ![m] = @ \ {u}]
               /\ UNCHANGED <<incoming_subscriptions, move_pc, move_pair, move_info>>
      <3>1. move_pair[m] \in wanted'[u]
        BY <1>0, <1>1, <2>1 DEF MovingAsked
      <3>2. SubscribedAsked'
        BY <1>0, <2>1, <3>1, SubscribesAsked
      <3>3. MovingAsked'
        BY <1>0, <1>1, <1>t, <2>1 DEF MovingAsked, MoveOK
      <3>4. RegisteredMatch' /\ MovingMatch'
        BY <1>0, <2>1, StableKeeps
      <3> QED BY <3>2, <3>3, <3>4 DEF Asked
    <2> QED BY <1>2, <1>8, <2>1 DEF MoveSubscribe
  <1> QED
    BY <1>2, <1>3, <1>4, <1>5, <1>6, <1>7, <1>8 DEF Move, MoveInterrupted

LEMMA NextAsked == TypeInv /\ AskedInv /\ [Next]_vars => AskedInv'
  <1> SUFFICES ASSUME TypeInv, AskedInv, [Next]_vars PROVE AskedInv'
    OBVIOUS
  <1>1. CallsAsked' /\ Stable
    BY NextCallsAsked, NextStable DEF AskedInv
  <1>2. ASSUME ~mixed' PROVE Asked'
    <2>1. CallsAsked /\ Asked
      BY <1>1, <1>2 DEF AskedInv, Stable
    <2>2. CASE \E u \in User : Client(u)
      BY <1>1, <1>2, <2>1, <2>2, ClientAsked
    <2>3. CASE Dispatcher
      BY <1>1, <2>1, <2>3, DispatcherAsked
    <2>4. CASE \E m \in Mover : Move(m)
      BY <1>1, <2>1, <2>4, MoveAsked
    <2>5. CASE UNCHANGED vars
      <3>1. UNCHANGED <<dataVars, topic, wanted, move_pc, move_pair, move_info, move_users>>
        BY <2>5 DEF vars, nodeVars, moveVars, history
      <3> QED BY <2>1, <3>1 DEF dataVars, Asked, RegisteredMatch, SubscribedAsked, MovingMatch,
                                MovingAsked, Moving
    <2> QED BY <2>2, <2>3, <2>4, <2>5 DEF Next
  <1> QED BY <1>1, <1>2 DEF AskedInv

(* subscribe_user, register_subscription and move_subscriptions: nobody is *)
(* subscribed to a topic it did not ask for, until a late answer is taken  *)
(* for that of another call or nodes give one id to two topics.            *)
THEOREM OnlyAskedForHolds == Spec => []OnlyAskedFor
  <1>1. Init => AskedInv
    BY DEF Init, AskedInv, CallsAsked, Calling, Asked, RegisteredMatch, SubscribedAsked, MovingMatch,
           MovingAsked, Moving
  <1>2. AskedInv => OnlyAskedFor
    BY DEF AskedInv, Asked, SubscribedAsked, OnlyAskedFor
  <1> QED BY <1>1, <1>2, InitTypes, NextTypes, NextAsked, PTL DEF Spec

(* The same of the topics themselves: however moves overlap, with each     *)
(* other and with calls, what is registered for a topic goes by an id that *)
(* a node gave to a call for it.  The exceptions are those of OnlyAskedFor.*)
THEOREM RegisteredMatchHolds == Spec => [](~mixed => RegisteredMatch)
  <1>1. Init => AskedInv
    BY DEF Init, AskedInv, CallsAsked, Calling, Asked, RegisteredMatch, SubscribedAsked, MovingMatch,
           MovingAsked, Moving
  <1>2. AskedInv => (~mixed => RegisteredMatch)
    BY DEF AskedInv, Asked
  <1> QED BY <1>1, <1>2, InitTypes, NextTypes, NextAsked, PTL DEF Spec
=============================================================================
