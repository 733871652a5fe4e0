-------------------------- MODULE CachedCallsProofs --------------------------
(* Theorems about CachedCalls.                                             *)
EXTENDS CachedCalls, SequenceTheorems, TLAPS

-----------------------------------------------------------------------------
(* Requests and their rewriting.                                           *)

(* The block param, where there is one, is one of the params.              *)
LEMMA BlockAtIn ==
  ASSUME NEW q \in Request, BlockAt(q) # 0
  PROVE  BlockAt(q) \in 1..Len(q.params)
<1>1. Position(q.method) \in 0..3
  BY DEF Position
<1>2. Len(q.params) \in Nat
  BY DEF Request
<1> QED
  BY <1>1, <1>2 DEF BlockAt

(* replace_block_tags gives a request again, and one that the client can   *)
(* have meant.                                                             *)
LEMMA Rewriting ==
  ASSUME NEW q \in Request, NEW n \in [{"latest", "finalized"} -> 0..MaxBlock]
  PROVE  /\ ReplaceBlockTags(q, n) \in Request
         /\ Named(q, n) \in 0..MaxBlock
         /\ Answers(q, ReplaceBlockTags(q, n), Named(q, n))
<1>1. MaxBlock \in Nat
  BY CachedCallsAssumption
<1>2. Named(q, n) \in 0..MaxBlock
  BY <1>1 DEF Named
<1>3. CASE BlockAt(q) # 0 /\ Resolves(q.params[BlockAt(q)].tag, n)
  <2> DEFINE i == BlockAt(q)
             t == q.params[i].tag
             s == [q.params EXCEPT ![i] = Num(n[t])]
  <2>1. i \in 1..Len(q.params)
    BY <1>3, BlockAtIn
  <2>2. t \in {"latest", "finalized"} /\ n[t] \in 1..MaxBlock
    BY <1>1, <1>3 DEF Resolves
  <2>3. Num(n[t]) \in Param
    BY <2>2 DEF Param
  <2>4. q.params \in Seq(Param)
    BY DEF Request
  <2>5. s \in Seq(Param) /\ Len(s) = Len(q.params)
    BY <2>1, <2>3, <2>4, ExceptSeq
  <2>6. ReplaceBlockTags(q, n) = [method |-> q.method, params |-> s]
    BY <1>3 DEF ReplaceBlockTags
  <2>7. ReplaceBlockTags(q, n) \in Request
    BY <2>5, <2>6 DEF Request
  <2>8. Named(q, n) = n[t]
    BY <1>3, <2>2 DEF Named
  <2>9. \A j \in 1..Len(q.params) : s[j] = IF j = i THEN Num(n[t]) ELSE q.params[j]
    BY <2>1, <2>4
  <2>10. \A j \in 1..Len(q.params) : Meant(q.params[j], s[j], n[t])
    BY <2>2, <2>9 DEF Meant
  <2> HIDE DEF i, t, s
  <2>11. Answers(q, [method |-> q.method, params |-> s], n[t])
    BY <2>5, <2>10 DEF Answers
  <2> QED
    BY <1>2, <2>6, <2>7, <2>8, <2>11
<1>4. CASE ~(BlockAt(q) # 0 /\ Resolves(q.params[BlockAt(q)].tag, n))
  <2>1. ReplaceBlockTags(q, n) = q
    BY <1>4 DEF ReplaceBlockTags
  <2> QED
    BY <1>2, <2>1 DEF Answers, Meant
<1> QED
  BY <1>3, <1>4

(* The placeholder for no request has the type of one.                     *)
LEMMA NothingType == Nothing \in Request
<1>1. <<>> \in Seq(Param)
  OBVIOUS
<1> QED
  BY <1>1 DEF Nothing, Request

-----------------------------------------------------------------------------
(* Types.                                                                  *)

Reply == [id : Client \cup {"0", "null"}, to : Request, result : Result,
          from : {"cache", "tainted", "node", "blutgang"}]

(* What a response of a node, of the cache and of Blutgang is made of.     *)
LEMMA ResponseType ==
  ASSUME NEW c \in Client, NEW to \in Request, NEW result \in Result,
         NEW from \in {"cache", "tainted", "node", "blutgang"}
  PROVE  /\ Response(IdOf(c), to, result, from) \in Reply
         /\ NoAnswer \in Reply
BY NothingType DEF Response, IdOf, NoAnswer, Reply, Result

(* The variables have their types at first.                                *)
LEMMA InitType == Init => TypeOK
<1>1. MaxBlock \in Nat
  BY CachedCallsAssumption
<1>2. NoAnswer \in Reply
  BY NothingType DEF NoAnswer, Response, Reply, Result
<1> QED
  BY <1>1, <1>2, NothingType DEF Init, TypeOK, Unknown, Reply

(* A step of a client's call keeps the types.                              *)
LEMMA ClientType ==
  ASSUME TypeOK, NEW c \in Client, ClientStep(c)
  PROVE  TypeOK'
<1> USE DEF TypeOK
<1>1. ASSUME NEW q \in Asks[c], Ask(c, q) PROVE TypeOK'
  <2>1. q \in Request
    BY CachedCallsAssumption
  <2> QED
    BY <1>1, <2>1, Rewriting DEF Ask, Key, history
<1>2. CASE CacheHit(c)
  <2>1. Response(CachedId(c), db[key[c]], "result", "tainted") \in Reply
        /\ Response(CachedId(c), db[key[c]], "result", "cache") \in Reply
    BY <1>2, ResponseType DEF CacheHit, CachedId, Result
  <2> QED
    BY <1>2, <2>1 DEF CacheHit, Replies, callVars, history, Reply
<1>3. CASE CacheMiss(c)
  BY <1>3 DEF CacheMiss, callVars, history
<1>4. CASE CacheError(c) \/ HttpFails(c)
  <2>1. NoAnswer \in Reply
    BY NothingType DEF NoAnswer, Response, Reply, Result
  <2> QED
    BY <1>4, <2>1 DEF CacheError, HttpFails, RepliesError, Replies, callVars, history, Reply
<1>5. ASSUME NEW result \in Result, HttpFetched(c, result) PROVE TypeOK'
  <2>1. Response(IdOf(c), call[c], result, "node") \in Reply
    BY ResponseType
  <2> QED
    BY <1>5, <2>1 DEF HttpFetched, callVars, history, Reply
<1>6. CASE WsSend(c)
  <2>1. [user |-> c, to |-> call[c]] \in [user : Ws, to : Request]
    BY <1>6 DEF WsSend
  <2> QED
    BY <1>6, <2>1 DEF WsSend, callVars, history
<1>7. CASE WsLags(c)
  <2>1. NoAnswer \in Reply
    BY NothingType DEF NoAnswer, Response, Reply, Result
  <2> QED
    BY <1>7, <2>1 DEF WsLags, RepliesError, Replies, callVars, Reply
<1>8. ASSUME NEW o \in out, NEW result \in Result, WsReceive(c, o, result) PROVE TypeOK'
  <2>1. Response(IdOf(c), o.to, result, "node") \in Reply
    BY ResponseType
  <2> QED
    BY <1>8, <2>1 DEF WsReceive, callVars, history, Reply
<1>9. CASE CacheQuery(c)
  <2>1. CASE Store(c)
    BY <1>9, <2>1 DEF CacheQuery, Store, callVars
  <2>2. CASE UNCHANGED <<db, tainted>>
    BY <1>9, <2>2 DEF CacheQuery, callVars
  <2> QED
    BY <1>9, <2>1, <2>2 DEF CacheQuery
<1>10. CASE CachePanics(c)
  BY <1>10 DEF CachePanics, callVars, history
<1>11. CASE SendReply(c)
  <2>1. NoAnswer \in Reply
    BY NothingType DEF NoAnswer, Response, Reply, Result
  <2> QED
    BY <1>11, <2>1, NothingType, CachedCallsAssumption DEF SendReply, history, Reply
<1> QED
  BY <1>1, <1>2, <1>3, <1>4, <1>5, <1>6, <1>7, <1>8, <1>9, <1>10, <1>11
  DEF ClientStep, HttpStep, WsStep

(* New heads, finalized blocks, deletions and unread answers keep them.    *)
LEMMA EnvironmentType ==
  ASSUME TypeOK, Environment
  PROVE  TypeOK'
<1> USE DEF TypeOK
<1>1. MaxBlock \in Nat /\ MaxFinal \in 0..MaxBlock
  BY CachedCallsAssumption
<1>2. ASSUME NEW n \in 0..MaxBlock, NewHead(n) PROVE TypeOK'
  BY <1>1, <1>2 DEF NewHead, callVars, history
<1>3. ASSUME NEW n \in 0..MaxFinal, SafeBlock(n) PROVE TypeOK'
  BY <1>1, <1>3 DEF SafeBlock, callVars, history
<1>4. ASSUME NEW o \in out, WsUnread(o) PROVE TypeOK'
  BY <1>4 DEF WsUnread, callVars, history
<1>5. ASSUME NEW k \in DOMAIN db, Delete(k) PROVE TypeOK'
  BY <1>5 DEF Delete, callVars
<1> QED
  BY <1>2, <1>3, <1>4, <1>5 DEF Environment

(* And so does every step.                                                 *)
LEMMA TypePreserved == TypeOK /\ [Next]_vars => TypeOK'
<1> SUFFICES ASSUME TypeOK, [Next]_vars PROVE TypeOK'
  OBVIOUS
<1>1. CASE Environment
  BY <1>1, EnvironmentType
<1>2. ASSUME NEW c \in Client, ClientStep(c) PROVE TypeOK'
  BY <1>2, ClientType
<1>3. CASE UNCHANGED vars
  BY <1>3 DEF vars, callVars, history, TypeOK
<1> QED
  BY <1>1, <1>2, <1>3 DEF Next

(* Type correctness: requests stay requests through rewriting, storing and *)
(* answering, so a rewritten one names a block in range and never block 0. *)
THEOREM CallsTypeCorrect == Spec => []TypeOK
<1>1. Init => TypeOK
  BY InitType
<1>2. TypeOK /\ [Next]_vars => TypeOK'
  BY TypePreserved
<1> QED
  BY <1>1, <1>2, PTL DEF Spec

-----------------------------------------------------------------------------
(* The inductive invariant.  A call is hashed as it is sent, and means     *)
(* what was asked for; an answer that is out is to the call its user waits *)
(* for, unless the user gave one up; and the answer a call holds is to it. *)

CallMeansAsked(c) ==
  pc[c] # "idle" => key[c] = call[c] /\ Answers(asked[c], call[c], at[c])

OutIsAwaited ==
  \A o \in out : o.user \in gave_up \/ (pc[o.user] = "waiting" /\ o.to = call[o.user])

AnswerIsToCall(c) ==
  /\ pc[c] = "cache" => answer[c].from = "node"
  /\ (pc[c] \in {"cache", "reply"} /\ answer[c].from = "node") =>
       answer[c].id = IdOf(c) /\ (answer[c].to = call[c] \/ c \in gave_up)
  /\ (pc[c] = "reply" /\ answer[c].from \in {"cache", "tainted"}) =>
       answer[c].id = IdOf(c) /\ (answer[c].from = "cache" => answer[c].to = key[c])
  /\ answer[c].from = "blutgang" => answer[c].result = "error"

CallsInv ==
  /\ TypeOK
  /\ \A c \in Client : CallMeansAsked(c)
  /\ OutIsAwaited
  /\ \A c \in Client : AnswerIsToCall(c)
  /\ StoredAnswersKey

(* A step of client c leaves the calls of the others as they are.          *)
OthersKept(c) ==
  \A d \in Client \ {c} :
    /\ pc'[d] = pc[d] /\ answer'[d] = answer[d]
    /\ asked'[d] = asked[d] /\ at'[d] = at[d] /\ call'[d] = call[d] /\ key'[d] = key[d]

(* It holds at first.                                                      *)
LEMMA InitInv == Init => CallsInv
BY InitType DEF Init, CallsInv, CallMeansAsked, OutIsAwaited, AnswerIsToCall,
  StoredAnswersKey, NoAnswer, Response

(* A step touches no call but its own.                                     *)
LEMMA OthersAreKept ==
  ASSUME TypeOK, NEW c \in Client, ClientStep(c)
  PROVE  OthersKept(c)
<1> USE DEF TypeOK, OthersKept
<1>1. ASSUME NEW q \in Asks[c], Ask(c, q) PROVE OthersKept(c)
  BY <1>1 DEF Ask
<1>2. CASE CacheHit(c)
  BY <1>2 DEF CacheHit, Replies, callVars
<1>3. CASE CacheMiss(c) \/ CacheError(c)
  BY <1>3 DEF CacheMiss, CacheError, RepliesError, Replies, callVars
<1>4. CASE HttpFails(c)
  BY <1>4 DEF HttpFails, RepliesError, Replies, callVars
<1>5. ASSUME NEW result \in Result, HttpFetched(c, result) PROVE OthersKept(c)
  BY <1>5 DEF HttpFetched, callVars
<1>6. CASE WsSend(c) \/ WsLags(c)
  BY <1>6 DEF WsSend, WsLags, RepliesError, Replies, callVars
<1>7. ASSUME NEW o \in out, NEW result \in Result, WsReceive(c, o, result) PROVE OthersKept(c)
  BY <1>7 DEF WsReceive, callVars
<1>8. CASE CacheQuery(c) \/ CachePanics(c)
  BY <1>8 DEF CacheQuery, CachePanics, callVars
<1>9. CASE SendReply(c)
  BY <1>9 DEF SendReply
<1> QED
  BY <1>1, <1>2, <1>3, <1>4, <1>5, <1>6, <1>7, <1>8, <1>9 DEF ClientStep, HttpStep, WsStep

(* What a step of client c must show: its own call, what is out, and what  *)
(* is stored.                                                              *)
LEMMA OwnCallSuffices ==
  ASSUME CallsInv, TypeOK', NEW c \in Client, OthersKept(c), gave_up \subseteq gave_up',
         CallMeansAsked(c)', OutIsAwaited', AnswerIsToCall(c)', StoredAnswersKey'
  PROVE  CallsInv'
<1>1. ASSUME NEW d \in Client \ {c} PROVE CallMeansAsked(d)'
  BY DEF CallsInv, CallMeansAsked, OthersKept
<1>2. ASSUME NEW d \in Client \ {c} PROVE AnswerIsToCall(d)'
  BY DEF CallsInv, AnswerIsToCall, OthersKept
<1> QED
  BY <1>1, <1>2 DEF CallsInv

(* A step of client c that sends nothing, before or after which c is not   *)
(* waiting, leaves what is out awaited.                                    *)
LEMMA OutKept ==
  ASSUME CallsInv, NEW c \in Client, OthersKept(c), out' = out, gave_up \subseteq gave_up',
         pc[c] # "waiting" \/ c \in gave_up'
  PROVE  OutIsAwaited'
<1> SUFFICES ASSUME NEW o \in out
             PROVE  o.user \in gave_up' \/ (pc'[o.user] = "waiting" /\ o.to = call'[o.user])
  BY DEF OutIsAwaited
<1>1. o.user \in gave_up \/ (pc[o.user] = "waiting" /\ o.to = call[o.user])
  BY DEF CallsInv, OutIsAwaited
<1>2. o.user \in Client
  BY DEF CallsInv, TypeOK, Client
<1> QED
  BY <1>1, <1>2 DEF OthersKept

(* A step of a client's call keeps the invariant.                          *)
LEMMA ClientInv ==
  ASSUME CallsInv, NEW c \in Client, ClientStep(c)
  PROVE  CallsInv'
<1> DEFINE Own == CallMeansAsked(c)' /\ OutIsAwaited' /\ AnswerIsToCall(c)' /\ StoredAnswersKey'
<1>1. TypeOK /\ TypeOK'
  BY ClientType DEF CallsInv
<1>2. OthersKept(c)
  BY <1>1, OthersAreKept
<1>3. CallMeansAsked(c) /\ AnswerIsToCall(c) /\ OutIsAwaited /\ StoredAnswersKey
  BY DEF CallsInv
<1> SUFFICES Own /\ gave_up \subseteq gave_up'
  BY <1>1, <1>2, OwnCallSuffices
<1> USE DEF TypeOK
<1>4. ASSUME NEW q \in Asks[c], Ask(c, q) PROVE Own /\ gave_up \subseteq gave_up'
  <2>1. q \in Request
    BY CachedCallsAssumption
  <2>2. CallMeansAsked(c)'
    BY <1>1, <1>4, <2>1, Rewriting DEF Ask, CallMeansAsked, Key
  <2>3. OutIsAwaited'
    BY <1>2, <1>4, OutKept DEF Ask, history
  <2> QED
    BY <1>1, <1>3, <1>4, <2>2, <2>3 DEF Ask, history, AnswerIsToCall, StoredAnswersKey
<1>5. CASE CacheHit(c)
  <2>1. OutIsAwaited'
    BY <1>2, <1>5, OutKept DEF CacheHit, history
  <2>2. AnswerIsToCall(c)'
    BY <1>1, <1>3, <1>5
    DEF CacheHit, Replies, Response, CachedId, AnswerIsToCall, StoredAnswersKey, callVars
  <2> QED
    BY <1>1, <1>3, <1>5, <2>1, <2>2
    DEF CacheHit, Replies, CallMeansAsked, StoredAnswersKey, callVars, history
<1>6. CASE CacheMiss(c)
  <2>1. OutIsAwaited'
    BY <1>2, <1>6, OutKept DEF CacheMiss, history
  <2> QED
    BY <1>1, <1>3, <1>6, <2>1
    DEF CacheMiss, CallMeansAsked, AnswerIsToCall, StoredAnswersKey, callVars, history
<1>7. CASE CacheError(c) \/ HttpFails(c)
  <2>1. OutIsAwaited'
    BY <1>2, <1>7, OutKept DEF CacheError, HttpFails, history
  <2>2. answer'[c] = NoAnswer /\ pc[c] # "idle"
    BY <1>1, <1>7 DEF CacheError, HttpFails, RepliesError, Replies
  <2>3. AnswerIsToCall(c)'
    BY <1>1, <1>7, <2>2
    DEF CacheError, HttpFails, RepliesError, Replies, NoAnswer, Response, AnswerIsToCall
  <2> QED
    BY <1>1, <1>3, <1>7, <2>1, <2>2, <2>3
    DEF CacheError, HttpFails, CallMeansAsked, StoredAnswersKey, callVars, history
<1>8. ASSUME NEW result \in Result, HttpFetched(c, result) PROVE Own /\ gave_up \subseteq gave_up'
  <2>1. OutIsAwaited'
    BY <1>2, <1>8, OutKept DEF HttpFetched, history
  <2>2. AnswerIsToCall(c)'
    BY <1>1, <1>8 DEF HttpFetched, Response, AnswerIsToCall, callVars
  <2> QED
    BY <1>1, <1>3, <1>8, <2>1, <2>2
    DEF HttpFetched, CallMeansAsked, StoredAnswersKey, callVars, history
<1>9. CASE WsSend(c)
  <2>1. OutIsAwaited'
    <3> SUFFICES ASSUME NEW o \in out'
                 PROVE  o.user \in gave_up' \/ (pc'[o.user] = "waiting" /\ o.to = call'[o.user])
      BY DEF OutIsAwaited
    <3>1. pc'[c] = "waiting" /\ call' = call /\ gave_up' = gave_up
      BY <1>1, <1>9 DEF WsSend, callVars, history
    <3>2. CASE o \in out
      BY <1>1, <1>2, <1>3, <3>1, <3>2, <1>9 DEF OutIsAwaited, OthersKept, WsSend, Client
    <3>3. CASE o = [user |-> c, to |-> call[c]]
      BY <3>1, <3>3
    <3> QED
      BY <1>9, <3>2, <3>3 DEF WsSend
  <2> QED
    BY <1>1, <1>3, <1>9, <2>1
    DEF WsSend, CallMeansAsked, AnswerIsToCall, StoredAnswersKey, callVars, history
<1>10. CASE WsLags(c)
  <2>1. OutIsAwaited'
    BY <1>2, <1>10, OutKept DEF WsLags
  <2>2. answer'[c] = NoAnswer /\ pc[c] # "idle"
    BY <1>1, <1>10 DEF WsLags, RepliesError, Replies
  <2>3. AnswerIsToCall(c)'
    BY <1>1, <1>10, <2>2 DEF WsLags, RepliesError, Replies, NoAnswer, Response, AnswerIsToCall
  <2> QED
    BY <1>1, <1>3, <1>10, <2>1, <2>2, <2>3 DEF WsLags, CallMeansAsked, StoredAnswersKey, callVars
<1>11. ASSUME NEW o \in out, NEW result \in Result, WsReceive(c, o, result)
       PROVE  Own /\ gave_up \subseteq gave_up'
  <2>1. o.user = c /\ (c \in gave_up \/ o.to = call[c])
    BY <1>3, <1>11 DEF OutIsAwaited, WsReceive
  <2>2. OutIsAwaited'
    <3> SUFFICES ASSUME NEW x \in out'
                 PROVE  x.user \in gave_up' \/ (pc'[x.user] = "waiting" /\ x.to = call'[x.user])
      BY DEF OutIsAwaited
    <3>1. x \in out /\ x # o /\ call' = call /\ gave_up' = gave_up
      BY <1>11 DEF WsReceive, callVars, history
    <3>2. x.user \in gave_up \/ (pc[x.user] = "waiting" /\ x.to = call[x.user])
      BY <1>3, <3>1 DEF OutIsAwaited
    <3>3. x.user = c => c \in gave_up
      <4>1. x \in [user : Ws, to : Request] /\ o \in [user : Ws, to : Request]
        BY <1>1, <3>1
      <4> QED
        BY <2>1, <3>1, <3>2, <4>1
    <3>4. x.user \in Client
      BY <1>1, <3>1 DEF Client
    <3> QED
      BY <1>2, <3>1, <3>2, <3>3, <3>4 DEF OthersKept
  <2>3. AnswerIsToCall(c)'
    BY <1>1, <1>11, <2>1 DEF WsReceive, Response, AnswerIsToCall, callVars, history
  <2> QED
    BY <1>1, <1>3, <1>11, <2>2, <2>3
    DEF WsReceive, CallMeansAsked, StoredAnswersKey, callVars, history
<1>12. CASE CacheQuery(c)
  <2>1. OutIsAwaited'
    BY <1>2, <1>12, OutKept DEF CacheQuery
  <2>2. AnswerIsToCall(c)' /\ CallMeansAsked(c)'
    BY <1>1, <1>3, <1>12 DEF CacheQuery, AnswerIsToCall, CallMeansAsked, callVars
  <2>3. StoredAnswersKey'
    <3>1. CASE CanCache(c) /\ NamesBlock(call[c]) /\ Store(c)
      <4>1. key[c] = call[c] /\ (answer[c].to = call[c] \/ c \in gave_up)
        BY <1>3, <1>12 DEF CacheQuery, CallMeansAsked, AnswerIsToCall
      <4>2. NamesBlock(key[c]) /\ ~HasBlockTag(key[c])
        BY <3>1, <4>1 DEF CanCache, CacheMethod
      <4> QED
        BY <1>3, <3>1, <4>1, <4>2 DEF Store, StoredAnswersKey
    <3>2. CASE UNCHANGED <<db, tainted>>
      BY <1>3, <3>2 DEF StoredAnswersKey
    <3> QED
      BY <1>12, <3>1, <3>2 DEF CacheQuery
  <2> QED
    BY <1>12, <2>1, <2>2, <2>3 DEF CacheQuery
<1>13. CASE CachePanics(c)
  <2>1. OutIsAwaited'
    BY <1>2, <1>13, OutKept DEF CachePanics, history
  <2> QED
    BY <1>1, <1>3, <1>13, <2>1
    DEF CachePanics, CallMeansAsked, AnswerIsToCall, StoredAnswersKey, callVars, history
<1>14. CASE SendReply(c)
  <2>1. OutIsAwaited'
    BY <1>2, <1>14, OutKept DEF SendReply, history
  <2> QED
    BY <1>1, <1>3, <1>14, <2>1
    DEF SendReply, CallMeansAsked, AnswerIsToCall, StoredAnswersKey, NoAnswer, Response, history
<1> QED
  BY <1>4, <1>5, <1>6, <1>7, <1>8, <1>9, <1>10, <1>11, <1>12, <1>13, <1>14
  DEF ClientStep, HttpStep, WsStep

(* The steps around the calls keep it too: they add nothing to what is     *)
(* stored and to what is out.                                              *)
LEMMA EnvironmentInv ==
  ASSUME CallsInv, Environment
  PROVE  CallsInv'
<1>1. TypeOK'
  BY EnvironmentType DEF CallsInv
<1>2. pc' = pc /\ answer' = answer /\ gave_up' = gave_up /\ UNCHANGED callVars /\ out' \subseteq out
  BY DEF Environment, NewHead, SafeBlock, WsUnread, Delete, history
<1>3. StoredAnswersKey'
  BY DEF Environment, NewHead, SafeBlock, WsUnread, Delete, history, StoredAnswersKey, CallsInv
<1>4. \A c \in Client : CallMeansAsked(c)' /\ AnswerIsToCall(c)'
  BY <1>2 DEF CallsInv, CallMeansAsked, AnswerIsToCall, callVars
<1>5. OutIsAwaited'
  BY <1>2 DEF CallsInv, OutIsAwaited, callVars
<1> QED
  BY <1>1, <1>3, <1>4, <1>5 DEF CallsInv

(* Every step keeps the invariant.                                         *)
LEMMA CallsInvPreserved == CallsInv /\ [Next]_vars => CallsInv'
<1> SUFFICES ASSUME CallsInv, [Next]_vars PROVE CallsInv'
  OBVIOUS
<1>1. CASE Environment
  BY <1>1, EnvironmentInv
<1>2. ASSUME NEW c \in Client, ClientStep(c) PROVE CallsInv'
  BY <1>2, ClientInv
<1>3. CASE UNCHANGED vars
  BY <1>3 DEF vars, callVars, history, CallsInv, TypeOK, CallMeansAsked, OutIsAwaited,
    AnswerIsToCall, StoredAnswersKey
<1> QED
  BY <1>1, <1>2, <1>3 DEF Next

(* The invariant holds throughout.                                         *)
LEMMA CallsInvHolds == Spec => []CallsInv
<1>1. Init => CallsInv
  BY InitInv
<1>2. CallsInv /\ [Next]_vars => CallsInv'
  BY CallsInvPreserved
<1> QED
  BY <1>1, <1>2, PTL DEF Spec

-----------------------------------------------------------------------------
(* For any number of HTTP and WebSocket clients and any requests, what is  *)
(* stored under a key answers that key, unless a user that gave up an      *)
(* earlier call stored it.                                                 *)
THEOREM StoredAnswersKeyHolds == Spec => []StoredAnswersKey
<1>1. CallsInv => StoredAnswersKey
  BY DEF CallsInv
<1> QED
  BY <1>1, CallsInvHolds, PTL

(* A reply with a result answers what the client asked for, under its id,  *)
(* wherever it came from, with the exceptions RepliesMatch names.          *)
THEOREM RepliesMatchHolds == Spec => []RepliesMatch
<1>1. CallsInv => RepliesMatch
  <2> SUFFICES ASSUME CallsInv, NEW c \in Client, pc[c] = "reply", answer[c].result = "result"
               PROVE  /\ answer[c].id = IdOf(c)
                      /\ \/ Answers(asked[c], answer[c].to, at[c])
                         \/ answer[c].from = "node" /\ c \in gave_up
                         \/ answer[c].from = "tainted"
    BY DEF RepliesMatch
  <2>1. CallMeansAsked(c) /\ AnswerIsToCall(c)
    BY DEF CallsInv
  <2>2. answer[c].from \in {"cache", "tainted", "node", "blutgang"}
    BY DEF CallsInv, TypeOK
  <2> QED
    BY <2>1, <2>2 DEF CallMeansAsked, AnswerIsToCall
<1> QED
  BY <1>1, CallsInvHolds, PTL
=============================================================================
