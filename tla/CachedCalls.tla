----------------------------- MODULE CachedCalls -----------------------------
(***************************************************************************)
(* JSON-RPC calls of HTTP clients (balancer/accept_http.rs) and of         *)
(* WebSocket clients (execute_ws_call in websocket/client.rs) that share   *)
(* one cache: how block tags are rewritten (balancer/format.rs), which     *)
(* responses are stored and served (selection/cache_rules.rs and           *)
(* processing.rs), and the named block numbers both depend on              *)
(* (health/safe_block.rs).                                                 *)
(*                                                                         *)
(* A request is its method and its params; the key of a request, a hash of *)
(* it without its id, is the request.  A response is the request it        *)
(* answers and whether it is a result.  The id of a client's calls is the  *)
(* client.  Requests that are refused as they are (no object, no header)   *)
(* change nothing and are left out, and so are those that name block 0,    *)
(* which here stands for a named block that is not known.  What reorgs     *)
(* remove from the cache is in HeadCache, how an RPC is picked in          *)
(* Forwarding, and the calls that are subscriptions are in Subscriptions.  *)
(***************************************************************************)
EXTENDS Naturals, Sequences

CONSTANTS
  Http,         \* clients over HTTP, one request at a time
  Ws,           \* clients over WebSocket; their task does one call at a time
  Methods,      \* the methods that are asked for
  Textual,      \* the clients whose ids are not unsigned integers
  Asks,         \* what each client asks for
  MaxBlock,     \* bound on block numbers
  MaxFinal      \* bound on finalized block numbers

Client == Http \cup Ws

-----------------------------------------------------------------------------
(* Requests.                                                               *)

Tags == {"latest", "earliest", "safe", "finalized", "pending"}    \* NamedNumber

Tag(t) == [tag |-> t, num |-> 0]
Num(n) == [tag |-> "number", num |-> n]
Param  == {Tag(t) : t \in Tags} \cup {Num(n) : n \in 1..MaxBlock}
            \cup {Tag("other"),       \* not a block number
                  Tag("short")}       \* less than two characters, such as 5
Request == [method : Methods \cup {"none"}, params : Seq(Param)]

ASSUME CachedCallsAssumption ==
  /\ Http \cap Ws = {} /\ MaxBlock \in Nat
  /\ MaxFinal \in 0..MaxBlock
  /\ Asks \in [Client -> SUBSET Request]

(* EthRpcMethod::get_position, counted from 1; 0 for none.                 *)
Position(m) ==
  CASE m \in {"eth_getBlockTransactionCountByNumber", "eth_getUncleCountByBlockNumber",
              "eth_getBlockByNumber", "eth_getTransactionByBlockNumberAndIndex",
              "eth_getUncleByBlockNumberAndIndex"} -> 1
    [] m \in {"eth_getBalance", "eth_getTransactionCount", "eth_getCode", "eth_call"} -> 2
    [] m = "eth_getStorageAt" -> 3
    [] OTHER -> 0

(* The position of the block param of a request, 0 if it has none.         *)
BlockAt(q) == IF Position(q.method) <= Len(q.params) THEN Position(q.method) ELSE 0

(* has_block_tag looks at the whole request, has_named_number at the block *)
(* param.                                                                  *)
HasBlockTag(q) == \E i \in 1..Len(q.params) : q.params[i].tag \in Tags

(* Only latest and finalized are rewritten, and only once they are known.  *)
(* The mutant does not look whether they are.                              *)
ResolvesAlways(t, n) == t \in {"latest", "finalized"}
Resolves(t, n) == t \in {"latest", "finalized"} /\ n[t] # 0

ReplaceBlockTags(q, n) ==
  LET i == BlockAt(q)
  IN  IF i # 0 /\ Resolves(q.params[i].tag, n)
      THEN [method |-> q.method, params |-> [q.params EXCEPT ![i] = Num(n[q.params[i].tag])]]
      ELSE q

(* get_block_number_from_request: a missing or odd block is no number, and *)
(* a short one is a panic.  The tags it knows are not left here.           *)
NamesBlock(q) == BlockAt(q) # 0 /\ q.params[BlockAt(q)].tag = "number"
Panics(q)     == BlockAt(q) # 0 /\ q.params[BlockAt(q)].tag = "short"

Blacklist == {"eth_blockNumber", "eth_getTransactionCount", "eth_subscribe", "eth_unsubscribe"}
CacheMethod(q) == ~HasBlockTag(q) /\ q.method \notin Blacklist

Result == {"result", "error"}         \* "error" also stands for null
CacheResult(r) == r = "result"

-----------------------------------------------------------------------------
VARIABLES
  named,        \* NamedBlocknumbers: latest and finalized, the ones in use
  db,           \* what is stored: key -> the request the response answers
  pc,           \* where each client's call is
  asked,        \* what it asked for
  at,           \* history: the number its block tag named when it asked
  call,         \* the request after rewriting
  key,          \* its hash
  answer,       \* the response it got, then the reply to the client
  out,          \* WS calls that were sent upstream and not answered
  gave_up,      \* history: users whose task stopped waiting for an answer
  tainted       \* history: keys stored by a call of such a user

callVars == <<asked, at, call, key>>
history  == <<gave_up, tainted>>
vars     == <<named, db, pc, callVars, answer, out, history>>

Nothing  == [method |-> "none", params |-> <<>>]
Response(id, to, result, from) == [id |-> id, to |-> to, result |-> result, from |-> from]
NoAnswer == Response("null", Nothing, "error", "blutgang")
Unknown  == [t \in {"latest", "finalized"} |-> 0]

(* A request is rewritten before it is hashed; the mutant hashes what the  *)
(* client sent.                                                            *)
KeyAsSent(q, n) == q
Key(q, n)       == ReplaceBlockTags(q, n)

Named(q, n) ==
  LET t == q.params[BlockAt(q)].tag
  IN  IF BlockAt(q) # 0 /\ t \in {"latest", "finalized"} THEN n[t] ELSE 0

(* It is looked up only if no tag is left.                                 *)
Ask(c, q) ==
  /\ pc[c] = "idle"
  /\ asked' = [asked EXCEPT ![c] = q]
  /\ at' = [at EXCEPT ![c] = Named(q, named)]
  /\ call' = [call EXCEPT ![c] = ReplaceBlockTags(q, named)]
  /\ key' = [key EXCEPT ![c] = Key(q, named)]
  /\ pc' = [pc EXCEPT ![c] = IF HasBlockTag(ReplaceBlockTags(q, named)) THEN "fetch" ELSE "lookup"]
  /\ UNCHANGED <<named, db, answer, out, history>>

(* The id of the reply: over HTTP what is not an unsigned integer is 0.    *)
IdOf(c) == IF c \in Http /\ c \in Textual THEN "0" ELSE c

(* A stored response has no id and is given the client's; the mutant       *)
(* leaves it as it is.                                                     *)
CachedIdNull(c) == "null"
CachedId(c)     == IdOf(c)

Replies(c, response) ==
  /\ answer' = [answer EXCEPT ![c] = response]
  /\ pc' = [pc EXCEPT ![c] = "reply"]

(* An error of Blutgang's own.                                             *)
RepliesError(c) == Replies(c, NoAnswer)

CacheHit(c) ==
  /\ pc[c] = "lookup"
  /\ key[c] \in DOMAIN db
  /\ Replies(c, Response(CachedId(c), db[key[c]], "result",
                         IF key[c] \in tainted THEN "tainted" ELSE "cache"))
  /\ UNCHANGED <<named, db, callVars, out, history>>

(* Not stored, or the database could not read it.                          *)
CacheMiss(c) ==
  /\ pc[c] = "lookup"
  /\ pc' = [pc EXCEPT ![c] = "fetch"]
  /\ UNCHANGED <<named, db, callVars, answer, out, history>>

(* The database task is gone: an error over HTTP, a miss over WebSocket.   *)
CacheError(c) ==
  /\ pc[c] = "lookup" /\ c \in Http
  /\ RepliesError(c)
  /\ UNCHANGED <<named, db, callVars, out, history>>

-----------------------------------------------------------------------------
(* HTTP: the response belongs to the request it was sent for.              *)

HttpFetched(c, result) ==
  /\ c \in Http /\ pc[c] = "fetch"
  /\ answer' = [answer EXCEPT ![c] = Response(IdOf(c), call[c], result, "node")]
  /\ pc' = [pc EXCEPT ![c] = "cache"]
  /\ UNCHANGED <<named, db, callVars, out, history>>

(* No RPC is available, or all attempts timed out.                         *)
HttpFails(c) ==
  /\ c \in Http /\ pc[c] = "fetch"
  /\ RepliesError(c)
  /\ UNCHANGED <<named, db, callVars, out, history>>

-----------------------------------------------------------------------------
(* WebSocket: calls go out under the user's id, and an answer is           *)
(* recognised by it alone.                                                 *)

WsSend(u) ==
  /\ u \in Ws /\ pc[u] = "fetch"
  /\ out' = out \cup {[user |-> u, to |-> call[u]]}
  /\ pc' = [pc EXCEPT ![u] = "waiting"]
  /\ UNCHANGED <<named, db, callVars, answer, history>>

WsReceive(u, o, result) ==
  /\ u \in Ws /\ pc[u] = "waiting" /\ o \in out /\ o.user = u
  /\ out' = out \ {o}
  /\ answer' = [answer EXCEPT ![u] = Response(IdOf(u), o.to, result, "node")]
  /\ pc' = [pc EXCEPT ![u] = "cache"]
  /\ UNCHANGED <<named, db, callVars, history>>

(* The receiver of broadcasts lagged: the call is an error, and its answer *)
(* may come yet.  Bound: once for each user.                               *)
WsLags(u) ==
  /\ u \in Ws /\ pc[u] = "waiting" /\ u \notin gave_up
  /\ gave_up' = gave_up \cup {u}
  /\ RepliesError(u)
  /\ UNCHANGED <<named, db, callVars, out, tainted>>

(* An answer that nobody waits for, or that never comes.                   *)
WsUnread(o) ==
  /\ o \in out
  /\ out' = out \ {o}
  /\ UNCHANGED <<named, db, pc, callVars, answer, history>>

-----------------------------------------------------------------------------
(* cache_query, and the reply.                                             *)

CanCache(c) == CacheMethod(call[c]) /\ CacheResult(answer[c].result)

Store(c) ==
  /\ db' = [k \in DOMAIN db \cup {key[c]} |-> IF k = key[c] THEN answer[c].to ELSE db[k]]
  /\ tainted' = IF c \in gave_up THEN tainted \cup {key[c]} ELSE tainted \ {key[c]}

CacheQuery(c) ==
  /\ pc[c] = "cache"
  /\ ~(CanCache(c) /\ Panics(call[c]))
  /\ \/ CanCache(c) /\ NamesBlock(call[c]) /\ Store(c)
     \/ UNCHANGED <<db, tainted>>     \* not to be stored, or the write failed
  /\ pc' = [pc EXCEPT ![c] = "reply"]
  /\ UNCHANGED <<named, callVars, answer, out, gave_up>>

(* Slicing the block param panics: the task ends, and there is no reply.   *)
CachePanics(c) ==
  /\ pc[c] = "cache"
  /\ CanCache(c) /\ Panics(call[c])
  /\ pc' = [pc EXCEPT ![c] = "gone"]
  /\ UNCHANGED <<named, db, callVars, answer, out, history>>

(* The client is sent the reply; the next call of it may follow.           *)
SendReply(c) ==
  /\ pc[c] = "reply"
  /\ pc' = [pc EXCEPT ![c] = "idle"]
  /\ answer' = [answer EXCEPT ![c] = NoAnswer]
  /\ asked' = [asked EXCEPT ![c] = Nothing]
  /\ call' = [call EXCEPT ![c] = Nothing]
  /\ key' = [key EXCEPT ![c] = Nothing]
  /\ at' = [at EXCEPT ![c] = 0]
  /\ UNCHANGED <<named, db, out, history>>

-----------------------------------------------------------------------------
(* The named numbers and the database.                                     *)

(* A new head, which may be below the last one; on a timeout it is 0.      *)
NewHead(n) ==
  /\ named' = [named EXCEPT !["latest"] = n]
  /\ UNCHANGED <<db, pc, callVars, answer, out, history>>

(* get_safe_block: the highest of what the nodes say, 0 if none answers.   *)
SafeBlock(n) ==
  /\ named' = [named EXCEPT !["finalized"] = n]
  /\ UNCHANGED <<db, pc, callVars, answer, out, history>>

(* A response is deleted after a reorg.                                    *)
Delete(k) ==
  /\ k \in DOMAIN db
  /\ db' = [j \in DOMAIN db \ {k} |-> db[j]]
  /\ tainted' = tainted \ {k}
  /\ UNCHANGED <<named, pc, callVars, answer, out, gave_up>>

Init ==
  /\ named = Unknown
  /\ db = [k \in {} |-> Nothing]
  /\ pc = [c \in Client |-> "idle"]
  /\ asked = [c \in Client |-> Nothing]
  /\ at = [c \in Client |-> 0]
  /\ call = [c \in Client |-> Nothing] /\ key = [c \in Client |-> Nothing]
  /\ answer = [c \in Client |-> NoAnswer]
  /\ out = {} /\ gave_up = {} /\ tainted = {}

HttpStep(c) == HttpFails(c) \/ \E result \in Result : HttpFetched(c, result)

WsStep(u) ==
  \/ WsSend(u) \/ WsLags(u)
  \/ \E o \in out, result \in Result : WsReceive(u, o, result)

ClientStep(c) ==
  \/ \E q \in Asks[c] : Ask(c, q)
  \/ CacheHit(c) \/ CacheMiss(c) \/ CacheError(c)
  \/ HttpStep(c) \/ WsStep(c)
  \/ CacheQuery(c) \/ CachePanics(c) \/ SendReply(c)

Environment ==
  \/ \E n \in 0..MaxBlock : NewHead(n)
  \/ \E n \in 0..MaxFinal : SafeBlock(n)
  \/ \E o \in out : WsUnread(o)
  \/ \E k \in DOMAIN db : Delete(k)

Next == Environment \/ \E c \in Client : ClientStep(c)

Spec == Init /\ [][Next]_vars

-----------------------------------------------------------------------------
(* The types of the variables.  A rewritten request never names block 0,   *)
(* which stands for a latest or finalized block that is not known.         *)
TypeOK ==
  /\ named \in [{"latest", "finalized"} -> 0..MaxBlock]
  /\ DOMAIN db \subseteq Request /\ \A k \in DOMAIN db : db[k] \in Request
  /\ pc \in [Client -> {"idle", "lookup", "fetch", "waiting", "cache", "reply", "gone"}]
  /\ asked \in [Client -> Request] /\ at \in [Client -> 0..MaxBlock]
  /\ call \in [Client -> Request] /\ key \in [Client -> Request]
  /\ answer \in [Client -> [id : Client \cup {"0", "null"}, to : Request, result : Result,
                            from : {"cache", "tainted", "node", "blutgang"}]]
  /\ out \subseteq [user : Ws, to : Request]
  /\ gave_up \subseteq Ws /\ tainted \subseteq DOMAIN db

(* What is stored under a key answers the request of that key, and the key *)
(* names its block by number: whoever asks gets the response to what they  *)
(* asked, whenever they do.  Not so for what a call stored whose user had  *)
(* given up an earlier one, as it may have taken the answer to that.       *)
StoredAnswersKey ==
  \A k \in DOMAIN db :
    /\ NamesBlock(k) /\ ~HasBlockTag(k)
    /\ k \in tainted \/ db[k] = k

Meant(p, r, n) == p = r \/ (p.tag \in {"latest", "finalized"} /\ r = Num(n))

Answers(q, r, n) ==
  /\ r.method = q.method
  /\ Len(r.params) = Len(q.params)
  /\ \A i \in 1..Len(q.params) : Meant(q.params[i], r.params[i], n)

(* A result answers the request the client made, with the client's id: the *)
(* same method and params, but for latest or finalized where it may be the *)
(* block that had this name when the client asked.  The exceptions are as  *)
(* for StoredAnswersKey.                                                   *)
RepliesMatch ==
  \A c \in Client :
    (pc[c] = "reply" /\ answer[c].result = "result") =>
      /\ answer[c].id = IdOf(c)
      /\ \/ Answers(asked[c], answer[c].to, at[c])
         \/ answer[c].from = "node" /\ c \in gave_up
         \/ answer[c].from = "tainted"
=============================================================================
