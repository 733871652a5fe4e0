---------------------------- MODULE WsConnections ----------------------------
(***************************************************************************)
(* The WebSocket connections to the nodes (websocket/client.rs) and the    *)
(* tasks that keep them up: ws_conn_manager with its handles and its       *)
(* buffer, the two tasks of every connection (ws_conn), the                *)
(* dropped_listener of health/check.rs and the newHeads subscriber of      *)
(* health/safe_block.rs, which ask the manager to reconnect.               *)
(*                                                                         *)
(* A message is followed from the task that makes it to its answer.  It is *)
(* made once; what it says is abstracted to whether it is a subscription   *)
(* and whether it is for one node.  A move of subscriptions asks for each  *)
(* of them in a message and waits for all answers; one message stands for  *)
(* them here.  What a move does to the subscriptions is in Subscriptions.  *)
(***************************************************************************)
EXTENDS Naturals, Sequences, FiniteSets

CONSTANTS
  Rpc,          \* the nodes, by Rpc::id
  NoWs,         \* those without a ws_url
  Calls,        \* messages that are no subscriptions
  Subs,         \* eth_subscribe messages of clients
  NewHeads,     \* the eth_subscribe of the newHeads subscriber
  Moves,        \* eth_subscribe messages of move_subscriptions
  Unsubs,       \* eth_unsubscribe messages, which name their node
  NoRpc,        \* specified_node = None
  Slots,        \* bound: connections of one node at a time are 1..Slots
  MaxInbox,     \* bound: messages waiting when another is made
  MaxBreaks     \* bound on how many tasks of connections end by themselves

Subscriptions == Subs \cup Moves \cup {NewHeads}
Msg  == Calls \cup Unsubs \cup Subscriptions
Conn == Rpc \X (1..Slots)

ASSUME WsAssumption ==
  /\ IsFiniteSet(Rpc) /\ NoWs \subseteq Rpc /\ NoRpc \notin Rpc
  /\ Slots \in Nat /\ MaxInbox \in Nat /\ MaxBreaks \in Nat
  /\ LET kinds == <<Calls, Subs, Moves, Unsubs, {NewHeads}>>
     IN  \A i, j \in 1..5 : i # j => kinds[i] \cap kinds[j] = {}
  /\ "reconnect" \notin Msg

VARIABLES
  rpc_list,     \* the active list
  incoming,     \* the manager's channel
  handles,      \* WsConnections.handles: the slot of each node's connection
  ws_buffer,    \* subscriptions that found no node
  pc,           \* where the manager is
  connecting,   \* the RPCs it is opening connections to
  unloading,    \* what it took out of the buffer and has to send
  senders,      \* the connections whose sending task runs
  receivers,    \* the connections whose receiving task runs
  channel,      \* the channel between a handle and the sending task
  pending,      \* what a node was sent on a connection and has not answered
  breaks,       \* how many tasks of connections have ended by themselves
  closed,       \* Closed messages for the dropped listener
  listener,     \* where the dropped listener is
  heads,        \* where the newHeads subscriber is
  fate          \* history: what became of each message

managerVars == <<handles, ws_buffer, pc, connecting, unloading>>
connVars    == <<senders, receivers, channel, pending, breaks>>
vars == <<rpc_list, incoming, managerVars, connVars, closed, listener, heads, fate>>

Reconnect      == [id |-> "reconnect", to |-> NoRpc]    \* WsconnMessage::Reconnect
Message(m, r)  == [id |-> m, to |-> r]                  \* WsconnMessage::Message
Dead           == 0       \* the slot of a connection that was never opened
Becomes(S, f)    == [m \in Msg |-> IF m \in S THEN f ELSE fate[m]]
Elements(s)    == {s[i] : i \in 1..Len(s)}

-----------------------------------------------------------------------------
(* Opening connections.                                                    *)

Referenced(c) == c[1] \in DOMAIN handles /\ handles[c[1]] = c[2]
Free(c) == c \notin senders \cup receivers /\ channel[c] = <<>> /\ ~Referenced(c)

(* Connections that can be opened: connecting fails without a ws_url, and  *)
(* beyond the bound on connections.  The lowest slot is taken.             *)
Slot(r) == CHOOSE g \in 1..Slots :
             Free(<<r, g>>) /\ \A k \in 1..Slots : Free(<<r, k>>) => g <= k
CanOpen(r) == r \notin NoWs /\ \E g \in 1..Slots : Free(<<r, g>>)

(* open returns a handle to each r of S in any case; only those of ok      *)
(* have a connection behind it.                                            *)
Opened(S, ok) == [r \in S |-> IF r \in ok THEN Slot(r) ELSE Dead]
NewConns(ok)  == {<<r, Slot(r)>> : r \in ok}

-----------------------------------------------------------------------------
(* ws_conn_manager.                                                        *)

(* reconnect clones the list; the connections are opened without a lock,   *)
(* and connect_async has no timeout: a node that accepts a connection and  *)
(* never finishes the handshake holds the manager up for good.  Nobody     *)
(* else sees the handles, so that all of them are open is one step: what   *)
(* others do meanwhile can as well happen before or after it.              *)
StartReconnect ==
  /\ pc = "recv" /\ connecting = {} /\ incoming # <<>> /\ Head(incoming) = Reconnect
  /\ incoming' = Tail(incoming)
  /\ connecting' = rpc_list
  /\ pc' = "reconnect"
  /\ UNCHANGED <<rpc_list, handles, ws_buffer, unloading, connVars, closed, listener, heads, fate>>

(* A sending task whose handle is dropped sends the rest and ends; the     *)
(* receiving task stays.                                                   *)
Sending == {c \in senders : channel[c] # <<>>}

(* unload_buffer follows at once, with all that is in the buffer.  One     *)
(* mutant leaves a copy there, the other forgets to unload.                *)
TakeBufferCopy == unloading' = ws_buffer /\ UNCHANGED ws_buffer
TakeBufferNot  == unloading' = <<>> /\ UNCHANGED ws_buffer
TakeBuffer     == unloading' = ws_buffer /\ ws_buffer' = <<>>

Replace(ok) ==
  /\ pc = "reconnect"
  /\ ok \subseteq {r \in connecting : CanOpen(r)}
  /\ handles' = Opened(connecting, ok)
  /\ senders' = Sending \cup NewConns(ok)
  /\ receivers' = receivers \cup NewConns(ok)
  /\ connecting' = {}
  /\ TakeBuffer
  /\ pc' = IF unloading' = <<>> THEN "recv" ELSE "unload"
  /\ UNCHANGED <<rpc_list, incoming, channel, pending, breaks, closed, listener, heads, fate>>

(* A handle takes a message unless its sending task is gone; h and opened  *)
(* are the handles, and the connections just opened.                       *)
Deliver(m, r, h, opened) ==
  /\ handles' = h
  /\ senders' = senders \cup opened
  /\ receivers' = receivers \cup opened
  /\ LET c == <<r, h[r]>>
         alive == r \in DOMAIN h /\ c \in senders \cup opened
     IN  \/ /\ alive
            /\ channel' = [channel EXCEPT ![c] = Append(@, m)]
            /\ UNCHANGED fate
         \/ /\ ~alive
            /\ fate' = Becomes({m.id}, "over")
            /\ UNCHANGED channel
  /\ UNCHANGED ws_buffer

(* To the node that was named, which may have no connection.               *)
SendTo(m) == m.to # NoRpc /\ Deliver(m, m.to, handles, {})

(* To a node of the list that has a handle, or is given one first: the     *)
(* message, which stays at the head of its queue here, waits for that.     *)
SendPicked(m, r) ==
  /\ m.to = NoRpc /\ r \in rpc_list /\ r \in DOMAIN handles
  /\ Deliver(m, r, handles, {})

StartOpening(m, r) ==
  /\ connecting = {}
  /\ m.to = NoRpc /\ r \in rpc_list \ DOMAIN handles
  /\ connecting' = {r}
  /\ UNCHANGED <<rpc_list, incoming, handles, ws_buffer, pc, unloading, connVars, closed,
                 listener, heads, fate>>

SendOpening(m, r, ok) ==
  /\ connecting = {r}
  /\ ok \subseteq {q \in {r} : CanOpen(q)}
  /\ Deliver(m, r,
             [q \in DOMAIN handles \cup {r} |-> IF q = r THEN Opened({r}, ok)[r] ELSE handles[q]],
             NewConns(ok))

(* No node: a subscription waits in the buffer, anything else is gone.   *)
Bufferable(m) == m.id \in Subscriptions

SendNowhere(m) ==
  /\ m.to = NoRpc /\ rpc_list = {}
  /\ \/ Bufferable(m) /\ ws_buffer' = Append(ws_buffer, m) /\ UNCHANGED fate
     \/ ~Bufferable(m) /\ fate' = Becomes({m.id}, "over") /\ UNCHANGED ws_buffer
  /\ UNCHANGED <<handles, senders, receivers, channel>>

Send(m) ==
  /\ \/ /\ connecting = {}
        /\ SendTo(m) \/ (\E r \in Rpc : SendPicked(m, r)) \/ SendNowhere(m)
     \/ \E r \in Rpc : SendOpening(m, r, {}) \/ SendOpening(m, r, {r})
  /\ connecting' = {}
  /\ UNCHANGED <<rpc_list, pending, breaks, closed, listener, heads>>

SendMessage ==
  /\ pc = "recv" /\ incoming # <<>> /\ Head(incoming) # Reconnect
  /\ incoming' = Tail(incoming)
  /\ Send(Head(incoming))
  /\ UNCHANGED <<pc, unloading>>

Unload ==
  /\ pc = "unload"
  /\ Send(Head(unloading))
  /\ unloading' = Tail(unloading)
  /\ pc' = IF Len(unloading) = 1 THEN "recv" ELSE "unload"
  /\ UNCHANGED incoming

(* send opens a connection for a message of either queue.                  *)
OpenFirst ==
  \/ /\ pc = "recv" /\ incoming # <<>> /\ Head(incoming) # Reconnect
     /\ \E r \in Rpc : StartOpening(Head(incoming), r)
  \/ pc = "unload" /\ \E r \in Rpc : StartOpening(Head(unloading), r)

-----------------------------------------------------------------------------
(* ws_conn: the two tasks of a connection.                                 *)

(* Closed carries the Rpc::id; the mutant, a position.                     *)
ReportPosition(c) == closed' = Append(closed, c[2])
Report(c)         == closed' = Append(closed, c[1])

(* What is sent after the other side is gone is never answered.            *)
SenderSends(c) ==
  /\ c \in senders /\ channel[c] # <<>>
  /\ channel' = [channel EXCEPT ![c] = Tail(@)]
  /\ senders' = IF Referenced(c) \/ Len(channel[c]) > 1 THEN senders ELSE senders \ {c}
  /\ LET m == Head(channel[c]).id
     IN  \/ /\ c \in receivers
            /\ pending' = [pending EXCEPT ![c] = @ \cup {m}]
            /\ UNCHANGED fate
         \/ /\ c \notin receivers
            /\ fate' = Becomes({m}, "over")
            /\ UNCHANGED pending
  /\ UNCHANGED <<rpc_list, incoming, managerVars, receivers, breaks, closed, listener, heads>>

(* The task ends, and what is in its channel is gone.  The mutant leaves   *)
(* it to the receiving task to report it.                                  *)
ReportSenderNot(c) == UNCHANGED closed
ReportSender(c)  == Report(c)

SenderFails(c) ==
  /\ c \in senders /\ channel[c] # <<>>
  /\ breaks < MaxBreaks /\ breaks' = breaks + 1
  /\ senders' = senders \ {c}
  /\ fate' = Becomes({m.id : m \in Elements(channel[c])}, "over")
  /\ channel' = [channel EXCEPT ![c] = <<>>]
  /\ ReportSender(c)
  /\ UNCHANGED <<rpc_list, incoming, managerVars, receivers, pending, listener, heads>>

(* An answer is broadcast to everyone who waits.  Both movers give their   *)
(* messages the same ids, so any answer to a move releases both.           *)
ToMove(m, who, next) == IF who = "moving" /\ m \in Moves THEN next ELSE who

Answer(c, m) ==
  /\ c \in receivers /\ m \in pending[c]
  /\ pending' = [pending EXCEPT ![c] = @ \ {m}]
  /\ fate' = Becomes({m}, IF m \in Subscriptions THEN "answered" ELSE "over")
  /\ listener' = ToMove(m, listener, "released")
  /\ heads' = IF m = NewHeads THEN "idle" ELSE ToMove(m, heads, "idle")
  /\ UNCHANGED <<rpc_list, incoming, managerVars, senders, receivers, channel, breaks, closed>>

(* The stream fails, which is reported, or just ends, which is not.        *)
ReceiverEnds(c, reports) ==
  /\ c \in receivers
  /\ breaks < MaxBreaks /\ breaks' = breaks + 1
  /\ receivers' = receivers \ {c}
  /\ fate' = Becomes(pending[c], "over")
  /\ pending' = [pending EXCEPT ![c] = {}]
  /\ \/ reports /\ Report(c)
     \/ ~reports /\ UNCHANGED closed
  /\ UNCHANGED <<rpc_list, incoming, managerVars, senders, channel, listener, heads>>

-----------------------------------------------------------------------------
(* dropped_listener and the newHeads subscriber.                           *)

(* move_subscriptions: an eth_unsubscribe to the node for what it had and  *)
(* an eth_subscribe to whichever node is picked; it waits for the answers  *)
(* to the latter.  At most one message stands for all of a kind, and there *)
(* is none of them before any subscription was made.                       *)
One(S, r)       == IF S = {} THEN <<>> ELSE <<Message(CHOOSE m \in S : TRUE, r)>>
Asked(r, U, M)  == One(U, r) \o One(M, NoRpc)
Unmade(S) ==
  {{}} \cup {{m} : m \in {x \in S : /\ fate[x] = "unmade"
                                   /\ \E s \in Subscriptions : fate[s] = "answered"}}

Dropped(U, M) ==
  /\ listener = "idle" /\ closed # <<>>
  /\ U \in Unmade(Unsubs) /\ M \in Unmade(Moves)
  /\ closed' = Tail(closed)
  /\ rpc_list' = rpc_list \ {Head(closed)}
  /\ incoming' = incoming \o Asked(Head(closed), U, M)
  /\ fate' = Becomes(U \cup M, "underway")
  /\ listener' = IF M = {} THEN "released" ELSE "moving"
  /\ UNCHANGED <<managerVars, connVars, heads>>

(* A message without an id, which every notification is, or a lag: the     *)
(* move is an error.                                                       *)
MoveInterrupted ==
  /\ \/ listener = "moving" /\ listener' = "released" /\ UNCHANGED heads
     \/ heads = "moving" /\ heads' = "idle" /\ UNCHANGED listener
  /\ UNCHANGED <<rpc_list, incoming, managerVars, connVars, closed, fate>>

(* The listener asks for a reconnect however the move ended; the mutant    *)
(* waits until an RPC is left.                                             *)
MoveOverAndLeft == listener = "released" /\ rpc_list # {}
MoveOver        == listener = "released"

ListenerReconnects ==
  /\ MoveOver
  /\ listener' = "idle"
  /\ incoming' = Append(incoming, Reconnect)
  /\ UNCHANGED <<rpc_list, managerVars, connVars, closed, heads, fate>>

(* No head for the expected block time: reconnect, and move what node r    *)
(* had, if it is known.                                                    *)
HeadsTimeout(r, U, M) ==
  /\ heads = "idle" /\ Len(incoming) < MaxInbox
  /\ U \in Unmade(Unsubs) /\ M \in Unmade(Moves)
  /\ incoming' = Append(incoming, Reconnect) \o Asked(r, U, M)
  /\ fate' = Becomes(U \cup M, "underway")
  /\ heads' = IF M = {} THEN "idle" ELSE "moving"
  /\ UNCHANGED <<rpc_list, managerVars, connVars, closed, listener>>

-----------------------------------------------------------------------------
(* The others.                                                             *)

(* A client's call, and the dispatcher's eth_unsubscribe to a node.        *)
MakeMessage(m, r) ==
  /\ fate[m] = "unmade" /\ Len(incoming) < MaxInbox
  /\ (r = NoRpc) <=> (m \in Calls \cup Subs)
  /\ fate' = Becomes({m}, "underway")
  /\ incoming' = Append(incoming, Message(m, r))
  /\ UNCHANGED <<rpc_list, managerVars, connVars, closed, listener, heads>>

(* The health check and the admin namespace.                               *)
PoolChanges(list) ==
  /\ rpc_list' = list
  /\ \E r \in Rpc : list \in {rpc_list \cup {r}, rpc_list \ {r}}
  /\ UNCHANGED <<incoming, managerVars, connVars, closed, listener, heads, fate>>

-----------------------------------------------------------------------------
(* The manager connects before it receives anything; the newHeads          *)
(* subscriber's message is the first.                                      *)
Init ==
  /\ rpc_list \in SUBSET Rpc
  /\ incoming = <<Message(NewHeads, NoRpc)>>
  /\ handles = [r \in {} |-> Dead] /\ ws_buffer = <<>>
  /\ pc = "reconnect" /\ connecting = rpc_list /\ unloading = <<>>
  /\ senders = {} /\ receivers = {}
  /\ channel = [c \in Conn |-> <<>>] /\ pending = [c \in Conn |-> {}]
  /\ breaks = 0 /\ closed = <<>> /\ listener = "idle" /\ heads = "subscribing"
  /\ fate = [m \in Msg |-> IF m = NewHeads THEN "underway" ELSE "unmade"]

Manager ==
  \/ StartReconnect \/ SendMessage \/ Unload \/ OpenFirst
  \/ \E ok \in SUBSET Rpc : Replace(ok)

Connections ==
  \E c \in Conn :
    \/ SenderSends(c) \/ SenderFails(c)
    \/ \E m \in Msg : Answer(c, m)
    \/ \E reports \in BOOLEAN : ReceiverEnds(c, reports)

DropHandled == \E U \in SUBSET Unsubs, M \in SUBSET Moves : Dropped(U, M)
TimesOut    == \E r \in Rpc, U \in SUBSET Unsubs, M \in SUBSET Moves : HeadsTimeout(r, U, M)

Keepers ==
  \/ DropHandled \/ ListenerReconnects \/ TimesOut \/ MoveInterrupted

Others ==
  \/ \E m \in Calls \cup Subs \cup Unsubs, r \in Rpc \cup {NoRpc} : MakeMessage(m, r)
  \/ \E list \in SUBSET Rpc : PoolChanges(list)

Next == Manager \/ Connections \/ Keepers \/ Others

Spec == Init /\ [][Next]_vars

(* Tasks that can go on do.  A connection that the manager opens may take  *)
(* for ever, and so may a write to a node: nothing is asked of nodes or of *)
(* the network.  The newHeads subscriber times out again and again: no     *)
(* head arrives.                                                           *)
FairSpec ==
  /\ Spec
  /\ WF_vars(connecting = {} /\ Manager)
  /\ WF_vars(DropHandled) /\ WF_vars(ListenerReconnects) /\ WF_vars(TimesOut)

-----------------------------------------------------------------------------
InFlight == [id : Msg, to : Rpc \cup {NoRpc}]

(* The types of the variables.  Closed messages name RPCs by their ids,    *)
(* and a handle is one of the connections there are.                       *)
TypeOK ==
  /\ rpc_list \subseteq Rpc /\ connecting \subseteq Rpc
  /\ incoming \in Seq(InFlight \cup {Reconnect})
  /\ DOMAIN handles \subseteq Rpc
  /\ \A r \in DOMAIN handles : handles[r] \in 0..Slots
  /\ ws_buffer \in Seq(InFlight) /\ unloading \in Seq(InFlight)
  /\ pc \in {"recv", "reconnect", "unload"}
  /\ senders \subseteq Conn /\ receivers \subseteq Conn
  /\ channel \in [Conn -> Seq(InFlight)]
  /\ pending \in [Conn -> SUBSET Msg]
  /\ breaks \in 0..MaxBreaks /\ closed \in Seq(Rpc)
  /\ listener \in {"idle", "moving", "released"}
  /\ heads \in {"subscribing", "idle", "moving"}
  /\ fate \in [Msg -> {"unmade", "underway", "answered", "over"}]

Occurs(m, s)    == Cardinality({i \in 1..Len(s) : s[i].id = m})
InConns(m)      == {c \in Conn : m \in pending[c]}
InChannels(m)   ==
  UNION {{c} \X {i \in 1..Len(channel[c]) : channel[c][i].id = m} : c \in Conn}
Copies(m) ==
  Occurs(m, incoming) + Occurs(m, ws_buffer) + Occurs(m, unloading)
    + Cardinality(InChannels(m)) + Cardinality(InConns(m))

(* Nothing is lost or sent twice unawares: a message that was made and is  *)
(* neither answered nor given up (at a handle without a connection, with a *)
(* connection, or for want of a node) is in exactly one place, be it taken *)
(* out of the buffer and put back, or in the channel of a connection that  *)
(* was replaced.                                                           *)
OnePlace == \A m \in Msg : Copies(m) = (IF fate[m] = "underway" THEN 1 ELSE 0)

Broken(r) ==
  r \in DOMAIN handles /\ handles[r] # Dead /\ <<r, handles[r]>> \notin senders

(* A handle whose sending task has failed is not left behind: the failure  *)
(* is on its way to the dropped listener, or the reconnect that replaces   *)
(* the handle is on its way to the manager.  (A handle that never had a    *)
(* connection is: nobody is told.)                                         *)
BrokenIsReported ==
  \A r \in Rpc : Broken(r) =>
    \/ r \in Elements(closed)
    \/ listener # "idle"
    \/ Reconnect \in Elements(incoming)
    \/ pc = "reconnect"

(* Every connection the manager starts to open is opened or fails, which   *)
(* nodes and network decide; it is a premise where it is needed.           *)
OpeningEnds == []<>(connecting = {})

(* A handle whose sending task has failed is replaced, unless the manager  *)
(* waits for ever for a connection it opens, or the dropped listener for   *)
(* the answer to a move.                                                   *)
BrokenReplaced ==
  OpeningEnds /\ []<>(listener # "moving") => \A r \in Rpc : []<>~Broken(r)

Buffered(m) == \E i \in 1..Len(ws_buffer) : ws_buffer[i].id = m

(* A buffered subscription leaves the buffer with the next reconnect, if   *)
(* there is a node by then, unless the manager waits for ever for a        *)
(* connection it opens.                                                    *)
UnloadedOnReconnect ==
  OpeningEnds =>
    \A m \in Subscriptions :
      (Buffered(m) /\ Reconnect \in Elements(incoming)) ~> (~Buffered(m) \/ rpc_list = {})

(* unload_buffer "dispatches buffered WS subscriptions out to nodes" once  *)
(* there are nodes again, and connections to them can be opened or fail.   *)
BufferedAreSent ==
  OpeningEnds /\ <>[](rpc_list # {}) => \A m \in Subscriptions : []<>~Buffered(m)
=============================================================================
