------------------------- MODULE WsConnectionsProofs -------------------------
(***************************************************************************)
(* The connections to the nodes, for every set of nodes and messages and   *)
(* every bound: no broken handle goes unnoticed, and every message is in   *)
(* one place from when it is made until it is answered or given up.        *)
(***************************************************************************)
EXTENDS WsConnections, SequenceTheorems, FiniteSetTheorems, WellFoundedInduction, TLAPS

(* The manager has taken subscriptions out of the buffer exactly while it  *)
(* sends them.                                                             *)
UnloadHeld == pc = "unload" <=> unloading # <<>>

-----------------------------------------------------------------------------
(* Operators.                                                              *)

(* The slot of a connection that can be opened is a free one.              *)
LEMMA SlotFree ==
  ASSUME NEW r \in Rpc, CanOpen(r)
  PROVE  Slot(r) \in 1..Slots /\ Free(<<r, Slot(r)>>)
  <1> DEFINE S == {g \in 1..Slots : Free(<<r, g>>)}
  <1>1. S \subseteq Nat /\ S # {}
    BY DEF CanOpen
  <1>2. PICK g \in S : \A k \in S : ~(<<k, g>> \in OpToRel(<, Nat))
    <2> HIDE DEF S
    <2> QED BY <1>1, NatLessThanWellFounded, WFMin
  <1>3. \A k \in 1..Slots : Free(<<r, k>>) => g <= k
    <2>1. ASSUME NEW k \in 1..Slots, Free(<<r, k>>), ~(g <= k) PROVE FALSE
      <3>1. k \in S /\ k \in Nat /\ g \in Nat /\ k < g
        <4>1. k \in S /\ g \in S
          BY <1>2, <2>1
        <4>2. k \in Nat /\ g \in Nat
          BY <1>1, <4>1
        <4> QED BY <2>1, <4>1, <4>2
      <3>2. <<k, g>> \in OpToRel(<, Nat)
        BY <3>1 DEF OpToRel
      <3> QED BY <1>2, <3>1, <3>2
    <2> QED BY <2>1
  <1>4. \E x \in 1..Slots : Free(<<r, x>>) /\ \A k \in 1..Slots : Free(<<r, k>>) => x <= k
    BY <1>2, <1>3
  <1> QED BY <1>4 DEF Slot

(* A handle that open returns has a connection behind it or none at all.   *)
LEMMA OpenedHandles ==
  ASSUME NEW S \in SUBSET Rpc, NEW ok \in SUBSET S, \A r \in ok : CanOpen(r)
  PROVE  /\ NewConns(ok) \subseteq Conn
         /\ DOMAIN Opened(S, ok) = S
         /\ \A r \in S : Opened(S, ok)[r] \in 0..Slots
         /\ \A r \in S : \/ Opened(S, ok)[r] = Dead
                         \/ <<r, Opened(S, ok)[r]>> \in NewConns(ok)
  <1>1. \A r \in ok : r \in Rpc /\ Slot(r) \in 1..Slots
    BY SlotFree
  <1>2. Dead \in 0..Slots /\ \A g \in 1..Slots : g \in 0..Slots
    BY WsAssumption DEF Dead
  <1> QED BY <1>1, <1>2 DEF Opened, NewConns, Conn

(* What a message is.                                                      *)
LEMMA MessageType ==
  ASSUME NEW m \in Msg, NEW r \in Rpc \cup {NoRpc}
  PROVE  Message(m, r) \in InFlight /\ Message(m, r).id = m
  BY DEF Message, InFlight

(* A reconnect is not a message: nothing of InFlight is one.               *)
LEMMA ReconnectIsNone ==
  /\ Reconnect.id \notin Msg
  /\ \A m \in InFlight : m.id \in Msg /\ m.to \in Rpc \cup {NoRpc} /\ m # Reconnect
  BY WsAssumption DEF Reconnect, InFlight

(* The kinds of messages are messages.                                     *)
LEMMA MessageKinds ==
  /\ Calls \subseteq Msg /\ Subs \subseteq Msg /\ Moves \subseteq Msg /\ Unsubs \subseteq Msg
  /\ NewHeads \in Msg /\ Subscriptions \subseteq Msg
  BY DEF Msg, Subscriptions

(* No message is an eth_unsubscribe and a move.                            *)
LEMMA UnsubsAreNoMoves == Unsubs \cap Moves = {}
  <1> DEFINE kinds == <<Calls, Subs, Moves, Unsubs, {NewHeads}>>
  <1>1. kinds[3] = Moves /\ kinds[4] = Unsubs
    OBVIOUS
  <1>2. \A i, j \in 1..5 : i # j => kinds[i] \cap kinds[j] = {}
    BY WsAssumption
  <1> HIDE DEF kinds
  <1>3. kinds[4] \cap kinds[3] = {}
    BY <1>2
  <1> QED BY <1>1, <1>3

(* A change of what became of some messages.                               *)
LEMMA BecomesType ==
  ASSUME TypeOK, NEW S, NEW f \in {"unmade", "underway", "answered", "over"}
  PROVE  /\ Becomes(S, f) \in [Msg -> {"unmade", "underway", "answered", "over"}]
         /\ \A m \in Msg : Becomes(S, f)[m] = IF m \in S THEN f ELSE fate[m]
  BY DEF Becomes, TypeOK

(* At most one message of a kind is asked for.                             *)
LEMMA UnmadeSets ==
  ASSUME NEW S \in SUBSET Msg, NEW T \in Unmade(S)
  PROVE  /\ T \subseteq S
         /\ \A m \in T : fate[m] = "unmade"
         /\ T = {} \/ \E m \in S : T = {m}
  BY DEF Unmade

-----------------------------------------------------------------------------
(* What sending a message does.                                            *)

(* A handle takes the message, or it is gone.                              *)
LEMMA DeliverEffect ==
  ASSUME TypeOK, NEW m, NEW r, NEW h, NEW opened, Deliver(m, r, h, opened),
         opened \subseteq Conn
  PROVE  /\ handles' = h /\ senders' = senders \cup opened /\ receivers' = receivers \cup opened
         /\ ws_buffer' = ws_buffer
         /\ \/ \E c \in Conn : /\ channel' = [channel EXCEPT ![c] = Append(@, m)]
                               /\ UNCHANGED fate
            \/ channel' = channel /\ fate' = Becomes({m.id}, "over")
  BY DEF Deliver, TypeOK

(* The manager sends: the message goes into the channel of a connection or *)
(* into the buffer, or is gone; a handle it opens is no broken one.        *)
LEMMA SendEffect ==
  ASSUME TypeOK, NEW m \in InFlight, Send(m)
  PROVE  /\ UNCHANGED <<rpc_list, pending, breaks, closed, listener, heads>> /\ connecting' = {}
         /\ DOMAIN handles' \subseteq Rpc
         /\ \A q \in DOMAIN handles' :
              /\ handles'[q] \in 0..Slots
              /\ \/ q \in DOMAIN handles /\ handles'[q] = handles[q]
                 \/ handles'[q] = Dead
                 \/ <<q, handles'[q]>> \in senders'
         /\ senders \subseteq senders' /\ senders' \subseteq Conn /\ receivers' \subseteq Conn
         /\ \/ \E c \in Conn : /\ channel' = [channel EXCEPT ![c] = Append(@, m)]
                               /\ UNCHANGED <<fate, ws_buffer>>
            \/ UNCHANGED <<channel, ws_buffer>> /\ fate' = Becomes({m.id}, "over")
            \/ ws_buffer' = Append(ws_buffer, m) /\ UNCHANGED <<channel, fate>>
  <1>1. UNCHANGED <<rpc_list, pending, breaks, closed, listener, heads>> /\ connecting' = {}
    BY DEF Send
  <1>2. /\ DOMAIN handles \subseteq Rpc /\ \A q \in DOMAIN handles : handles[q] \in 0..Slots
        /\ senders \subseteq Conn /\ receivers \subseteq Conn
    BY DEF TypeOK
  <1>3. CASE SendTo(m) \/ \E r \in Rpc : SendPicked(m, r)
    <2>1. PICK r : Deliver(m, r, handles, {})
      BY <1>3 DEF SendTo, SendPicked
    <2>2. /\ handles' = handles /\ senders' = senders \cup {} /\ receivers' = receivers \cup {}
          /\ ws_buffer' = ws_buffer
          /\ \/ \E c \in Conn : /\ channel' = [channel EXCEPT ![c] = Append(@, m)]
                                /\ UNCHANGED fate
             \/ channel' = channel /\ fate' = Becomes({m.id}, "over")
      <3>1. /\ handles' = handles /\ senders' = senders \cup {} /\ receivers' = receivers \cup {}
            /\ ws_buffer' = ws_buffer
        BY <2>1 DEF Deliver
      <3>2. \/ \E c \in Conn : /\ channel' = [channel EXCEPT ![c] = Append(@, m)]
                                /\ UNCHANGED fate
            \/ channel' = channel /\ fate' = Becomes({m.id}, "over")
        BY <2>1 DEF Deliver, TypeOK
      <3> QED BY <3>1, <3>2
    <2> QED BY <1>1, <1>2, <2>2
  <1>4. CASE \E r \in Rpc : SendOpening(m, r, {}) \/ SendOpening(m, r, {r})
    <2>1. PICK r \in Rpc, ok \in SUBSET Rpc : ok \subseteq {r} /\ SendOpening(m, r, ok)
      BY <1>4
    <2> DEFINE h == [q \in DOMAIN handles \cup {r} |->
                       IF q = r THEN Opened({r}, ok)[r] ELSE handles[q]]
    <2>2. ok \subseteq {r} /\ (\A q \in ok : CanOpen(q)) /\ Deliver(m, r, h, NewConns(ok))
      BY <2>1 DEF SendOpening
    <2>3. /\ NewConns(ok) \subseteq Conn /\ Opened({r}, ok)[r] \in 0..Slots
          /\ Opened({r}, ok)[r] = Dead \/ <<r, Opened({r}, ok)[r]>> \in NewConns(ok)
      BY <2>2, OpenedHandles
    <2>4. /\ DOMAIN h \subseteq Rpc
          /\ \A q \in DOMAIN h :
               /\ h[q] \in 0..Slots
               /\ \/ q \in DOMAIN handles /\ h[q] = handles[q]
                  \/ h[q] = Dead \/ <<q, h[q]>> \in NewConns(ok)
      BY <1>2, <2>3
    <2> HIDE DEF h
    <2>5. /\ handles' = h /\ senders' = senders \cup NewConns(ok)
          /\ receivers' = receivers \cup NewConns(ok) /\ ws_buffer' = ws_buffer
          /\ \/ \E c \in Conn : /\ channel' = [channel EXCEPT ![c] = Append(@, m)]
                                /\ UNCHANGED fate
             \/ channel' = channel /\ fate' = Becomes({m.id}, "over")
      BY <2>2, <2>3, DeliverEffect
    <2> QED BY <1>1, <1>2, <2>3, <2>4, <2>5
  <1>5. CASE SendNowhere(m)
    BY <1>1, <1>2, <1>5 DEF SendNowhere
  <1> QED BY <1>3, <1>4, <1>5 DEF Send

-----------------------------------------------------------------------------
(* The types.                                                              *)

TypeInv == TypeOK /\ UnloadHeld

LEMMA InitTypeInv == Init => TypeInv
  <1> SUFFICES ASSUME Init PROVE TypeInv
    OBVIOUS
  <1>1. Message(NewHeads, NoRpc) \in InFlight
    BY MessageType, MessageKinds
  <1>2. incoming \in Seq(InFlight \cup {Reconnect})
    BY <1>1 DEF Init
  <1>3. /\ handles = [r \in {} |-> Dead] /\ DOMAIN handles = {}
        /\ channel \in [Conn -> Seq(InFlight)] /\ pending \in [Conn -> SUBSET Msg]
        /\ fate \in [Msg -> {"unmade", "underway", "answered", "over"}]
        /\ breaks \in 0..MaxBreaks
    BY WsAssumption DEF Init
  <1> QED BY <1>2, <1>3 DEF Init, TypeInv, TypeOK, UnloadHeld

(* A queue that is not empty.                                              *)
LEMMA QueueTypes ==
  ASSUME NEW S, NEW q \in Seq(S), q # <<>>
  PROVE  Head(q) \in S /\ Tail(q) \in Seq(S) /\ Len(Tail(q)) = Len(q) - 1
  BY HeadTailProperties

(* send starts to open a connection, and does nothing else yet.            *)
LEMMA OpenFirstOpens ==
  ASSUME OpenFirst
  PROVE  /\ \E r \in Rpc : r \in rpc_list /\ connecting' = {r}
         /\ UNCHANGED <<rpc_list, incoming, handles, ws_buffer, pc, unloading, connVars, closed,
                        listener, heads, fate>>
  BY DEF OpenFirst, StartOpening

(* The manager.                                                            *)
LEMMA SendTypes ==
  ASSUME TypeOK, NEW m \in InFlight, Send(m),
         incoming' \in Seq(InFlight \cup {Reconnect}), unloading' \in Seq(InFlight),
         pc' \in {"recv", "reconnect", "unload"}
  PROVE  TypeOK'
  <1>1. m.id \in Msg
    BY ReconnectIsNone
  <1>2. channel' \in [Conn -> Seq(InFlight)] /\ ws_buffer' \in Seq(InFlight)
    <2>1. /\ channel \in [Conn -> Seq(InFlight)] /\ ws_buffer \in Seq(InFlight)
          /\ \A q \in Seq(InFlight) : Append(q, m) \in Seq(InFlight)
      BY DEF TypeOK
    <2>2. \/ channel' = channel
          \/ \E c \in Conn : channel' = [channel EXCEPT ![c] = Append(@, m)]
      BY SendEffect
    <2>3. ws_buffer' = ws_buffer \/ ws_buffer' = Append(ws_buffer, m)
      BY SendEffect
    <2> QED BY <2>1, <2>2, <2>3
  <1>3. fate' \in [Msg -> {"unmade", "underway", "answered", "over"}]
    <2>1. fate' = fate \/ fate' = Becomes({m.id}, "over")
      BY SendEffect
    <2> QED BY <2>1, BecomesType DEF TypeOK
  <1>4. /\ DOMAIN handles' \subseteq Rpc /\ \A q \in DOMAIN handles' : handles'[q] \in 0..Slots
        /\ senders' \subseteq Conn /\ receivers' \subseteq Conn
        /\ UNCHANGED <<rpc_list, pending, breaks, closed, listener, heads>> /\ connecting' = {}
    BY SendEffect
  <1> QED BY <1>2, <1>3, <1>4 DEF TypeOK

LEMMA ManagerTypes ==
  ASSUME TypeInv, Manager
  PROVE  TypeInv'
  <1> USE DEF TypeInv
  <1>1. CASE StartReconnect
    <2>1. incoming' \in Seq(InFlight \cup {Reconnect})
      BY <1>1, QueueTypes DEF StartReconnect, TypeOK
    <2> QED BY <1>1, <2>1 DEF StartReconnect, TypeOK, UnloadHeld, connVars
  <1>2. CASE SendMessage
    <2>1. Head(incoming) \in InFlight /\ incoming' \in Seq(InFlight \cup {Reconnect})
      BY <1>2, QueueTypes DEF SendMessage, TypeOK
    <2>2. Send(Head(incoming)) /\ UNCHANGED <<pc, unloading>>
      BY <1>2 DEF SendMessage
    <2>3. TypeOK'
      BY <2>1, <2>2, SendTypes DEF TypeOK
    <2> QED BY <2>2, <2>3 DEF UnloadHeld
  <1>3. CASE Unload
    <2>1. /\ pc = "unload" /\ unloading # <<>> /\ unloading \in Seq(InFlight)
          /\ Send(Head(unloading)) /\ unloading' = Tail(unloading)
          /\ UNCHANGED incoming
          /\ pc' = IF Len(unloading) = 1 THEN "recv" ELSE "unload"
      BY <1>3 DEF Unload, UnloadHeld, TypeOK
    <2>2. Head(unloading) \in InFlight /\ unloading' \in Seq(InFlight)
          /\ Len(unloading') = Len(unloading) - 1
      BY <2>1, QueueTypes
    <2>3. TypeOK'
      BY <2>1, <2>2, SendTypes DEF TypeOK
    <2>4. unloading' # <<>> <=> Len(unloading) # 1
      <3>1. Len(unloading) \in Nat /\ (unloading' = <<>> <=> Len(unloading') = 0)
        BY <2>1, <2>2, EmptySeq, LenProperties
      <3> QED BY <2>2, <3>1
    <2> QED BY <2>1, <2>3, <2>4 DEF UnloadHeld
  <1>4. ASSUME NEW ok \in SUBSET Rpc, Replace(ok) PROVE TypeInv'
    <2>1. /\ connecting \in SUBSET Rpc /\ ok \in SUBSET connecting /\ \A r \in ok : CanOpen(r)
          /\ handles' = Opened(connecting, ok)
      BY <1>4 DEF Replace, TypeOK
    <2>2. /\ NewConns(ok) \subseteq Conn /\ DOMAIN handles' \subseteq Rpc
          /\ \A r \in DOMAIN handles' : handles'[r] \in 0..Slots
      BY <2>1, OpenedHandles
    <2>3. senders' \subseteq Conn /\ receivers' \subseteq Conn
      BY <1>4, <2>2 DEF Replace, Sending, TypeOK
    <2>4. unloading' = ws_buffer /\ ws_buffer' = <<>> /\ ws_buffer' \in Seq(InFlight)
      BY <1>4 DEF Replace, TakeBuffer
    <2> QED BY <1>4, <2>2, <2>3, <2>4 DEF Replace, TypeOK, UnloadHeld
  <1>5. CASE OpenFirst
    BY <1>5, OpenFirstOpens DEF TypeOK, UnloadHeld, connVars
  <1> QED BY <1>1, <1>2, <1>3, <1>4, <1>5 DEF Manager

(* The connections' tasks.                                                 *)
LEMMA ConnectionTypes ==
  ASSUME TypeInv, Connections
  PROVE  TypeInv'
  <1> USE DEF TypeInv
  <1>1. PICK c \in Conn : \/ SenderSends(c) \/ SenderFails(c) \/ (\E m \in Msg : Answer(c, m))
                          \/ (\E reports \in BOOLEAN : ReceiverEnds(c, reports))
    BY DEF Connections
  <1>2. c[1] \in Rpc
    BY DEF Conn
  <1>3. UNCHANGED <<rpc_list, incoming, managerVars>>
    BY <1>1 DEF SenderSends, SenderFails, Answer, ReceiverEnds
  <1>4. UnloadHeld'
    BY <1>3 DEF UnloadHeld, managerVars
  <1>5. closed' \in Seq(Rpc)
    <2>1. closed' = closed \/ closed' = Append(closed, c[1])
      BY <1>1 DEF SenderSends, SenderFails, Answer, ReceiverEnds, ReportSender, Report
    <2>2. closed \in Seq(Rpc) /\ Append(closed, c[1]) \in Seq(Rpc)
      BY <1>2 DEF TypeOK
    <2> QED BY <2>1, <2>2
  <1>6. \A S : \A f \in {"over", "answered"} :
          Becomes(S, f) \in [Msg -> {"unmade", "underway", "answered", "over"}]
    BY BecomesType
  <1>7. fate' \in [Msg -> {"unmade", "underway", "answered", "over"}]
    <2>1. fate' = fate \/ \E S : \E f \in {"over", "answered"} : fate' = Becomes(S, f)
      <3>1. CASE SenderSends(c) \/ SenderFails(c)
        BY <3>1 DEF SenderSends, SenderFails
      <3>2. ASSUME NEW m \in Msg, Answer(c, m) 
            PROVE  \E S : \E f \in {"over", "answered"} : fate' = Becomes(S, f)
        BY <3>2 DEF Answer
      <3>3. ASSUME NEW reports, ReceiverEnds(c, reports) PROVE fate' = Becomes(pending[c], "over")
        BY <3>3 DEF ReceiverEnds
      <3> QED BY <1>1, <3>1, <3>2, <3>3
    <2> QED BY <1>6, <2>1 DEF TypeOK
  <1>8. /\ listener' \in {"idle", "moving", "released"}
        /\ heads' \in {"subscribing", "idle", "moving"}
    BY <1>1 DEF SenderSends, SenderFails, Answer, ReceiverEnds, ToMove, TypeOK
  <1>9. /\ senders' \subseteq Conn /\ receivers' \subseteq Conn
        /\ breaks' \in 0..MaxBreaks
    <2>1. breaks' = breaks \/ (breaks < MaxBreaks /\ breaks' = breaks + 1)
      BY <1>1 DEF SenderSends, SenderFails, Answer, ReceiverEnds
    <2>2. senders' \subseteq senders /\ receivers' \subseteq receivers
      BY <1>1 DEF SenderSends, SenderFails, Answer, ReceiverEnds
    <2> QED BY <2>1, <2>2, WsAssumption DEF TypeOK
  <1>10. channel' \in [Conn -> Seq(InFlight)] /\ pending' \in [Conn -> SUBSET Msg]
    <2>1. CASE SenderSends(c)
      <3>1. channel[c] \in Seq(InFlight) /\ channel[c] # <<>>
        BY <2>1 DEF SenderSends, TypeOK
      <3>2. Tail(channel[c]) \in Seq(InFlight) /\ Head(channel[c]).id \in Msg
        BY <3>1, QueueTypes, ReconnectIsNone
      <3>3. \/ pending' = [pending EXCEPT ![c] = @ \cup {Head(channel[c]).id}]
            \/ pending' = pending
        BY <2>1 DEF SenderSends
      <3> QED BY <2>1, <3>2, <3>3 DEF SenderSends, TypeOK
    <2>2. CASE SenderFails(c)
      <3>1. <<>> \in Seq(InFlight)
        OBVIOUS
      <3> QED BY <2>2, <3>1 DEF SenderFails, TypeOK
    <2>3. CASE (\E m \in Msg : Answer(c, m)) \/ (\E reports \in BOOLEAN : ReceiverEnds(c, reports))
      BY <2>3 DEF Answer, ReceiverEnds, TypeOK
    <2> QED BY <1>1, <2>1, <2>2, <2>3
  <1> QED BY <1>3, <1>4, <1>5, <1>7, <1>8, <1>9, <1>10 DEF TypeOK, managerVars

(* What a move asks for.                                                   *)
LEMMA AskedType ==
  ASSUME NEW U \in Unmade(Unsubs), NEW M \in Unmade(Moves), NEW r \in Rpc
  PROVE  /\ Asked(r, U, M) \in Seq(InFlight)
         /\ U \subseteq Msg /\ M \subseteq Msg
  <1>1. /\ U \subseteq Msg /\ M \subseteq Msg
        /\ U # {} => (CHOOSE u \in U : TRUE) \in Msg
        /\ M # {} => (CHOOSE u \in M : TRUE) \in Msg
    BY UnmadeSets, MessageKinds
  <1>2. One(U, r) \in Seq(InFlight) /\ One(M, NoRpc) \in Seq(InFlight)
    BY <1>1, MessageType DEF One
  <1> QED BY <1>1, <1>2 DEF Asked

(* The tasks that keep connections up.                                     *)
LEMMA KeeperTypes ==
  ASSUME TypeInv, Keepers
  PROVE  TypeInv'
  <1> USE DEF TypeInv
  <1> DEFINE Q == Seq(InFlight \cup {Reconnect})
  <1>1. ASSUME NEW U, NEW M, Dropped(U, M) PROVE TypeInv'
    <2>1. /\ U \in Unmade(Unsubs) /\ M \in Unmade(Moves) /\ closed # <<>>
          /\ closed' = Tail(closed) /\ rpc_list' = rpc_list \ {Head(closed)}
          /\ incoming' = incoming \o Asked(Head(closed), U, M)
          /\ fate' = Becomes(U \cup M, "underway")
          /\ listener' = IF M = {} THEN "released" ELSE "moving"
          /\ UNCHANGED <<managerVars, connVars, heads>>
      BY <1>1 DEF Dropped
    <2>2. Head(closed) \in Rpc /\ Tail(closed) \in Seq(Rpc)
      BY <2>1, QueueTypes DEF TypeOK
    <2>3. Asked(Head(closed), U, M) \in Seq(InFlight)
      BY <2>1, <2>2, AskedType
    <2>4. Asked(Head(closed), U, M) \in Q
      BY <2>3
    <2>5. incoming' \in Q
      BY <2>1, <2>4 DEF TypeOK
    <2>6. fate' \in [Msg -> {"unmade", "underway", "answered", "over"}]
      BY <2>1, BecomesType
    <2> QED BY <2>1, <2>2, <2>5, <2>6 DEF TypeOK, UnloadHeld, managerVars, connVars
  <1>2. CASE ListenerReconnects
    <2>1. incoming' \in Q
      BY <1>2 DEF ListenerReconnects, TypeOK
    <2> QED BY <1>2, <2>1 DEF ListenerReconnects, TypeOK, UnloadHeld, managerVars, connVars
  <1>3. ASSUME NEW r \in Rpc, NEW U, NEW M, HeadsTimeout(r, U, M) PROVE TypeInv'
    <2>1. /\ U \in Unmade(Unsubs) /\ M \in Unmade(Moves)
          /\ incoming' = Append(incoming, Reconnect) \o Asked(r, U, M)
          /\ fate' = Becomes(U \cup M, "underway")
          /\ heads' = IF M = {} THEN "idle" ELSE "moving"
          /\ UNCHANGED <<rpc_list, managerVars, connVars, closed, listener>>
      BY <1>3 DEF HeadsTimeout
    <2>2. Asked(r, U, M) \in Seq(InFlight)
      BY <2>1, AskedType
    <2>3. Asked(r, U, M) \in Q
      BY <2>2
    <2>4. Append(incoming, Reconnect) \in Q
      BY DEF TypeOK
    <2>5. incoming' \in Q
      BY <2>1, <2>3, <2>4
    <2>6. fate' \in [Msg -> {"unmade", "underway", "answered", "over"}]
      BY <2>1, BecomesType
    <2> QED BY <2>1, <2>5, <2>6 DEF TypeOK, UnloadHeld, managerVars, connVars
  <1>4. CASE MoveInterrupted
    BY <1>4 DEF MoveInterrupted, TypeOK, UnloadHeld, managerVars, connVars
  <1> QED BY <1>1, <1>2, <1>3, <1>4 DEF Keepers, DropHandled, TimesOut

(* Clients, the dispatcher and the pool.                                   *)
LEMMA OtherTypes ==
  ASSUME TypeInv, Others
  PROVE  TypeInv'
  <1> USE DEF TypeInv
  <1>1. ASSUME NEW m \in Calls \cup Subs \cup Unsubs, NEW r \in Rpc \cup {NoRpc}, MakeMessage(m, r)
        PROVE  TypeInv'
    <2>1. Message(m, r) \in InFlight
      BY MessageType, MessageKinds
    <2>2. incoming' \in Seq(InFlight \cup {Reconnect})
      BY <1>1, <2>1 DEF MakeMessage, TypeOK
    <2>3. fate' \in [Msg -> {"unmade", "underway", "answered", "over"}]
      BY <1>1, BecomesType DEF MakeMessage
    <2> QED BY <1>1, <2>2, <2>3 DEF MakeMessage, TypeOK, UnloadHeld, managerVars, connVars
  <1>2. ASSUME NEW list \in SUBSET Rpc, PoolChanges(list) PROVE TypeInv'
    BY <1>2 DEF PoolChanges, TypeOK, UnloadHeld, managerVars, connVars
  <1> QED BY <1>1, <1>2 DEF Others

LEMMA NextTypeInv == TypeInv /\ [Next]_vars => TypeInv'
<1> SUFFICES ASSUME TypeInv, [Next]_vars PROVE TypeInv'
  OBVIOUS
<1>1. CASE UNCHANGED vars
  BY <1>1 DEF vars, managerVars, connVars, TypeInv, TypeOK, UnloadHeld
<1> QED BY <1>1, ManagerTypes, ConnectionTypes, KeeperTypes, OtherTypes DEF Next

-----------------------------------------------------------------------------
(* Broken handles are noticed.                                             *)

LEMMA ElementsOfQueues ==
  ASSUME NEW S, NEW q \in Seq(S)
  PROVE  /\ \A x \in S : Elements(Append(q, x)) = Elements(q) \cup {x}
         /\ \A t \in Seq(S) : Elements(q \o t) = Elements(q) \cup Elements(t)
         /\ q # <<>> => Elements(q) = {Head(q)} \cup Elements(Tail(q))
  <1>1. ASSUME NEW x \in S PROVE Elements(Append(q, x)) = Elements(q) \cup {x}
    <2>1. /\ Len(Append(q, x)) = Len(q) + 1
          /\ \A i \in 1..Len(q) : Append(q, x)[i] = q[i] /\ i \in 1..(Len(q) + 1)
          /\ Append(q, x)[Len(q) + 1] = x /\ Len(q) + 1 \in 1..(Len(q) + 1)
          /\ \A i \in 1..(Len(q) + 1) : i \in 1..Len(q) \/ i = Len(q) + 1
      OBVIOUS
    <2> QED BY <2>1 DEF Elements
  <1>2. ASSUME NEW t \in Seq(S) PROVE Elements(q \o t) = Elements(q) \cup Elements(t)
    <2>1. /\ Len(q \o t) = Len(q) + Len(t)
          /\ \A i \in 1..Len(q) : (q \o t)[i] = q[i] /\ i \in 1..(Len(q) + Len(t))
          /\ \A j \in 1..Len(t) : /\ (q \o t)[Len(q) + j] = t[j]
                                  /\ Len(q) + j \in 1..(Len(q) + Len(t))
          /\ \A i \in 1..(Len(q) + Len(t)) :
               i \in 1..Len(q) \/ \E j \in 1..Len(t) : i = Len(q) + j
      <3>1. \A i \in 1..(Len(q) + Len(t)) : i \in 1..Len(q) \/ (i - Len(q) \in 1..Len(t)
                                                            /\ i = Len(q) + (i - Len(q)))
        OBVIOUS
      <3> QED BY <3>1, ConcatProperties
    <2>2. Elements(q \o t) \subseteq Elements(q) \cup Elements(t)
      BY <2>1 DEF Elements
    <2>3. Elements(q) \subseteq Elements(q \o t) /\ Elements(t) \subseteq Elements(q \o t)
      BY <2>1 DEF Elements
    <2> QED BY <2>2, <2>3
  <1>3. ASSUME q # <<>> PROVE Elements(q) = {Head(q)} \cup Elements(Tail(q))
    <2>1. /\ Len(Tail(q)) = Len(q) - 1 /\ Head(q) = q[1] /\ 1 \in 1..Len(q)
          /\ \A i \in 1..(Len(q) - 1) : Tail(q)[i] = q[i + 1] /\ i + 1 \in 1..Len(q)
          /\ \A i \in 1..Len(q) : i = 1 \/ (i - 1 \in 1..(Len(q) - 1) /\ (i - 1) + 1 = i)
      BY <1>3
    <2>2. \A i \in 1..Len(q) : i = 1 \/ (i - 1 \in 1..(Len(q) - 1) /\ Tail(q)[i - 1] = q[i])
      BY <2>1
    <2> QED BY <2>1, <2>2 DEF Elements
  <1> QED BY <1>1, <1>2, <1>3

(* A step that breaks no handle, and keeps the reports on their way.       *)
LEMMA StillReported ==
  ASSUME BrokenIsReported,
         \A r \in Rpc : Broken(r)' => Broken(r),
         \A r \in Rpc : r \in Elements(closed) => r \in Elements(closed') \/ listener' # "idle",
         listener # "idle" => listener' # "idle" \/ Reconnect \in Elements(incoming'),
         Reconnect \in Elements(incoming) => Reconnect \in Elements(incoming') \/ pc' = "reconnect",
         pc = "reconnect" => pc' = "reconnect"
  PROVE  BrokenIsReported'
  BY DEF BrokenIsReported

(* The manager breaks no handle, and a reconnect leaves none broken.       *)
LEMMA ManagerReports ==
  ASSUME TypeInv, BrokenIsReported, Manager
  PROVE  BrokenIsReported'
  <1>1. /\ incoming \in Seq(InFlight \cup {Reconnect}) /\ connecting \in SUBSET Rpc
        /\ pc = "unload" => unloading # <<>> /\ Head(unloading) \in InFlight
    BY QueueTypes DEF TypeInv, TypeOK, UnloadHeld
  <1>2. ASSUME NEW m \in InFlight, Send(m)
        PROVE  /\ \A r \in Rpc : Broken(r)' => Broken(r)
               /\ UNCHANGED <<closed, listener>>
    BY <1>2, SendEffect DEF TypeInv, Broken
  <1>3. CASE StartReconnect
    BY <1>3 DEF StartReconnect, BrokenIsReported
  <1>4. CASE SendMessage
    <2>1. /\ incoming # <<>> /\ Head(incoming) # Reconnect /\ incoming' = Tail(incoming)
          /\ Send(Head(incoming)) /\ pc' = pc
      BY <1>4 DEF SendMessage
    <2>2. Head(incoming) \in InFlight
      BY <1>1, <2>1, QueueTypes
    <2>3. Elements(incoming) = {Head(incoming)} \cup Elements(incoming')
      BY <1>1, <2>1, ElementsOfQueues
    <2> QED BY <1>2, <2>1, <2>2, <2>3, StillReported
  <1>5. CASE Unload
    <2>1. pc = "unload" /\ Send(Head(unloading)) /\ UNCHANGED incoming
      BY <1>5 DEF Unload
    <2> QED BY <1>1, <1>2, <2>1, StillReported
  <1>6. ASSUME NEW ok \in SUBSET Rpc, Replace(ok) PROVE BrokenIsReported'
    <2>1. /\ ok \in SUBSET connecting /\ \A r \in ok : CanOpen(r)
          /\ handles' = Opened(connecting, ok) /\ NewConns(ok) \subseteq senders'
      BY <1>6 DEF Replace
    <2>2. \A r \in Rpc : ~Broken(r)'
      BY <1>1, <2>1, OpenedHandles DEF Broken
    <2> QED BY <2>2 DEF BrokenIsReported
  <1>7. CASE OpenFirst
    BY <1>7, OpenFirstOpens DEF BrokenIsReported, Broken, connVars
  <1> QED BY <1>3, <1>4, <1>5, <1>6, <1>7 DEF Manager

(* A sending task that fails reports it; one whose handle was dropped ends *)
(* unnoticed.                                                              *)
LEMMA ConnectionReports ==
  ASSUME TypeInv, BrokenIsReported, Connections
  PROVE  BrokenIsReported'
  <1>1. PICK c \in Conn : \/ SenderSends(c) \/ SenderFails(c) \/ (\E m \in Msg : Answer(c, m))
                          \/ (\E reports \in BOOLEAN : ReceiverEnds(c, reports))
    BY DEF Connections
  <1>2. c[1] \in Rpc /\ c = <<c[1], c[2]>>
    BY DEF Conn
  <1>3. UNCHANGED <<incoming, handles, pc>> /\ (listener # "idle" => listener' # "idle")
    BY <1>1 DEF SenderSends, SenderFails, Answer, ReceiverEnds, managerVars, ToMove
  <1>4. closed' = closed \/ closed' = Append(closed, c[1])
    BY <1>1 DEF SenderSends, SenderFails, Answer, ReceiverEnds, ReportSender, Report
  <1>5. Elements(closed) \subseteq Elements(closed')
        /\ (closed' = Append(closed, c[1]) => c[1] \in Elements(closed'))
    <2>1. closed \in Seq(Rpc)
      BY DEF TypeInv, TypeOK
    <2>2. Elements(Append(closed, c[1])) = Elements(closed) \cup {c[1]}
      BY <1>2, <2>1, ElementsOfQueues
    <2> QED BY <1>4, <2>2
  <1>6. CASE SenderFails(c)
    <2>1. senders' = senders \ {c} /\ c[1] \in Elements(closed')
      BY <1>5, <1>6 DEF SenderFails, ReportSender, Report
    <2>2. ASSUME NEW r \in Rpc, Broken(r)' PROVE Broken(r) \/ r = c[1]
      BY <1>2, <1>3, <2>1, <2>2 DEF Broken
    <2> QED BY <1>3, <1>5, <2>1, <2>2 DEF BrokenIsReported
  <1>7. CASE ~SenderFails(c)
    <2>1. senders' = senders \/ (senders' = senders \ {c} /\ ~Referenced(c))
      BY <1>1, <1>7 DEF SenderSends, Answer, ReceiverEnds
    <2>2. \A r \in Rpc : Broken(r)' => Broken(r)
      BY <1>2, <1>3, <2>1 DEF Broken, Referenced
    <2> QED BY <1>3, <1>5, <2>2, StillReported
  <1> QED BY <1>6, <1>7

(* The dropped listener asks for a reconnect after every report.           *)
LEMMA KeeperReports ==
  ASSUME TypeInv, BrokenIsReported, Keepers
  PROVE  BrokenIsReported'
  <1> DEFINE Q == Seq(InFlight \cup {Reconnect})
  <1>1. incoming \in Q /\ closed \in Seq(Rpc)
    BY DEF TypeInv, TypeOK
  <1>2. (\A r \in Rpc : Broken(r)' => Broken(r)) /\ pc' = pc
    BY DEF Keepers, DropHandled, Dropped, ListenerReconnects, TimesOut, HeadsTimeout,
           MoveInterrupted, managerVars, connVars, Broken
  <1>3. ASSUME NEW U, NEW M, Dropped(U, M) PROVE BrokenIsReported'
    <2>1. /\ incoming' = incoming \o Asked(Head(closed), U, M) /\ listener' # "idle"
          /\ U \in Unmade(Unsubs) /\ M \in Unmade(Moves) /\ closed # <<>>
      BY <1>3 DEF Dropped
    <2>2. Asked(Head(closed), U, M) \in Q
      <3>1. Asked(Head(closed), U, M) \in Seq(InFlight)
        BY <1>1, <2>1, QueueTypes, AskedType
      <3> QED BY <3>1
    <2>3. Elements(incoming) \subseteq Elements(incoming')
      BY <1>1, <2>1, <2>2, ElementsOfQueues
    <2> QED BY <1>2, <2>1, <2>3, StillReported
  <1>4. CASE ListenerReconnects
    <2>1. incoming' = Append(incoming, Reconnect) /\ closed' = closed
      BY <1>4 DEF ListenerReconnects
    <2>2. Reconnect \in Elements(incoming')
      BY <1>1, <2>1, ElementsOfQueues
    <2> QED BY <1>2, <2>1, <2>2, StillReported
  <1>5. ASSUME NEW r \in Rpc, NEW U, NEW M, HeadsTimeout(r, U, M) PROVE BrokenIsReported'
    <2>1. /\ incoming' = Append(incoming, Reconnect) \o Asked(r, U, M)
          /\ U \in Unmade(Unsubs) /\ M \in Unmade(Moves) /\ UNCHANGED <<closed, listener>>
      BY <1>5 DEF HeadsTimeout
    <2>2. Asked(r, U, M) \in Q /\ Append(incoming, Reconnect) \in Q
      <3>1. Asked(r, U, M) \in Seq(InFlight)
        BY <2>1, AskedType
      <3> QED BY <1>1, <3>1
    <2>3. Reconnect \in Elements(Append(incoming, Reconnect))
      BY <1>1, ElementsOfQueues
    <2>4. \A q, t \in Q : Elements(q \o t) = Elements(q) \cup Elements(t)
      BY ElementsOfQueues
    <2> HIDE DEF Q
    <2>5. Reconnect \in Elements(incoming')
      BY <2>1, <2>2, <2>3, <2>4
    <2> QED BY <1>2, <2>1, <2>5, StillReported
  <1>6. CASE MoveInterrupted
    <2>1. UNCHANGED <<incoming, closed>> /\ (listener # "idle" => listener' # "idle")
      BY <1>6 DEF MoveInterrupted
    <2> QED BY <1>2, <2>1, StillReported
  <1> QED BY <1>3, <1>4, <1>5, <1>6 DEF Keepers, DropHandled, TimesOut

LEMMA OtherReports ==
  ASSUME TypeInv, BrokenIsReported, Others
  PROVE  BrokenIsReported'
  <1>1. (\A r \in Rpc : Broken(r)' => Broken(r)) /\ UNCHANGED <<pc, closed, listener>>
    BY DEF Others, MakeMessage, PoolChanges, managerVars, connVars, Broken
  <1>2. Elements(incoming) \subseteq Elements(incoming')
    <2>1. ASSUME NEW m \in Calls \cup Subs \cup Unsubs, NEW r \in Rpc \cup {NoRpc},
                 MakeMessage(m, r)
          PROVE  Elements(incoming) \subseteq Elements(incoming')
      <3>1. Message(m, r) \in InFlight \cup {Reconnect}
        BY MessageType, MessageKinds
      <3> QED BY <2>1, <3>1, ElementsOfQueues DEF MakeMessage, TypeInv, TypeOK
    <2>2. ASSUME NEW list, PoolChanges(list) PROVE incoming' = incoming
      BY <2>2 DEF PoolChanges
    <2> QED BY <2>1, <2>2 DEF Others
  <1> QED BY <1>1, <1>2, StillReported

LEMMA NextReports == TypeInv /\ BrokenIsReported /\ [Next]_vars => BrokenIsReported'
<1> SUFFICES ASSUME TypeInv, BrokenIsReported, [Next]_vars PROVE BrokenIsReported'
  OBVIOUS
<1>1. CASE UNCHANGED vars
  BY <1>1 DEF vars, managerVars, connVars, BrokenIsReported, Broken
<1> QED BY <1>1, ManagerReports, ConnectionReports, KeeperReports, OtherReports DEF Next

(* Every variable has its type: Closed messages and handles name what      *)
(* there is.                                                               *)
THEOREM WsTypeCorrect == Spec => []TypeOK
  <1>1. TypeInv => TypeOK
    BY DEF TypeInv
  <1> QED BY <1>1, InitTypeInv, NextTypeInv, PTL DEF Spec

(* ws_conn and dropped_listener: a handle whose sending task failed is     *)
(* reported, or about to be replaced.                                      *)
THEOREM BrokenIsReportedHolds == Spec => []BrokenIsReported
  <1>1. Init => BrokenIsReported
    BY DEF Init, BrokenIsReported
  <1> QED BY <1>1, InitTypeInv, NextTypeInv, NextReports, PTL DEF Spec

-----------------------------------------------------------------------------
(* Every message is in one place.                                          *)

(* What is in a queue, and that no message is in it twice.                 *)
Ids(q)      == {x.id : x \in Elements(q)}
Distinct(q) == \A i, j \in 1..Len(q) : q[i].id = q[j].id /\ q[i].id \in Msg => i = j

AllDistinct ==
  /\ Distinct(incoming) /\ Distinct(ws_buffer) /\ Distinct(unloading)
  /\ \A c \in Conn : Distinct(channel[c])

(* With the manager, or at a connection.                                   *)
AtManager == Ids(incoming) \cup Ids(ws_buffer) \cup Ids(unloading)
At(c)     == Ids(channel[c]) \cup pending[c]

Apart ==
  \A m \in Msg :
    /\ m \in Ids(incoming) => m \notin Ids(ws_buffer) /\ m \notin Ids(unloading)
    /\ m \in Ids(ws_buffer) => m \notin Ids(unloading)
    /\ \A c \in Conn : m \in At(c) => m \notin AtManager
    /\ \A c, d \in Conn : m \in At(c) /\ m \in At(d) => c = d
    /\ \A c \in Conn : m \in Ids(channel[c]) => m \notin pending[c]

Underway ==
  \A m \in Msg : fate[m] = "underway" <=> (m \in AtManager \/ \E c \in Conn : m \in At(c))

PlaceInv == AllDistinct /\ Apart /\ Underway

(* Queues and what is in them.                                             *)
LEMMA IdsOfQueues ==
  ASSUME NEW S, NEW q \in Seq(S)
  PROVE  /\ \A x \in S : Ids(Append(q, x)) = Ids(q) \cup {x.id}
         /\ \A t \in Seq(S) : Ids(q \o t) = Ids(q) \cup Ids(t)
         /\ q # <<>> => Ids(q) = {Head(q).id} \cup Ids(Tail(q))
  BY ElementsOfQueues DEF Ids

LEMMA IdsOfNone == Ids(<<>>) = {} /\ Distinct(<<>>)
  BY DEF Ids, Elements, Distinct

LEMMA DistinctAppend ==
  ASSUME NEW S, NEW q \in Seq(S), Distinct(q), NEW x \in S,
         x.id \in Msg => x.id \notin Ids(q)
  PROVE  Distinct(Append(q, x))
  <1>1. /\ Len(Append(q, x)) = Len(q) + 1
        /\ \A i \in 1..Len(q) : Append(q, x)[i] = q[i]
        /\ Append(q, x)[Len(q) + 1] = x
        /\ \A i \in 1..(Len(q) + 1) : i \in 1..Len(q) \/ i = Len(q) + 1
    OBVIOUS
  <1>2. \A i \in 1..Len(q) : q[i].id \in Ids(q)
    BY DEF Ids, Elements
  <1> QED BY <1>1, <1>2 DEF Distinct

LEMMA DistinctTail ==
  ASSUME NEW S, NEW q \in Seq(S), Distinct(q), q # <<>>
  PROVE  /\ Distinct(Tail(q))
         /\ Head(q).id \in Msg => Head(q).id \notin Ids(Tail(q))
  <1>1. /\ Len(Tail(q)) = Len(q) - 1 /\ Head(q) = q[1] /\ 1 \in 1..Len(q)
        /\ \A i \in 1..(Len(q) - 1) : Tail(q)[i] = q[i + 1] /\ i + 1 \in 1..Len(q) /\ i + 1 # 1
    OBVIOUS
  <1>2. Distinct(Tail(q))
    <2>1. ASSUME NEW i \in 1..(Len(q) - 1), NEW j \in 1..(Len(q) - 1),
                 Tail(q)[i].id = Tail(q)[j].id, Tail(q)[i].id \in Msg
          PROVE  i = j
      <3>1. i + 1 = j + 1
        BY <1>1, <2>1 DEF Distinct
      <3> QED BY <3>1
    <2> QED BY <1>1, <2>1 DEF Distinct
  <1>3. ASSUME Head(q).id \in Msg, Head(q).id \in Ids(Tail(q)) PROVE FALSE
    <2>1. PICK i \in 1..(Len(q) - 1) : Head(q).id = q[i + 1].id
      BY <1>1, <1>3 DEF Ids, Elements
    <2> QED BY <1>1, <1>3, <2>1 DEF Distinct
  <1> QED BY <1>2, <1>3

(* A queue of at most two different messages, after a queue without them.  *)
LEMMA DistinctConcat ==
  ASSUME NEW S, NEW q \in Seq(S), NEW t \in Seq(S), Distinct(q), Distinct(t),
         \A m \in Msg : m \in Ids(t) => m \notin Ids(q)
  PROVE  Distinct(q \o t)
  <1>1. /\ Len(q \o t) = Len(q) + Len(t)
        /\ \A i \in 1..Len(q) : (q \o t)[i] = q[i]
        /\ \A i \in 1..(Len(q) + Len(t)) :
             i \in 1..Len(q) \/ (i - Len(q) \in 1..Len(t) /\ (q \o t)[i] = t[i - Len(q)])
    BY ConcatProperties
  <1>2. /\ \A i \in 1..Len(q) : q[i].id \in Ids(q)
        /\ \A i \in 1..Len(t) : t[i].id \in Ids(t)
    BY DEF Ids, Elements
  <1>3. ASSUME NEW i \in 1..(Len(q) + Len(t)), NEW j \in 1..(Len(q) + Len(t)),
               (q \o t)[i].id = (q \o t)[j].id, (q \o t)[i].id \in Msg
        PROVE  i = j
    <2>1. CASE i \in 1..Len(q) /\ j \in 1..Len(q)
      BY <1>1, <1>3, <2>1 DEF Distinct
    <2>2. CASE i \notin 1..Len(q) /\ j \notin 1..Len(q)
      <3>1. i - Len(q) = j - Len(q)
        BY <1>1, <1>3, <2>2 DEF Distinct
      <3> QED BY <3>1
    <2>3. CASE ~(i \in 1..Len(q) <=> j \in 1..Len(q))
      BY <1>1, <1>2, <1>3, <2>3
    <2> QED BY <2>1, <2>2, <2>3
  <1> QED BY <1>1, <1>3 DEF Distinct

(* What a move asks for is made by it.                                     *)
LEMMA AskedIds ==
  ASSUME NEW U \in Unmade(Unsubs), NEW M \in Unmade(Moves), NEW r \in Rpc
  PROVE  /\ Ids(Asked(r, U, M)) = U \cup M
         /\ Distinct(Asked(r, U, M))
         /\ \A m \in U \cup M : m \in Msg /\ fate[m] = "unmade"
  <1>1. /\ U = {} \/ \E m \in Unsubs : U = {m}
        /\ M = {} \/ \E m \in Moves : M = {m}
        /\ U \subseteq Unsubs /\ M \subseteq Moves
        /\ \A m \in U \cup M : m \in Msg /\ fate[m] = "unmade"
    BY UnmadeSets, MessageKinds
  <1>2. ASSUME NEW T, NEW to \in Rpc \cup {NoRpc}, T = {} \/ \E m \in Msg : T = {m}
        PROVE  One(T, to) \in Seq(InFlight) /\ Ids(One(T, to)) = T /\ Distinct(One(T, to))
    <2>1. CASE T = {}
      BY <2>1, IdsOfNone DEF One
    <2>2. ASSUME NEW m \in Msg, T = {m}
          PROVE  One(T, to) \in Seq(InFlight) /\ Ids(One(T, to)) = T /\ Distinct(One(T, to))
      <3>1. One(T, to) = <<Message(m, to)>>
        BY <2>2 DEF One
      <3>2. Message(m, to) \in InFlight /\ Message(m, to).id = m
        BY MessageType
      <3>3. Elements(<<Message(m, to)>>) = {Message(m, to)}
        BY DEF Elements
      <3>4. Ids(<<Message(m, to)>>) = {m}
        BY <3>2, <3>3 DEF Ids
      <3>5. Distinct(<<Message(m, to)>>)
        BY DEF Distinct
      <3>6. <<Message(m, to)>> \in Seq(InFlight)
        BY <3>2
      <3> QED BY <2>2, <3>1, <3>4, <3>5, <3>6
    <2> QED BY <1>2, <2>1, <2>2
  <1>3. /\ One(U, r) \in Seq(InFlight) /\ Ids(One(U, r)) = U /\ Distinct(One(U, r))
        /\ One(M, NoRpc) \in Seq(InFlight) /\ Ids(One(M, NoRpc)) = M /\ Distinct(One(M, NoRpc))
    BY <1>1, <1>2, MessageKinds
  <1>4. Ids(Asked(r, U, M)) = U \cup M
    BY <1>3, IdsOfQueues DEF Asked
  <1>5. Distinct(Asked(r, U, M))
    BY <1>1, <1>3, UnsubsAreNoMoves, DistinctConcat DEF Asked
  <1> QED BY <1>1, <1>4, <1>5

(* The manager takes a message out of one of its queues and sends it.      *)
LEMMA SendPlaces ==
  ASSUME TypeInv, PlaceInv, NEW m \in InFlight, Send(m),
         Distinct(incoming'), Distinct(unloading'),
         \/ /\ Ids(incoming) = {m.id} \cup Ids(incoming') /\ m.id \notin Ids(incoming')
            /\ Ids(unloading') = Ids(unloading)
         \/ /\ Ids(unloading) = {m.id} \cup Ids(unloading') /\ m.id \notin Ids(unloading')
            /\ Ids(incoming') = Ids(incoming)
  PROVE  PlaceInv'
  <1> DEFINE x == m.id
  <1>1. x \in Msg
    BY ReconnectIsNone
  <1>2. /\ ws_buffer \in Seq(InFlight) /\ channel \in [Conn -> Seq(InFlight)]
        /\ \A f \in {"over"} : \A y \in Msg : Becomes({x}, f)[y] = IF y = x THEN f ELSE fate[y]
    BY BecomesType DEF TypeInv, TypeOK
  <1> HIDE DEF x
  <1>3. /\ x \notin Ids(ws_buffer) /\ \A c \in Conn : x \notin Ids(channel[c]) /\ x \notin pending[c]
        /\ fate[x] = "underway"
    BY <1>1 DEF PlaceInv, Apart, Underway, AtManager, At, x
  <1>4. pending' = pending
    BY SendEffect DEF TypeInv
  <1>5. CASE \E c \in Conn : channel' = [channel EXCEPT ![c] = Append(@, m)]
                            /\ UNCHANGED <<fate, ws_buffer>>
    <2>1. PICK c \in Conn : channel' = [channel EXCEPT ![c] = Append(@, m)]
                            /\ UNCHANGED <<fate, ws_buffer>>
      BY <1>5
    <2>2. /\ Ids(channel'[c]) = Ids(channel[c]) \cup {x}
          /\ Distinct(channel'[c])
          /\ \A d \in Conn : d # c => channel'[d] = channel[d]
      <3>1. channel'[c] = Append(channel[c], m) /\ channel[c] \in Seq(InFlight)
        BY <1>2, <2>1
      <3>2. Ids(Append(channel[c], m)) = Ids(channel[c]) \cup {x}
        BY <3>1, IdsOfQueues DEF x
      <3>3. Distinct(Append(channel[c], m))
        BY <1>3, <3>1, DistinctAppend DEF PlaceInv, AllDistinct, x
      <3> QED BY <1>2, <2>1, <3>1, <3>2, <3>3
    <2>3. AllDistinct'
      BY <2>1, <2>2 DEF PlaceInv, AllDistinct
    <2>4. Apart'
      BY <1>1, <1>3, <1>4, <2>1, <2>2 DEF PlaceInv, Apart, AtManager, At, x
    <2>5. Underway'
      BY <1>1, <1>3, <1>4, <2>1, <2>2 DEF PlaceInv, Underway, AtManager, At, x
    <2> QED BY <2>3, <2>4, <2>5 DEF PlaceInv
  <1>6. CASE UNCHANGED <<channel, ws_buffer>> /\ fate' = Becomes({m.id}, "over")
    <2>1. fate'[x] = "over" /\ \A y \in Msg : y # x => fate'[y] = fate[y]
      BY <1>1, <1>2, <1>6 DEF x
    <2>2. AllDistinct'
      BY <1>6 DEF PlaceInv, AllDistinct
    <2>3. Apart'
      BY <1>1, <1>4, <1>6 DEF PlaceInv, Apart, AtManager, At, x
    <2>4. Underway'
      BY <1>1, <1>3, <1>4, <1>6, <2>1 DEF PlaceInv, Apart, Underway, AtManager, At, x
    <2> QED BY <2>2, <2>3, <2>4 DEF PlaceInv
  <1>7. CASE ws_buffer' = Append(ws_buffer, m) /\ UNCHANGED <<channel, fate>>
    <2>1. Ids(ws_buffer') = Ids(ws_buffer) \cup {x} /\ Distinct(ws_buffer')
      <3>1. Ids(Append(ws_buffer, m)) = Ids(ws_buffer) \cup {x}
        BY <1>2, IdsOfQueues DEF x
      <3>2. Distinct(Append(ws_buffer, m))
        BY <1>2, <1>3, DistinctAppend DEF PlaceInv, AllDistinct, x
      <3> QED BY <1>7, <3>1, <3>2
    <2>2. AllDistinct'
      BY <1>7, <2>1 DEF PlaceInv, AllDistinct
    <2>3. Apart'
      BY <1>1, <1>3, <1>4, <1>7, <2>1 DEF PlaceInv, Apart, AtManager, At, x
    <2>4. Underway'
      BY <1>1, <1>3, <1>4, <1>7, <2>1 DEF PlaceInv, Underway, AtManager, At, x
    <2> QED BY <2>2, <2>3, <2>4 DEF PlaceInv
  <1> QED BY <1>5, <1>6, <1>7, SendEffect DEF TypeInv

LEMMA ManagerPlaces ==
  ASSUME TypeInv, PlaceInv, Manager
  PROVE  PlaceInv'
  <1>1. /\ incoming \in Seq(InFlight \cup {Reconnect}) /\ unloading \in Seq(InFlight)
        /\ Distinct(incoming) /\ Distinct(unloading)
    BY DEF TypeInv, TypeOK, PlaceInv, AllDistinct
  <1>2. CASE StartReconnect
    <2>1. /\ incoming # <<>> /\ Head(incoming) = Reconnect /\ incoming' = Tail(incoming)
          /\ UNCHANGED <<ws_buffer, unloading, channel, pending, fate>>
      BY <1>2 DEF StartReconnect, connVars
    <2>2. Distinct(incoming') /\ Ids(incoming) = {Reconnect.id} \cup Ids(incoming')
      BY <1>1, <2>1, DistinctTail, IdsOfQueues
    <2>3. \A m \in Msg : m \in Ids(incoming') <=> m \in Ids(incoming)
      BY <2>2, ReconnectIsNone
    <2>4. AllDistinct'
      BY <2>1, <2>2 DEF PlaceInv, AllDistinct
    <2>5. Apart'
      BY <2>1, <2>3 DEF PlaceInv, Apart, AtManager, At
    <2>6. Underway'
      BY <2>1, <2>3 DEF PlaceInv, Underway, AtManager, At
    <2> QED BY <2>4, <2>5, <2>6 DEF PlaceInv
  <1>3. CASE SendMessage
    <2>1. /\ incoming # <<>> /\ Head(incoming) # Reconnect /\ incoming' = Tail(incoming)
          /\ Send(Head(incoming)) /\ UNCHANGED unloading
      BY <1>3 DEF SendMessage
    <2>2. Head(incoming) \in InFlight /\ Head(incoming).id \in Msg
      BY <1>1, <2>1, QueueTypes, ReconnectIsNone
    <2>3. /\ Distinct(incoming') /\ Head(incoming).id \notin Ids(incoming')
          /\ Ids(incoming) = {Head(incoming).id} \cup Ids(incoming')
      BY <1>1, <2>1, <2>2, DistinctTail, IdsOfQueues
    <2> QED BY <1>1, <2>1, <2>2, <2>3, SendPlaces
  <1>4. CASE Unload
    <2>1. /\ unloading # <<>> /\ unloading' = Tail(unloading) /\ Send(Head(unloading))
          /\ UNCHANGED incoming
      BY <1>4 DEF Unload, TypeInv, UnloadHeld
    <2>2. Head(unloading) \in InFlight /\ Head(unloading).id \in Msg
      BY <1>1, <2>1, QueueTypes, ReconnectIsNone
    <2>3. /\ Distinct(unloading') /\ Head(unloading).id \notin Ids(unloading')
          /\ Ids(unloading) = {Head(unloading).id} \cup Ids(unloading')
      BY <1>1, <2>1, <2>2, DistinctTail, IdsOfQueues
    <2> QED BY <1>1, <2>1, <2>2, <2>3, SendPlaces
  <1>5. ASSUME NEW ok \in SUBSET Rpc, Replace(ok) PROVE PlaceInv'
    <2>1. /\ unloading = <<>> /\ unloading' = ws_buffer /\ ws_buffer' = <<>>
          /\ UNCHANGED <<incoming, channel, pending, fate>>
      BY <1>5 DEF Replace, TakeBuffer, TypeInv, UnloadHeld
    <2>2. Ids(unloading) = {} /\ Ids(ws_buffer') = {} /\ Distinct(ws_buffer')
      BY <2>1, IdsOfNone
    <2>3. AllDistinct'
      BY <2>1, <2>2 DEF PlaceInv, AllDistinct
    <2>4. Apart'
      BY <2>1, <2>2 DEF PlaceInv, Apart, AtManager, At
    <2>5. Underway'
      BY <2>1, <2>2 DEF PlaceInv, Underway, AtManager, At
    <2> QED BY <2>3, <2>4, <2>5 DEF PlaceInv
  <1>6. CASE OpenFirst
    <2>1. UNCHANGED <<incoming, ws_buffer, unloading, channel, pending, fate>>
      BY <1>6, OpenFirstOpens DEF connVars
    <2> QED BY <2>1 DEF PlaceInv, AllDistinct, Apart, Underway, AtManager, At
  <1> QED BY <1>2, <1>3, <1>4, <1>5, <1>6 DEF Manager

(* At a connection: messages go from its channel to what the node has, and *)
(* from there, or at a failure, nowhere.                                   *)
LEMMA ConnectionPlaces ==
  ASSUME TypeInv, PlaceInv, Connections
  PROVE  PlaceInv'
  <1>1. PICK c \in Conn : \/ SenderSends(c) \/ SenderFails(c) \/ (\E m \in Msg : Answer(c, m))
                          \/ (\E reports \in BOOLEAN : ReceiverEnds(c, reports))
    BY DEF Connections
  <1>2. UNCHANGED <<incoming, ws_buffer, unloading>>
    BY <1>1 DEF SenderSends, SenderFails, Answer, ReceiverEnds, managerVars
  <1>3. channel \in [Conn -> Seq(InFlight)] /\ pending \in [Conn -> SUBSET Msg]
    BY DEF TypeInv, TypeOK
  <1>4. \A S : \A f \in {"over", "answered"} :
          \A y \in Msg : Becomes(S, f)[y] = IF y \in S THEN f ELSE fate[y]
    BY BecomesType DEF TypeInv
  (* A step that moves or drops what this connection holds. *)
  <1>5. ASSUME NEW gone, gone \subseteq At(c),
               \A d \in Conn : d # c => channel'[d] = channel[d] /\ pending'[d] = pending[d],
               Distinct(channel'[c]),
               \A m \in Msg : m \in Ids(channel'[c]) => m \notin pending'[c],
               \A m \in Msg : m \in At(c)' <=> m \in At(c) /\ m \notin gone,
               \A m \in Msg : m \notin gone => fate'[m] = fate[m],
               \A m \in gone : fate'[m] # "underway"
        PROVE  PlaceInv'
    <2>1. AllDistinct'
      BY <1>2, <1>5 DEF PlaceInv, AllDistinct
    <2>2. \A d \in Conn : d # c => At(d)' = At(d)
      BY <1>5 DEF At
    <2>3. AtManager' = AtManager
      BY <1>2 DEF AtManager
    <2>4. Apart'
      <3>1. \A m \in Msg : \A d \in Conn : m \in At(d)' => m \in At(d)
        BY <1>5, <2>2
      <3>2. \A m \in Msg : \A d \in Conn : m \in Ids(channel'[d]) => m \notin pending'[d]
        BY <1>5 DEF PlaceInv, Apart
      <3> QED BY <1>2, <2>3, <3>1, <3>2 DEF PlaceInv, Apart
    <2>5. Underway'
      <3>1. ASSUME NEW m \in Msg, m \notin gone
            PROVE  fate'[m] = "underway" <=> (m \in AtManager \/ \E d \in Conn : m \in At(d)')
        <4>1. \A d \in Conn : m \in At(d)' <=> m \in At(d)
          BY <1>5, <2>2, <3>1
        <4> QED BY <1>5, <3>1, <4>1 DEF PlaceInv, Underway
      <3>2. ASSUME NEW m \in Msg, m \in gone
            PROVE  fate'[m] # "underway" /\ m \notin AtManager /\ \A d \in Conn : m \notin At(d)'
        <4>1. m \in At(c) /\ m \notin At(c)' /\ fate'[m] # "underway"
          BY <1>5, <3>2
        <4> QED BY <2>2, <4>1 DEF PlaceInv, Apart
      <3> QED BY <2>3, <3>1, <3>2 DEF Underway
    <2> QED BY <2>1, <2>4, <2>5 DEF PlaceInv
  <1>6. CASE SenderSends(c)
    <2> DEFINE x == Head(channel[c]).id
    <2>1. /\ channel[c] # <<>> /\ channel[c] \in Seq(InFlight) /\ Distinct(channel[c])
          /\ channel' = [channel EXCEPT ![c] = Tail(@)]
          /\ \/ pending' = [pending EXCEPT ![c] = @ \cup {x}] /\ UNCHANGED fate
             \/ fate' = Becomes({x}, "over") /\ UNCHANGED pending
      BY <1>3, <1>6 DEF SenderSends, PlaceInv, AllDistinct
    <2>2. x \in Msg
      BY <2>1, QueueTypes, ReconnectIsNone
    <2>3. /\ Distinct(Tail(channel[c])) /\ x \notin Ids(Tail(channel[c]))
          /\ Ids(channel[c]) = {x} \cup Ids(Tail(channel[c]))
      BY <2>1, <2>2, DistinctTail, IdsOfQueues
    <2> HIDE DEF x
    <2>4. /\ channel'[c] = Tail(channel[c]) /\ \A d \in Conn : d # c => channel'[d] = channel[d]
      BY <1>3, <2>1
    <2>5. x \notin pending[c]
      BY <2>2, <2>3 DEF PlaceInv, Apart
    <2>6. CASE pending' = [pending EXCEPT ![c] = @ \cup {x}] /\ UNCHANGED fate
      <3>1. pending'[c] = pending[c] \cup {x} /\ \A d \in Conn : d # c => pending'[d] = pending[d]
        BY <1>3, <2>6
      <3>2. At(c)' = At(c)
        BY <2>3, <2>4, <3>1 DEF At
      <3>3. \A m \in Msg : m \in Ids(channel'[c]) => m \notin pending'[c]
        BY <2>3, <2>4, <3>1 DEF PlaceInv, Apart
      <3> DEFINE none == {}
      <3>4. /\ none \subseteq At(c) /\ \A m \in none : fate'[m] # "underway"
            /\ \A m \in Msg : m \notin none => fate'[m] = fate[m]
            /\ \A m \in Msg : m \in At(c)' <=> m \in At(c) /\ m \notin none
            /\ Distinct(channel'[c])
        BY <2>3, <2>4, <2>6, <3>2
      <3> HIDE DEF none
      <3> QED BY <1>5, <2>4, <3>1, <3>3, <3>4
    <2>7. CASE fate' = Becomes({x}, "over") /\ UNCHANGED pending
      <3>1. \A m \in Msg : m \in At(c)' <=> m \in At(c) /\ m \notin {x}
        BY <2>3, <2>4, <2>5, <2>7 DEF At
      <3>2. {x} \subseteq At(c)
        BY <2>3 DEF At
      <3>3. \A m \in Msg : m \in Ids(channel'[c]) => m \notin pending'[c]
        BY <2>3, <2>4, <2>7 DEF PlaceInv, Apart
      <3>4. (\A m \in Msg : m \notin {x} => fate'[m] = fate[m]) /\ fate'[x] = "over"
        BY <1>4, <2>2, <2>7
      <3>5. \A m \in {x} : fate'[m] # "underway"
        BY <3>4
      <3> QED BY <1>5, <2>3, <2>4, <2>7, <3>1, <3>2, <3>3, <3>4, <3>5
    <2> QED BY <2>1, <2>6, <2>7
  <1>7. CASE SenderFails(c)
    <2>1. /\ channel' = [channel EXCEPT ![c] = <<>>] /\ UNCHANGED pending
          /\ fate' = Becomes(Ids(channel[c]), "over")
      BY <1>7 DEF SenderFails, Ids
    <2>2. Ids(channel[c]) \subseteq Msg
      BY <1>3, ReconnectIsNone DEF Ids, Elements
    <2>3. /\ channel'[c] = <<>> /\ \A d \in Conn : d # c => channel'[d] = channel[d]
      BY <1>3, <2>1
    <2>4. Ids(channel'[c]) = {} /\ Distinct(channel'[c])
      BY <2>3, IdsOfNone
    <2>5. Ids(channel[c]) \subseteq At(c)
      BY DEF At
    <2>6. \A m \in Msg : m \in At(c)' <=> m \in At(c) /\ m \notin Ids(channel[c])
      BY <2>1, <2>4 DEF At, PlaceInv, Apart
    <2>7. /\ \A m \in Msg : m \notin Ids(channel[c]) => fate'[m] = fate[m]
          /\ \A m \in Ids(channel[c]) : fate'[m] # "underway"
      BY <1>4, <2>1, <2>2
    <2> QED BY <1>5, <2>1, <2>3, <2>4, <2>5, <2>6, <2>7
  <1>8. ASSUME NEW m \in Msg, Answer(c, m) PROVE PlaceInv'
    <2>1. /\ m \in pending[c] /\ pending' = [pending EXCEPT ![c] = @ \ {m}] /\ UNCHANGED channel
          /\ \E f \in {"over", "answered"} : fate' = Becomes({m}, f)
      BY <1>8 DEF Answer
    <2>2. pending'[c] = pending[c] \ {m} /\ \A d \in Conn : d # c => pending'[d] = pending[d]
      BY <1>3, <2>1
    <2>3. m \notin Ids(channel[c])
      BY <2>1 DEF PlaceInv, Apart
    <2>4. {m} \subseteq At(c) /\ \A y \in Msg : y \in At(c)' <=> y \in At(c) /\ y \notin {m}
      BY <2>1, <2>2, <2>3 DEF At
    <2>5. fate'[m] # "underway" /\ \A y \in Msg : y \notin {m} => fate'[y] = fate[y]
      BY <1>4, <2>1
    <2>6. \A y \in Msg : y \in Ids(channel'[c]) => y \notin pending'[c]
      BY <2>1, <2>2 DEF PlaceInv, Apart
    <2>7. Distinct(channel'[c])
      BY <2>1 DEF PlaceInv, AllDistinct
    <2> QED BY <1>5, <2>1, <2>2, <2>4, <2>5, <2>6, <2>7
  <1>9. ASSUME NEW reports \in BOOLEAN, ReceiverEnds(c, reports) PROVE PlaceInv'
    <2>1. /\ pending' = [pending EXCEPT ![c] = {}] /\ UNCHANGED channel
          /\ fate' = Becomes(pending[c], "over")
      BY <1>9 DEF ReceiverEnds
    <2>2. pending'[c] = {} /\ pending[c] \subseteq Msg
          /\ \A d \in Conn : d # c => pending'[d] = pending[d]
      BY <1>3, <2>1
    <2>3. pending[c] \subseteq At(c)
          /\ \A m \in Msg : m \in At(c)' <=> m \in At(c) /\ m \notin pending[c]
      BY <2>1, <2>2 DEF At, PlaceInv, Apart
    <2>4. /\ \A m \in Msg : m \notin pending[c] => fate'[m] = fate[m]
          /\ \A m \in pending[c] : fate'[m] # "underway"
      BY <1>4, <2>1, <2>2
    <2>5. Distinct(channel'[c])
      BY <2>1 DEF PlaceInv, AllDistinct
    <2> QED BY <1>5, <2>1, <2>2, <2>3, <2>4, <2>5
  <1> QED BY <1>1, <1>6, <1>7, <1>8, <1>9

(* Messages are made that were not: they are nowhere yet.                  *)
LEMMA MadePlaces ==
  ASSUME TypeInv, PlaceInv, NEW made \in SUBSET Msg, \A m \in made : fate[m] = "unmade",
         UNCHANGED <<ws_buffer, unloading, channel, pending>>,
         \A m \in Msg : m \in Ids(incoming') <=> m \in Ids(incoming) \/ m \in made,
         Distinct(incoming'),
         fate' = Becomes(made, "underway")
  PROVE  PlaceInv'
  <1>1. \A m \in Msg : fate'[m] = IF m \in made THEN "underway" ELSE fate[m]
    BY BecomesType DEF TypeInv
  <1>2. \A m \in made : m \in Msg /\ m \notin AtManager /\ \A c \in Conn : m \notin At(c)
    BY DEF PlaceInv, Underway
  <1>3. /\ \A m \in Msg : m \in AtManager' <=> m \in AtManager \/ m \in made
        /\ \A c \in Conn : At(c)' = At(c)
    BY DEF AtManager, At
  <1>4. AllDistinct'
    BY DEF PlaceInv, AllDistinct
  <1>5. Apart'
    <2>1. \A m \in made : m \notin Ids(ws_buffer) /\ m \notin Ids(unloading)
      BY <1>2 DEF AtManager
    <2> QED BY <1>2, <1>3, <2>1 DEF PlaceInv, Apart
  <1>6. Underway'
    BY <1>1, <1>2, <1>3 DEF PlaceInv, Underway
  <1> QED BY <1>4, <1>5, <1>6 DEF PlaceInv

(* What a move asks for, after what was in the manager's channel.          *)
LEMMA AskedPlaces ==
  ASSUME TypeInv, PlaceInv, NEW U \in Unmade(Unsubs), NEW M \in Unmade(Moves), NEW r \in Rpc,
         NEW q \in Seq(InFlight \cup {Reconnect}), Distinct(q),
         \A m \in Msg : m \in Ids(q) <=> m \in Ids(incoming),
         UNCHANGED <<ws_buffer, unloading, channel, pending>>,
         incoming' = q \o Asked(r, U, M),
         fate' = Becomes(U \cup M, "underway")
  PROVE  PlaceInv'
  <1> DEFINE t == Asked(r, U, M)
  <1>1. /\ t \in Seq(InFlight) /\ Ids(t) = U \cup M /\ Distinct(t)
        /\ \A m \in U \cup M : m \in Msg /\ fate[m] = "unmade"
    BY AskedType, AskedIds
  <1> HIDE DEF t
  <1>2. t \in Seq(InFlight \cup {Reconnect}) /\ incoming' = q \o t
    BY <1>1 DEF t
  <1>3. Ids(incoming') = Ids(q) \cup Ids(t)
    BY <1>2, IdsOfQueues
  <1>4. \A m \in U \cup M : m \notin Ids(incoming)
    BY <1>1 DEF PlaceInv, Underway, AtManager
  <1>5. Distinct(incoming')
    BY <1>1, <1>2, <1>4, DistinctConcat
  <1>6. U \cup M \in SUBSET Msg
    BY <1>1
  <1> QED BY <1>1, <1>3, <1>5, <1>6, MadePlaces

LEMMA KeeperPlaces ==
  ASSUME TypeInv, PlaceInv, Keepers
  PROVE  PlaceInv'
  <1>1. /\ incoming \in Seq(InFlight \cup {Reconnect}) /\ Distinct(incoming)
        /\ closed \in Seq(Rpc)
    BY DEF TypeInv, TypeOK, PlaceInv, AllDistinct
  <1>2. /\ Append(incoming, Reconnect) \in Seq(InFlight \cup {Reconnect})
        /\ Distinct(Append(incoming, Reconnect))
        /\ \A m \in Msg : m \in Ids(Append(incoming, Reconnect)) <=> m \in Ids(incoming)
    <2>1. Ids(Append(incoming, Reconnect)) = Ids(incoming) \cup {Reconnect.id}
      BY <1>1, IdsOfQueues
    <2>2. Distinct(Append(incoming, Reconnect))
      BY <1>1, ReconnectIsNone, DistinctAppend
    <2> QED BY <1>1, <2>1, <2>2, ReconnectIsNone
  <1>3. ASSUME NEW U, NEW M, Dropped(U, M) PROVE PlaceInv'
    <2>1. /\ U \in Unmade(Unsubs) /\ M \in Unmade(Moves) /\ closed # <<>>
          /\ incoming' = incoming \o Asked(Head(closed), U, M)
          /\ fate' = Becomes(U \cup M, "underway")
          /\ UNCHANGED <<ws_buffer, unloading, channel, pending>>
      BY <1>3 DEF Dropped, managerVars, connVars
    <2>2. Head(closed) \in Rpc
      BY <1>1, <2>1, QueueTypes
    <2> QED BY <1>1, <2>1, <2>2, AskedPlaces
  <1>4. ASSUME NEW r \in Rpc, NEW U, NEW M, HeadsTimeout(r, U, M) PROVE PlaceInv'
    <2>1. /\ U \in Unmade(Unsubs) /\ M \in Unmade(Moves)
          /\ incoming' = Append(incoming, Reconnect) \o Asked(r, U, M)
          /\ fate' = Becomes(U \cup M, "underway")
          /\ UNCHANGED <<ws_buffer, unloading, channel, pending>>
      BY <1>4 DEF HeadsTimeout, managerVars, connVars
    <2> QED BY <1>2, <2>1, AskedPlaces
  <1>5. CASE ListenerReconnects
    <2>1. /\ incoming' = Append(incoming, Reconnect)
          /\ UNCHANGED <<ws_buffer, unloading, channel, pending, fate>>
      BY <1>5 DEF ListenerReconnects, managerVars, connVars
    <2>2. AllDistinct' /\ Apart' /\ Underway'
      BY <1>2, <2>1 DEF PlaceInv, AllDistinct, Apart, Underway, AtManager, At
    <2> QED BY <2>2 DEF PlaceInv
  <1>6. CASE MoveInterrupted
    BY <1>6 DEF MoveInterrupted, managerVars, connVars, PlaceInv, AllDistinct, Apart, Underway,
                AtManager, At
  <1> QED BY <1>3, <1>4, <1>5, <1>6 DEF Keepers, DropHandled, TimesOut

LEMMA OtherPlaces ==
  ASSUME TypeInv, PlaceInv, Others
  PROVE  PlaceInv'
  <1>1. ASSUME NEW m \in Calls \cup Subs \cup Unsubs, NEW r \in Rpc \cup {NoRpc}, MakeMessage(m, r)
        PROVE  PlaceInv'
    <2>1. /\ fate[m] = "unmade" /\ incoming' = Append(incoming, Message(m, r))
          /\ fate' = Becomes({m}, "underway")
          /\ UNCHANGED <<ws_buffer, unloading, channel, pending>>
      BY <1>1 DEF MakeMessage, managerVars, connVars
    <2>2. m \in Msg /\ Message(m, r) \in InFlight /\ Message(m, r).id = m
      BY MessageKinds, MessageType
    <2>3. incoming \in Seq(InFlight \cup {Reconnect}) /\ Distinct(incoming)
      BY DEF TypeInv, TypeOK, PlaceInv, AllDistinct
    <2>4. m \notin Ids(incoming)
      BY <2>1, <2>2 DEF PlaceInv, Underway, AtManager
    <2>5. Distinct(incoming') /\ Ids(incoming') = Ids(incoming) \cup {m}
      BY <2>1, <2>2, <2>3, <2>4, DistinctAppend, IdsOfQueues
    <2> QED BY <2>1, <2>2, <2>5, MadePlaces
  <1>2. ASSUME NEW list, PoolChanges(list) PROVE PlaceInv'
    BY <1>2 DEF PoolChanges, managerVars, connVars, PlaceInv, AllDistinct, Apart, Underway,
                AtManager, At
  <1> QED BY <1>1, <1>2 DEF Others

LEMMA NextPlaces == TypeInv /\ PlaceInv /\ [Next]_vars => PlaceInv'
<1> SUFFICES ASSUME TypeInv, PlaceInv, [Next]_vars PROVE PlaceInv'
  OBVIOUS
<1>1. CASE UNCHANGED vars
  BY <1>1 DEF vars, managerVars, connVars, PlaceInv, AllDistinct, Apart, Underway, AtManager, At
<1> QED BY <1>1, ManagerPlaces, ConnectionPlaces, KeeperPlaces, OtherPlaces DEF Next

(* The first message is on its way to the manager, and nothing else is.    *)
LEMMA InitPlaces == Init => PlaceInv
  <1> SUFFICES ASSUME Init PROVE PlaceInv
    OBVIOUS
  <1>1. /\ incoming = <<Message(NewHeads, NoRpc)>> /\ ws_buffer = <<>> /\ unloading = <<>>
        /\ \A c \in Conn : channel[c] = <<>> /\ pending[c] = {}
        /\ \A m \in Msg : fate[m] = IF m = NewHeads THEN "underway" ELSE "unmade"
    BY DEF Init
  <1>2. Ids(incoming) = {NewHeads} /\ Distinct(incoming)
    <2>1. Message(NewHeads, NoRpc).id = NewHeads
      BY DEF Message
    <2>2. Elements(<<Message(NewHeads, NoRpc)>>) = {Message(NewHeads, NoRpc)}
      BY DEF Elements
    <2>3. Ids(<<Message(NewHeads, NoRpc)>>) = {NewHeads}
      BY <2>1, <2>2 DEF Ids
    <2>4. Distinct(<<Message(NewHeads, NoRpc)>>)
      BY DEF Distinct
    <2> QED BY <1>1, <2>3, <2>4
  <1>3. AtManager = {NewHeads} /\ \A c \in Conn : At(c) = {}
    BY <1>1, <1>2, IdsOfNone DEF AtManager, At
  <1>4. AllDistinct
    BY <1>1, <1>2, IdsOfNone DEF AllDistinct
  <1>5. Apart
    BY <1>1, <1>3, IdsOfNone DEF Apart
  <1>6. Underway
    BY <1>1, <1>3 DEF Underway
  <1> QED BY <1>4, <1>5, <1>6 DEF PlaceInv

(* From what is where to how often: what is in a queue is in it once.      *)
LEMMA OccursOnce ==
  ASSUME NEW S, NEW q \in Seq(S), Distinct(q), NEW m \in Msg
  PROVE  Occurs(m, q) = IF m \in Ids(q) THEN 1 ELSE 0
  <1> DEFINE at == {i \in 1..Len(q) : q[i].id = m}
  <1>1. CASE m \in Ids(q)
    <2>1. PICK i \in 1..Len(q) : q[i].id = m
      BY <1>1 DEF Ids, Elements
    <2>2. at = {i}
      BY <2>1 DEF Distinct
    <2> QED BY <1>1, <2>2, FS_Singleton DEF Occurs
  <1>2. CASE m \notin Ids(q)
    <2>1. at = {}
      BY <1>2 DEF Ids, Elements
    <2> QED BY <1>2, <2>1, FS_EmptySet DEF Occurs
  <1> QED BY <1>1, <1>2

LEMMA AtConnectionsOnce ==
  ASSUME TypeInv, PlaceInv, NEW m \in Msg
  PROVE  /\ Cardinality(InChannels(m)) \in Nat /\ Cardinality(InConns(m)) \in Nat
         /\ Cardinality(InChannels(m)) + Cardinality(InConns(m))
              = IF \E c \in Conn : m \in At(c) THEN 1 ELSE 0
  <1>1. \A c, d \in Conn : m \in At(c) /\ m \in At(d) => c = d
    BY DEF PlaceInv, Apart
  <1>2. \A c \in Conn : m \in At(c) <=> m \in Ids(channel[c]) \/ m \in pending[c]
    BY DEF At
  <1>3. \A c \in Conn : m \in Ids(channel[c]) <=> \E i \in 1..Len(channel[c]) : channel[c][i].id = m
    BY DEF Ids, Elements
  <1>4. ASSUME \A c \in Conn : m \notin Ids(channel[c]) PROVE InChannels(m) = {}
    BY <1>3, <1>4 DEF InChannels
  <1>5. CASE \A c \in Conn : m \notin At(c)
    <2>1. InChannels(m) = {} /\ InConns(m) = {}
      BY <1>2, <1>4, <1>5 DEF InConns
    <2> QED BY <1>5, <2>1, FS_EmptySet
  <1>6. ASSUME NEW c \in Conn, m \in pending[c]
        PROVE  /\ Cardinality(InChannels(m)) \in Nat /\ Cardinality(InConns(m)) \in Nat
               /\ Cardinality(InChannels(m)) + Cardinality(InConns(m)) = 1
    <2>1. \A d \in Conn : m \in At(d) => d = c
      BY <1>1, <1>2, <1>6
    <2>2. InConns(m) = {c}
      BY <1>2, <1>6, <2>1 DEF InConns
    <2>3. m \notin Ids(channel[c])
      BY <1>6 DEF PlaceInv, Apart
    <2>4. InChannels(m) = {}
      BY <1>2, <1>4, <2>1, <2>3
    <2>5. Cardinality(InConns(m)) = 1 /\ Cardinality(InChannels(m)) = 0
      BY <2>2, <2>4, FS_EmptySet, FS_Singleton
    <2> QED BY <2>5
  <1>7. ASSUME NEW c \in Conn, m \in Ids(channel[c])
        PROVE  /\ Cardinality(InChannels(m)) \in Nat /\ Cardinality(InConns(m)) \in Nat
               /\ Cardinality(InChannels(m)) + Cardinality(InConns(m)) = 1
    <2>1. \A d \in Conn : m \in At(d) => d = c
      BY <1>1, <1>2, <1>7
    <2>2. m \notin pending[c]
      BY <1>7 DEF PlaceInv, Apart
    <2>3. InConns(m) = {}
      BY <1>2, <2>1, <2>2 DEF InConns
    <2>4. PICK i \in 1..Len(channel[c]) : channel[c][i].id = m
      BY <1>3, <1>7
    <2>5. \A k \in 1..Len(channel[c]) : channel[c][k].id = m => k = i
      BY <2>4 DEF PlaceInv, AllDistinct, Distinct
    <2>6. {k \in 1..Len(channel[c]) : channel[c][k].id = m} = {i}
      BY <2>4, <2>5
    <2>7. \A d \in Conn : d # c => {k \in 1..Len(channel[d]) : channel[d][k].id = m} = {}
      BY <1>2, <1>3, <2>1
    <2>8. InChannels(m) = {<<c, i>>}
      BY <2>6, <2>7 DEF InChannels
    <2>9. Cardinality(InConns(m)) = 0 /\ Cardinality(InChannels(m)) = 1
      BY <2>3, <2>8, FS_EmptySet, FS_Singleton
    <2> QED BY <2>9
  <1> QED BY <1>2, <1>5, <1>6, <1>7

LEMMA PlacesAreOne == TypeInv /\ PlaceInv => OnePlace
  <1> SUFFICES ASSUME TypeInv, PlaceInv, NEW m \in Msg
               PROVE  Copies(m) = (IF fate[m] = "underway" THEN 1 ELSE 0)
    BY DEF OnePlace
  <1> DEFINE held == \E c \in Conn : m \in At(c)
  <1>1. /\ Occurs(m, incoming)  = IF m \in Ids(incoming) THEN 1 ELSE 0
        /\ Occurs(m, ws_buffer) = IF m \in Ids(ws_buffer) THEN 1 ELSE 0
        /\ Occurs(m, unloading) = IF m \in Ids(unloading) THEN 1 ELSE 0
    BY OccursOnce DEF TypeInv, TypeOK, PlaceInv, AllDistinct
  <1>2. /\ Cardinality(InChannels(m)) \in Nat /\ Cardinality(InConns(m)) \in Nat
        /\ Cardinality(InChannels(m)) + Cardinality(InConns(m)) = IF held THEN 1 ELSE 0
    BY AtConnectionsOnce
  <1>3. /\ m \in Ids(incoming) => m \notin Ids(ws_buffer) /\ m \notin Ids(unloading)
        /\ m \in Ids(ws_buffer) => m \notin Ids(unloading)
        /\ held => m \notin Ids(incoming) /\ m \notin Ids(ws_buffer) /\ m \notin Ids(unloading)
    BY DEF PlaceInv, Apart, AtManager
  <1>4. fate[m] = "underway" <=> \/ m \in Ids(incoming) \/ m \in Ids(ws_buffer)
                                \/ m \in Ids(unloading) \/ held
    BY DEF PlaceInv, Underway, AtManager
  <1> QED BY <1>1, <1>2, <1>3, <1>4 DEF Copies

(* ws_conn_manager, unload_buffer and ws_conn: no message is lost unawares *)
(* or sent twice, however reconnects, failures and answers interleave.     *)
THEOREM OnePlaceHolds == Spec => []OnePlace
  BY InitTypeInv, NextTypeInv, InitPlaces, NextPlaces, PlacesAreOne, PTL DEF Spec
=============================================================================
