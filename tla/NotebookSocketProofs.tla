-------------------------- MODULE NotebookSocketProofs --------------------------
(***************************************************************************)
(* Proofs about NotebookSocket, for any number of WebSocket objects, calls *)
(* and attempts: the types, that only the current WebSocket is live, and   *)
(* that messages keep the order of the calls and none of them vanishes.    *)
(***************************************************************************)
EXTENDS NotebookSocket, TLAPS

-----------------------------------------------------------------------------
(* Sequences. *)

\* FlushQueue leaves handed \o pendingQueue as it is.
LEMMA EmptyConcat ==
    ASSUME NEW S, NEW q \in Seq(S)
    PROVE  q \o <<>> = q
  OBVIOUS

\* Increasing sequences stay so when a greater number is appended.
LEMMA IncreasingAppend ==
    ASSUME NEW q \in Seq(Nat), NEW c \in Nat, Increasing(q), \A i \in DOMAIN q : q[i] < c
    PROVE  Increasing(Append(q, c))
  BY DEF Increasing

LEMMA ConcatAppend ==
    ASSUME NEW S, NEW p \in Seq(S), NEW q \in Seq(S), NEW c \in S
    PROVE  p \o Append(q, c) = Append(p \o q, c)
  OBVIOUS

\* A beginning of an increasing sequence is increasing.
LEMMA IncreasingBeginning ==
    ASSUME NEW p \in Seq(Nat), NEW q \in Seq(Nat), Increasing(p \o q)
    PROVE  Increasing(p)
  <1>1. \A i \in DOMAIN p : i \in DOMAIN (p \o q) /\ (p \o q)[i] = p[i]
    OBVIOUS
  <1> QED BY <1>1 DEF Increasing

LEMMA ToSetAppend ==
    ASSUME NEW S, NEW q \in Seq(S), NEW c \in S
    PROVE  ToSet(Append(q, c)) = ToSet(q) \cup {c}
  <1> DEFINE r == Append(q, c)
  <1>1. r \in Seq(S) /\ Len(r) = Len(q) + 1 /\ r[Len(r)] = c OBVIOUS
  <1>2. \A i \in 1..Len(q) : i \in 1..Len(r) /\ r[i] = q[i] OBVIOUS
  <1>3. \A i \in 1..Len(r) : i \in 1..Len(q) \/ i = Len(r) BY <1>1
  <1>4. ToSet(r) \subseteq ToSet(q) \cup {c} BY <1>1, <1>2, <1>3 DEF ToSet
  <1>5. ToSet(q) \subseteq ToSet(r) BY <1>1, <1>2 DEF ToSet
  <1>6. c \in ToSet(r) BY <1>1 DEF ToSet
  <1> QED BY <1>4, <1>5, <1>6

LEMMA ToSetConcat ==
    ASSUME NEW S, NEW p \in Seq(S), NEW q \in Seq(S)
    PROVE  ToSet(p \o q) = ToSet(p) \cup ToSet(q)
  <1> DEFINE r == p \o q
  <1>1. r \in Seq(S) /\ Len(r) = Len(p) + Len(q) OBVIOUS
  <1>2. \A i \in 1..Len(r) : r[i] = IF i <= Len(p) THEN p[i] ELSE q[i - Len(p)] OBVIOUS
  <1>3. \A i \in 1..Len(q) : r[i + Len(p)] = q[i] BY <1>1, <1>2
  <1>4. ToSet(r) \subseteq ToSet(p) \cup ToSet(q) BY <1>1, <1>2 DEF ToSet
  <1>5. ToSet(p) \subseteq ToSet(r) BY <1>1, <1>2 DEF ToSet
  <1>6. ToSet(q) \subseteq ToSet(r)
    <2>1. ASSUME NEW i \in 1..Len(q) PROVE q[i] \in ToSet(r)
      <3>1. i + Len(p) \in DOMAIN r BY <1>1
      <3>2. r[i + Len(p)] = q[i] BY <1>3
      <3> QED BY <3>1, <3>2 DEF ToSet
    <2>2. DOMAIN q = 1..Len(q) OBVIOUS
    <2> QED BY <2>1, <2>2, Zenon DEF ToSet
  <1> QED BY <1>4, <1>5, <1>6

LEMMA ToSetEmpty == ToSet(<<>>) = {}
  BY DEF ToSet

-----------------------------------------------------------------------------
(* Types. *)

\* A queue of calls remains one when a call is added.
LEMMA MoreCalls ==
    ASSUME NEW type \in Types, calls \in Seq(Types)
    PROVE  /\ Append(calls, type) \in Seq(Types)
           /\ DOMAIN calls \subseteq DOMAIN Append(calls, type)
           /\ Len(calls) + 1 \in DOMAIN Append(calls, type)
           /\ DOMAIN Append(calls, type) = 1..(Len(calls) + 1)
  OBVIOUS

LEMMA SeqMonotone ==
    ASSUME NEW S, NEW T, S \subseteq T, NEW q \in Seq(S)
    PROVE  q \in Seq(T)
  OBVIOUS

\* The type invariant, kept by every step.
THEOREM SocketTypeCorrect == Spec => []TypeOK
<1>1. Init => TypeOK
  <2> SUFFICES ASSUME Init PROVE TypeOK
    OBVIOUS
  <2>1. ws \in Sockets \cup {None} /\ state \in [Sockets -> ReadyStates]
    BY DEF Init, ReadyStates
  <2>2. calls = <<>> /\ calls \in Seq(Types) /\ failed \subseteq DOMAIN calls
    BY DEF Init
  <2>3. pendingQueue \in Seq(DOMAIN calls) /\ handed \in Seq(DOMAIN calls)
    BY DEF Init
  <2>4. /\ reconnectAttempts \in 0..MaxAttempts /\ timers \in Nat
        /\ disconnects \in 0..MaxDisconnects
    BY SocketAssumption DEF Init
  <2>5. intentionallyClosed \in BOOLEAN /\ denied \in BOOLEAN
    BY DEF Init
  <2> QED BY <2>1, <2>2, <2>3, <2>4, <2>5 DEF TypeOK
<1>2. TypeOK /\ [Next]_vars => TypeOK'
  <2> SUFFICES ASSUME TypeOK, [Next]_vars PROVE TypeOK'
    OBVIOUS
  <2> USE SocketAssumption DEF TypeOK, ReadyStates, connection, retries, messages
  <2>1. DOMAIN calls = 1..Len(calls) /\ DOMAIN calls \subseteq Nat
    OBVIOUS
  <2>2. FlushQueue => /\ handed' \in Seq(DOMAIN calls') /\ pendingQueue' \in Seq(DOMAIN calls')
                      /\ calls' \in Seq(Types) /\ failed' \subseteq DOMAIN calls'
    BY DEF FlushQueue
  <2>3. DrainQueue => /\ handed' \in Seq(DOMAIN calls') /\ pendingQueue' \in Seq(DOMAIN calls')
                      /\ calls' \in Seq(Types) /\ failed' \subseteq DOMAIN calls'
    BY DEF DrainQueue, ToSet
  <2>4. UNCHANGED messages =>
            /\ handed' \in Seq(DOMAIN calls') /\ pendingQueue' \in Seq(DOMAIN calls')
            /\ calls' \in Seq(Types) /\ failed' \subseteq DOMAIN calls'
    OBVIOUS
  <2>5. ScheduleReconnect => reconnectAttempts' \in 0..MaxAttempts /\ timers' \in Nat
    BY DEF ScheduleReconnect
  <2>6. Connect => /\ ws' \in Sockets \cup {None} /\ state' \in [Sockets -> ReadyStates]
                   /\ intentionallyClosed' \in BOOLEAN /\ denied' \in BOOLEAN
    BY DEF Connect, Fresh
  <2>7. ASSUME NEW s \in Sockets, OnOpen(s) PROVE TypeOK'
    BY <2>2, <2>7 DEF OnOpen
  <2>8. ASSUME NEW s \in Sockets, ServerCloses(s) PROVE TypeOK'
    BY <2>4, <2>8 DEF ServerCloses
  <2>9. ASSUME NEW s \in Sockets, OnClose(s) PROVE TypeOK'
    <3>1. reconnectAttempts' \in 0..MaxAttempts /\ timers' \in Nat
      BY <2>5, <2>9 DEF OnClose
    <3>2. /\ handed' \in Seq(DOMAIN calls') /\ pendingQueue' \in Seq(DOMAIN calls')
          /\ calls' \in Seq(Types) /\ failed' \subseteq DOMAIN calls'
      BY <2>3, <2>4, <2>9 DEF OnClose, ScheduleReconnect
    <3>3. /\ ws' \in Sockets \cup {None} /\ state' \in [Sockets -> ReadyStates]
          /\ intentionallyClosed' \in BOOLEAN /\ disconnects' \in 0..MaxDisconnects
      BY <2>9 DEF OnClose
    <3>4. denied' \in BOOLEAN
      BY <2>9, Zenon DEF OnClose
    <3> QED BY <3>1, <3>2, <3>3, <3>4
  <2>10. ASSUME Timer PROVE TypeOK'
    BY <2>4, <2>6, <2>10 DEF Timer
  <2>11. ASSUME NEW type \in Types, Send(type) PROVE TypeOK'
    <3>1. /\ calls' \in Seq(Types) /\ DOMAIN calls \subseteq DOMAIN calls'
          /\ Len(calls) + 1 \in DOMAIN calls'
      BY <2>11 DEF Send
    <3>2. handed \in Seq(DOMAIN calls') /\ pendingQueue \in Seq(DOMAIN calls')
      BY <3>1, SeqMonotone
    <3>3. handed' \in Seq(DOMAIN calls') /\ pendingQueue' \in Seq(DOMAIN calls')
      <4> DEFINE c == Len(calls) + 1
                 T == DOMAIN calls'
      <4>1. Append(handed, c) \in Seq(T) /\ Append(pendingQueue, c) \in Seq(T)
        <5> HIDE DEF T, c
        <5> QED BY <3>1, <3>2 DEF T, c
      <4>2. CASE HandOver(c)
        BY <4>1, <4>2, <3>2 DEF HandOver
      <4>3. CASE Enqueue(c)
        BY <4>1, <4>3, <3>2 DEF Enqueue
      <4> QED BY <4>2, <4>3, <2>11 DEF Send
    <3>4. /\ ws' \in Sockets \cup {None} /\ state' \in [Sockets -> ReadyStates]
          /\ intentionallyClosed' \in BOOLEAN /\ denied' \in BOOLEAN
      BY <2>6, <2>11 DEF Send, HandOver, Enqueue
    <3>5. /\ failed' \subseteq DOMAIN calls' /\ disconnects' \in 0..MaxDisconnects
          /\ reconnectAttempts' \in 0..MaxAttempts /\ timers' \in Nat
      BY <3>1, <2>11 DEF Send
    <3> QED BY <3>1, <3>3, <3>4, <3>5
  <2>12. ASSUME Disconnect PROVE TypeOK'
    BY <2>3, <2>12 DEF Disconnect
  <2>13. CASE UNCHANGED vars
    BY <2>13 DEF vars
  <2> QED BY <2>7, <2>8, <2>9, <2>10, <2>11, <2>12, <2>13 DEF Next
<1> QED BY <1>1, <1>2, PTL DEF Spec

-----------------------------------------------------------------------------
(* The current WebSocket. *)

\* However timers, send() and replaced WebSockets meet, no WebSocket but the current one is
\* connecting or open.
THEOREM OnlyCurrentIsLive == Spec => []OneLiveSocket
<1>1. Init => OneLiveSocket
  BY DEF Init, OneLiveSocket, Live
<1>2. TypeOK /\ OneLiveSocket /\ [Next]_vars => OneLiveSocket'
  <2> SUFFICES ASSUME TypeOK, OneLiveSocket, [Next]_vars PROVE OneLiveSocket'
    OBVIOUS
  <2> USE DEF TypeOK, OneLiveSocket, Live, connection
  <2>1. Connect => OneLiveSocket'
    BY SocketAssumption DEF Connect, IsLive, Fresh
  <2>2. ASSUME NEW s \in Sockets, OnOpen(s) PROVE OneLiveSocket'
    BY <2>2 DEF OnOpen
  <2>3. ASSUME NEW s \in Sockets, ServerCloses(s) PROVE OneLiveSocket'
    BY <2>3 DEF ServerCloses
  <2>4. ASSUME NEW s \in Sockets, OnClose(s) PROVE OneLiveSocket'
    BY <2>4 DEF OnClose
  <2>5. ASSUME Timer PROVE OneLiveSocket'
    BY <2>1, <2>5 DEF Timer
  <2>6. ASSUME NEW type \in Types, Send(type) PROVE OneLiveSocket'
    BY <2>1, <2>6 DEF Send, HandOver, Enqueue
  <2>7. ASSUME Disconnect PROVE OneLiveSocket'
    BY <2>7 DEF Disconnect
  <2>8. CASE UNCHANGED vars
    BY <2>8 DEF vars
  <2> QED BY <2>2, <2>3, <2>4, <2>5, <2>6, <2>7, <2>8 DEF Next
<1> QED BY <1>1, <1>2, SocketTypeCorrect, PTL DEF Spec

-----------------------------------------------------------------------------
(* The order of messages, and what becomes of them. *)

\* Nothing waits while the current WebSocket is open: it was flushed when it opened, and
\* send() has not queued since.  Without this a message handed over directly could
\* overtake one that waits.
FlushedWhenOpen == IsOpen => pendingQueue = <<>>

Messages == handed \o pendingQueue

\* The inductive invariant.
OrderInv == FlushedWhenOpen /\ InCallOrder /\ ExecuteAccounted

\* Calls handed over and calls that wait, as numbers.
LEMMA Numbers ==
    ASSUME TypeOK
    PROVE  /\ handed \in Seq(Nat) /\ pendingQueue \in Seq(Nat) /\ Messages \in Seq(Nat)
           /\ \A i \in DOMAIN Messages : Messages[i] <= Len(calls)
           /\ ToSet(handed) \subseteq 1..Len(calls)
           /\ ToSet(pendingQueue) \subseteq 1..Len(calls)
  <1> DEFINE D == 1..Len(calls)
  <1>1. D \subseteq Nat /\ handed \in Seq(D) /\ pendingQueue \in Seq(D)
    BY DEF TypeOK
  <1>2. Messages \in Seq(D)
    BY <1>1 DEF Messages
  <1>3. \A q \in Seq(D) : ToSet(q) \subseteq D
    BY DEF ToSet
  <1>4. handed \in Seq(Nat) /\ pendingQueue \in Seq(Nat) /\ Messages \in Seq(Nat)
    BY <1>1, <1>2, SeqMonotone
  <1>5. Len(calls) \in Nat
    BY DEF TypeOK
  <1>6. \A i \in DOMAIN Messages : Messages[i] <= Len(calls)
    BY <1>2, <1>5
  <1> QED BY <1>1, <1>3, <1>4, <1>6

\* A flush moves messages without changing their order.
LEMMA FlushKeeps ==
    ASSUME TypeOK, InCallOrder, ExecuteAccounted, FlushQueue
    PROVE  InCallOrder' /\ ExecuteAccounted' /\ pendingQueue' = <<>>
  <1>1. handed' = Messages /\ pendingQueue' = <<>> /\ calls' = calls /\ failed' = failed
    BY DEF FlushQueue, Messages
  <1>2. Messages' = Messages
    BY <1>1, Numbers, EmptyConcat DEF Messages
  <1>3. ToSet(handed') = ToSet(handed) \cup ToSet(pendingQueue) /\ ToSet(pendingQueue') = {}
    BY <1>1, Numbers, ToSetConcat, ToSetEmpty DEF Messages
  <1>4. InCallOrder'
    BY <1>2 DEF InCallOrder, Increasing, Messages
  <1>5. ExecuteAccounted'
    BY <1>1, <1>3 DEF ExecuteAccounted
  <1> QED BY <1>1, <1>4, <1>5

\* Giving up drops what waits, and reports the executes among it.
LEMMA DrainKeeps ==
    ASSUME TypeOK, InCallOrder, ExecuteAccounted, DrainQueue
    PROVE  InCallOrder' /\ ExecuteAccounted' /\ pendingQueue' = <<>>
  <1>1. /\ handed' = handed /\ pendingQueue' = <<>> /\ calls' = calls
        /\ failed' = failed \cup {c \in ToSet(pendingQueue) : calls[c] = "execute"}
    BY DEF DrainQueue
  <1>2. Messages' = handed
    BY <1>1, Numbers, EmptyConcat DEF Messages
  <1>3. InCallOrder'
    <2>1. Increasing(handed)
      BY Numbers, IncreasingBeginning DEF InCallOrder
    <2> QED BY <2>1, <1>2 DEF InCallOrder, Increasing, Messages
  <1>4. ToSet(handed') = ToSet(handed) /\ ToSet(pendingQueue') = {}
    BY <1>1, ToSetEmpty
  <1>5. ExecuteAccounted'
    BY <1>1, <1>4 DEF ExecuteAccounted
  <1> QED BY <1>1, <1>3, <1>5

LEMMA OrderKept ==
    ASSUME TypeOK, OrderInv, UNCHANGED messages, IsOpen' => IsOpen
    PROVE  OrderInv'
  BY DEF OrderInv, FlushedWhenOpen, InCallOrder, Increasing, ExecuteAccounted, messages

\* connect() opens nothing: onopen does, later.
LEMMA ConnectOpensNothing ==
    ASSUME TypeOK, Connect
    PROVE  IsOpen' => IsOpen
  BY DEF Connect, IsOpen, TypeOK, Fresh, connection

\* A message handed over on an open WebSocket comes after all the others, and so does one
\* that is queued.
LEMMA SendKeeps ==
    ASSUME TypeOK, OrderInv, NEW type \in Types, Send(type)
    PROVE  OrderInv'
  <1> DEFINE c == Len(calls) + 1
  <1>1. c \in Nat /\ Len(calls) \in Nat
    BY DEF TypeOK
  <1>2. calls' = Append(calls, type) /\ failed' = failed
    BY DEF Send
  <1>3. DOMAIN calls' = DOMAIN calls \cup {c} /\ \A d \in DOMAIN calls : calls'[d] = calls[d]
    BY <1>2 DEF TypeOK
  <1>4. Increasing(Append(Messages, c))
    <2>1. \A i \in DOMAIN Messages : Messages[i] < c
      BY Numbers, <1>1
    <2>2. Increasing(Messages)
      BY DEF OrderInv, InCallOrder, Messages
    <2> QED BY <2>1, <2>2, Numbers, <1>1, IncreasingAppend
  <1>5. /\ c \notin ToSet(handed) /\ c \notin ToSet(pendingQueue)
        /\ c \notin failed
    BY Numbers, <1>1 DEF TypeOK
  <1>6. handed \in Seq(Nat) /\ pendingQueue \in Seq(Nat)
    BY Numbers
  <1>7. CASE HandOver(c)
    <2>1. pendingQueue = <<>> /\ pendingQueue' = <<>> /\ handed' = Append(handed, c)
      BY <1>7 DEF HandOver, OrderInv, FlushedWhenOpen
    <2>2. Messages = handed /\ Messages' = handed'
      BY <2>1, Numbers, <1>1, EmptyConcat DEF Messages
    <2>3. InCallOrder'
      BY <2>1, <2>2, <1>4 DEF InCallOrder, Increasing, Messages
    <2>4. ToSet(Append(handed, c)) = ToSet(handed) \cup {c}
      BY <1>6, <1>1, ToSetAppend
    <2>5. ToSet(handed') = ToSet(handed) \cup {c} /\ ToSet(pendingQueue') = ToSet(pendingQueue)
      BY <2>1, <2>4
    <2>6. ExecuteAccounted'
      BY <2>5, <1>2, <1>3, <1>5 DEF OrderInv, ExecuteAccounted
    <2> QED BY <2>1, <2>3, <2>6 DEF OrderInv, FlushedWhenOpen
  <1>8. CASE Enqueue(c)
    <2>1. handed' = handed /\ pendingQueue' = Append(pendingQueue, c)
      BY <1>8 DEF Enqueue
    <2>2. Messages' = Append(Messages, c)
      BY <2>1, Numbers, <1>1, ConcatAppend DEF Messages
    <2>3. InCallOrder'
      BY <2>2, <1>4 DEF InCallOrder, Increasing, Messages
    <2>4. ToSet(Append(pendingQueue, c)) = ToSet(pendingQueue) \cup {c}
      BY <1>6, <1>1, ToSetAppend
    <2>5. ToSet(pendingQueue') = ToSet(pendingQueue) \cup {c} /\ ToSet(handed') = ToSet(handed)
      BY <2>1, <2>4
    <2>6. ExecuteAccounted'
      BY <2>5, <1>2, <1>3, <1>5 DEF OrderInv, ExecuteAccounted
    <2>7. ~IsOpen'
      BY <1>8, ConnectOpensNothing DEF Enqueue, IsOpen, connection
    <2> QED BY <2>3, <2>6, <2>7 DEF OrderInv, FlushedWhenOpen
  <1> QED BY <1>7, <1>8 DEF Send

THEOREM OrderInvariant == Spec => []OrderInv
<1>1. Init => OrderInv
  <2> SUFFICES ASSUME Init PROVE OrderInv
    OBVIOUS
  <2>1. handed = <<>> /\ pendingQueue = <<>> /\ calls = <<>> /\ failed = {}
    BY DEF Init
  <2>2. FlushedWhenOpen /\ InCallOrder
    BY <2>1 DEF FlushedWhenOpen, InCallOrder, Increasing
  <2>3. ExecuteAccounted
    BY <2>1, ToSetEmpty DEF ExecuteAccounted
  <2> QED BY <2>2, <2>3 DEF OrderInv
<1>2. TypeOK /\ OrderInv /\ [Next]_vars => OrderInv'
  <2> SUFFICES ASSUME TypeOK, OrderInv, [Next]_vars PROVE OrderInv'
    OBVIOUS
  <2>1. ASSUME NEW s \in Sockets, OnOpen(s) PROVE OrderInv'
    BY <2>1, FlushKeeps DEF OnOpen, OrderInv, FlushedWhenOpen
  <2>2. ASSUME NEW s \in Sockets, ServerCloses(s) PROVE OrderInv'
    <3>1. IsOpen' => IsOpen
      BY <2>2 DEF ServerCloses, IsOpen, TypeOK
    <3> QED BY <3>1, <2>2, OrderKept DEF ServerCloses
  <2>3. ASSUME NEW s \in Sockets, OnClose(s) PROVE OrderInv'
    <3>1. IsOpen' => IsOpen
      BY <2>3 DEF OnClose, IsOpen, TypeOK
    <3>2. UNCHANGED messages \/ DrainQueue
      BY <2>3 DEF OnClose, ScheduleReconnect, messages
    <3>3. CASE DrainQueue
      BY <3>3, DrainKeeps DEF OrderInv, FlushedWhenOpen
    <3> QED BY <3>1, <3>2, <3>3, OrderKept
  <2>4. ASSUME Timer PROVE OrderInv'
    <3>1. IsOpen' => IsOpen
      BY <2>4, ConnectOpensNothing DEF Timer, IsOpen, connection
    <3> QED BY <3>1, <2>4, OrderKept DEF Timer
  <2>5. ASSUME NEW type \in Types, Send(type) PROVE OrderInv'
    BY <2>5, SendKeeps
  <2>6. ASSUME Disconnect PROVE OrderInv'
    BY <2>6, DrainKeeps DEF Disconnect, OrderInv, FlushedWhenOpen
  <2>7. CASE UNCHANGED vars
    <3>1. IsOpen' => IsOpen
      BY <2>7 DEF vars, connection, IsOpen
    <3> QED BY <3>1, <2>7, OrderKept DEF vars
  <2> QED BY <2>1, <2>2, <2>3, <2>4, <2>5, <2>6, <2>7 DEF Next
<1> QED BY <1>1, <1>2, SocketTypeCorrect, PTL DEF Spec

\* Messages are handed to WebSockets in the order in which the page sent them, and none
\* twice, through any number of reconnections.
THEOREM MessagesInOrder == Spec => []InCallOrder
  BY OrderInvariant, PTL DEF OrderInv

\* An execute is handed over, waits, or has been reported as failed, and is never two of
\* the three.
THEOREM NoExecuteVanishes == Spec => []ExecuteAccounted
  BY OrderInvariant, PTL DEF OrderInv
=============================================================================
