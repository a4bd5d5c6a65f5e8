---------------------------- MODULE NotebookSocket ----------------------------
(***************************************************************************)
(* The browser's NotebookWebSocket (src/src/static/js/ws.js): one object   *)
(* per open notebook that owns the current WebSocket, a queue of messages  *)
(* sent while it was down, and the timers of its reconnections.            *)
(*                                                                         *)
(* A replaced WebSocket lives on until its closing handshake is over, and  *)
(* its onclose handler then acts on the shared object.  Calls are numbered *)
(* in the order they are made; a socket that is open takes a message even  *)
(* when the network under it is already dead.                              *)
(***************************************************************************)
EXTENDS Naturals, SequencesExt

CONSTANTS
    Sockets,        \* WebSocket objects that can be alive at one time
    Types,          \* types of messages
    MaxAttempts,    \* maxReconnectAttempts
    MaxCalls,       \* bound: calls of send()
    MaxDisconnects, \* bound: calls of disconnect()
    None            \* null

ASSUME SocketAssumption ==
    /\ None \notin Sockets
    /\ "execute" \in Types
    /\ MaxAttempts \in Nat \ {0}
    /\ MaxCalls \in Nat
    /\ MaxDisconnects \in Nat

VARIABLES
    ws,                  \* the current WebSocket
    state,               \* readyState of each; "refusing" is CLOSING with code 4004
    intentionallyClosed,
    reconnectAttempts,
    timers,              \* reconnections that are scheduled
    pendingQueue,        \* numbers of the calls that wait
    calls,               \* history: the type of every call of send()
    handed,              \* history: calls given to a WebSocket, in that order
    failed,              \* history: calls reported by send_failed
    denied,              \* history: the current WebSocket was closed with 4004
    disconnects          \* history: how often disconnect() was called

connection == <<ws, state, intentionallyClosed, denied>>
retries == <<reconnectAttempts, timers>>
messages == <<pendingQueue, calls, handed, failed>>
vars == <<connection, retries, messages, disconnects>>

ReadyStates == {"connecting", "open", "closing", "refusing", "closed"}

Live(s) == state[s] \in {"connecting", "open"}

IsOpen == ws # None /\ state[ws] = "open"

IsLive == ws # None /\ Live(ws)

IsClosed == ws # None => state[ws] = "closed"

\* WebSocket objects that nothing refers to any more.
Fresh == {s \in Sockets : s # ws /\ state[s] = "closed"}

\* The constructor, and the page's call of connect() right after it.
Init ==
    /\ ws \in Sockets
    /\ state = [s \in Sockets |-> IF s = ws THEN "connecting" ELSE "closed"]
    /\ intentionallyClosed = FALSE
    /\ reconnectAttempts = 0
    /\ timers = 0
    /\ pendingQueue = <<>>
    /\ calls = <<>>
    /\ handed = <<>>
    /\ failed = {}
    /\ denied = FALSE
    /\ disconnects = 0

\* Faulty variant: a connection made by hand leaves the flag of disconnect() set.
ConnectUnreset ==
    \/ IsLive /\ UNCHANGED connection
    \/ /\ ~IsLive
       /\ \E s \in Fresh :
            /\ ws' = s
            /\ state' = [state EXCEPT ![s] = "connecting"]
       /\ denied' = FALSE
       /\ UNCHANGED intentionallyClosed

Connect ==
    \/ IsLive /\ UNCHANGED connection
    \/ /\ ~IsLive
       /\ \E s \in Fresh :
            /\ ws' = s
            /\ state' = [state EXCEPT ![s] = "connecting"]
       /\ intentionallyClosed' = FALSE
       /\ denied' = FALSE

\* Faulty variants: nothing is reported; the queue is emptied from its end.
DrainSilently ==
    /\ pendingQueue' = <<>>
    /\ UNCHANGED <<calls, handed, failed>>

FlushBackwards ==
    /\ handed' = handed \o Reverse(pendingQueue)
    /\ pendingQueue' = <<>>
    /\ UNCHANGED <<calls, failed>>

\* The execute messages among what waits; other types are dropped without a word.
DrainQueue ==
    /\ pendingQueue' = <<>>
    /\ failed' = failed \cup {c \in ToSet(pendingQueue) : calls[c] = "execute"}
    /\ UNCHANGED <<calls, handed>>

FlushQueue ==
    /\ handed' = handed \o pendingQueue
    /\ pendingQueue' = <<>>
    /\ UNCHANGED <<calls, failed>>

ScheduleReconnect ==
    \/ /\ reconnectAttempts >= MaxAttempts
       /\ DrainQueue
       /\ UNCHANGED retries
    \/ /\ reconnectAttempts < MaxAttempts
       /\ reconnectAttempts' = reconnectAttempts + 1
       /\ timers' = timers + 1
       /\ UNCHANGED messages

\* Whether onclose leaves it at that.
StaysClosed(s) == intentionallyClosed \/ state[s] = "refusing"

-----------------------------------------------------------------------------
(* What happens to a WebSocket. *)

OnOpen(s) ==
    /\ state[s] = "connecting"
    /\ state' = [state EXCEPT ![s] = "open"]
    /\ reconnectAttempts' = 0
    /\ FlushQueue
    /\ UNCHANGED <<ws, intentionallyClosed, denied, timers, disconnects>>

\* A close frame arrives: readyState is CLOSING before onclose is called.
ServerCloses(s) ==
    /\ state[s] = "open"
    /\ \E how \in {"closing", "refusing"} : state' = [state EXCEPT ![s] = how]
    /\ UNCHANGED <<ws, intentionallyClosed, denied, retries, messages, disconnects>>

\* The handshake is over, the connection is lost, or it could not be made.
OnClose(s) ==
    /\ state[s] # "closed"
    /\ state' = [state EXCEPT ![s] = "closed"]
    /\ denied' = (denied \/ (s = ws /\ state[s] = "refusing"))
    /\ \/ StaysClosed(s) /\ UNCHANGED <<retries, messages>>
       \/ ~StaysClosed(s) /\ ScheduleReconnect
    /\ UNCHANGED <<ws, intentionallyClosed, disconnects>>

Timer ==
    /\ timers > 0
    /\ timers' = timers - 1
    /\ \/ ~intentionallyClosed /\ Connect
       \/ intentionallyClosed /\ UNCHANGED connection
    /\ UNCHANGED <<reconnectAttempts, messages, disconnects>>

-----------------------------------------------------------------------------
(* Calls of the page: execute(), interrupt(), forceStop() and disconnect(). *)

HandOver(c) ==
    /\ IsOpen
    /\ handed' = Append(handed, c)
    /\ UNCHANGED <<pendingQueue, connection>>

Enqueue(c) ==
    /\ ~IsOpen
    /\ pendingQueue' = Append(pendingQueue, c)
    /\ \/ IsClosed /\ Connect
       \/ ~IsClosed /\ UNCHANGED connection
    /\ UNCHANGED handed

Send(type) ==
    /\ Len(calls) < MaxCalls
    /\ calls' = Append(calls, type)
    /\ HandOver(Len(calls) + 1) \/ Enqueue(Len(calls) + 1)
    /\ UNCHANGED <<failed, retries, disconnects>>

Disconnect ==
    /\ disconnects < MaxDisconnects
    /\ disconnects' = disconnects + 1
    /\ intentionallyClosed' = TRUE
    /\ DrainQueue
    /\ state' = [s \in Sockets |-> IF s = ws /\ Live(s) THEN "closing" ELSE state[s]]
    /\ ws' = None
    /\ UNCHANGED <<denied, retries>>

Next ==
    \/ \E s \in Sockets : OnOpen(s) \/ ServerCloses(s) \/ OnClose(s)
    \/ Timer
    \/ \E type \in Types : Send(type)
    \/ Disconnect

Spec == Init /\ [][Next]_vars

\* A WebSocket that connects opens or fails, and one that closes is closed in the end.
Settle(s) == OnOpen(s) \/ (state[s] # "open" /\ OnClose(s))

FairSpec == Spec /\ WF_vars(Timer) /\ \A s \in Sockets : WF_vars(Settle(s))

-----------------------------------------------------------------------------
(* Properties. *)

TypeOK ==
    /\ ws \in Sockets \cup {None}
    /\ state \in [Sockets -> ReadyStates]
    /\ intentionallyClosed \in BOOLEAN
    /\ reconnectAttempts \in 0..MaxAttempts
    /\ timers \in Nat
    /\ calls \in Seq(Types)
    /\ pendingQueue \in Seq(DOMAIN calls)
    /\ handed \in Seq(DOMAIN calls)
    /\ failed \subseteq DOMAIN calls
    /\ denied \in BOOLEAN
    /\ disconnects \in 0..MaxDisconnects

\* connect() is called by timers of several onclose handlers and by send(): however they
\* meet, at most the current WebSocket is connecting or open, so that the notebook is
\* never subscribed twice and a flush goes to the socket that opened.
OneLiveSocket == \A s \in Sockets : Live(s) => s = ws

Increasing(q) == \A i, j \in DOMAIN q : i < j => q[i] < q[j]

\* Across queueing, flushes, give-ups and direct sends, messages reach WebSockets in the
\* order of the calls and at most once each: what waits is later than what was handed
\* over, so that send() on an open socket overtakes nothing in _pendingQueue.
InCallOrder == Increasing(handed \o pendingQueue)

\* "Queues messages while disconnected and flushes on reconnect": no execute vanishes.
\* Each is in exactly one place: given to a WebSocket, waiting, or reported to the page
\* by send_failed; so a cell reported as failed does not run later on.
ExecuteAccounted ==
    /\ \A c \in DOMAIN calls : calls[c] = "execute" =>
           c \in ToSet(handed) \cup ToSet(pendingQueue) \cup failed
    /\ ToSet(handed) \cap ToSet(pendingQueue) = {}
    /\ failed \cap (ToSet(handed) \cup ToSet(pendingQueue)) = {}

\* What waits in _pendingQueue is flushed or given up in the end: some timer or WebSocket
\* is always left to do it.  The exception is a message queued while a socket closes with
\* code 4004: onclose schedules nothing, and it waits until the page sends again.
QueueSettles == (pendingQueue # <<>>) ~> (pendingQueue = <<>> \/ denied)

=============================================================================
