---------------------------- MODULE ExecutorPool ----------------------------
(***************************************************************************)
(* The executor clients that all notebooks of an environment share         *)
(* (src/src/websocket.py and executor_client.py): active_executors, the    *)
(* reference counts, the set-up of a WebSocket with its awaits, executions *)
(* that hold a reference of their own, the force stop that restarts the    *)
(* container, and the asynchronous disconnect of a client that was dropped.*)
(*                                                                         *)
(* An action is what the event loop runs between two awaits.               *)
(***************************************************************************)
EXTENDS EnvironmentSockets, Naturals, FiniteSets

CONSTANTS
    Execs,      \* execution tasks
    Clients     \* ExecutorClient objects; each is connected once

ASSUME FiniteAssumption == IsFiniteSet(Sockets) /\ IsFiniteSet(Execs)
ASSUME DistinctAssumption == Sockets \cap Execs = {} /\ None \notin Clients

VARIABLES
    active,     \* active_executors: absent entries are None
    refs,       \* _executor_refcounts: absent entries are 0
    client,     \* state of each ExecutorClient
    serves,     \* the environment whose container it is connected to
    sock,       \* where the handler of each WebSocket is
    run,        \* state of each execution task
    env,        \* its environment
    uses,       \* the client it was given
    exact       \* history: per environment, no set-up has overwritten the count
                \* and no force stop has thrown it away so far

vars == <<active, refs, client, serves, sock, run, env, uses, exact>>

\* A handler holds a reference from the end of its set-up to its finally block,
\* an execution from its creation to its done callback.
SocketHolds == {"ready", "restarting", "closing"}
Holders(e) == {w \in Sockets : EnvOf[w] = e /\ sock[w] \in SocketHolds}
                \cup {x \in Execs : env[x] = e /\ run[x] = "running"}

\* ExecutorClient.is_connected: the writer is there until disconnect() is over.
IsConnected(c) == client[c] \in {"connected", "closing"}

Init ==
    /\ active = [e \in Envs |-> None]
    /\ refs = [e \in Envs |-> 0]
    /\ client = [c \in Clients |-> "unused"]
    /\ serves = [c \in Clients |-> None]
    /\ sock = [w \in Sockets |-> "new"]
    /\ run = [x \in Execs |-> "unused"]
    /\ env = [x \in Execs |-> None]
    /\ uses = [x \in Execs |-> None]
    /\ exact = [e \in Envs |-> TRUE]

-----------------------------------------------------------------------------
(***************************************************************************)
(* Reference counting.                                                     *)
(***************************************************************************)

\* _acquire_executor_ref
Acquired(e) == [refs EXCEPT ![e] = @ + 1]

\* disconnect() of a dropped client starts as a task of its own.
Dropped(c) == IF c = None THEN client ELSE [client EXCEPT ![c] = "closing"]

\* Faulty variant: the last reference leaves the entry in active_executors.
ReleaseKeepingEntry(e) ==
    /\ refs' = [refs EXCEPT ![e] = IF @ <= 1 THEN 0 ELSE @ - 1]
    /\ client' = IF refs[e] <= 1 THEN Dropped(active[e]) ELSE client
    /\ UNCHANGED active

\* Faulty variant: the last reference forgets the client without closing it.
ReleaseLeaking(e) ==
    /\ refs' = [refs EXCEPT ![e] = IF @ <= 1 THEN 0 ELSE @ - 1]
    /\ active' = IF refs[e] <= 1 THEN [active EXCEPT ![e] = None] ELSE active
    /\ UNCHANGED client

\* Faulty variant: the client goes when one reference is left.
ReleaseEarly(e) ==
    IF refs[e] <= 2
    THEN /\ refs' = [refs EXCEPT ![e] = 0]
         /\ active' = [active EXCEPT ![e] = None]
         /\ client' = Dropped(active[e])
    ELSE /\ refs' = [refs EXCEPT ![e] = @ - 1]
         /\ UNCHANGED <<active, client>>

\* _release_executor_ref: a missing count reads as 1.
Release(e) ==
    IF refs[e] <= 1
    THEN /\ refs' = [refs EXCEPT ![e] = 0]
         /\ active' = [active EXCEPT ![e] = None]
         /\ client' = Dropped(active[e])
    ELSE /\ refs' = [refs EXCEPT ![e] = @ - 1]
         /\ UNCHANGED <<active, client>>

-----------------------------------------------------------------------------
(***************************************************************************)
(* Set-up of a WebSocket: _setup_connection.                               *)
(***************************************************************************)

\* A client is there already: it is taken as it is.
SetupReuse(w) ==
    LET e == EnvOf[w]
    IN  /\ sock[w] = "new"
        /\ active[e] # None
        /\ refs' = Acquired(e)
        /\ sock' = [sock EXCEPT ![w] = "ready"]
        /\ UNCHANGED <<active, client, serves, run, env, uses, exact>>

\* No client yet: the image is built, the container started and a connection
\* opened, with awaits between in which every other task may run.
SetupBegin(w) ==
    /\ sock[w] = "new"
    /\ active[EnvOf[w]] = None
    /\ sock' = [sock EXCEPT ![w] = "starting"]
    /\ UNCHANGED <<active, refs, client, serves, run, env, uses, exact>>

\* The connection stands: the new client and a count of 1 replace whatever other
\* set-ups have stored meanwhile.
SetupEnd(w, c) ==
    LET e == EnvOf[w]
    IN  /\ sock[w] = "starting"
        /\ client[c] = "unused"
        /\ client' = [client EXCEPT ![c] = "connected"]
        /\ serves' = [serves EXCEPT ![c] = e]
        /\ active' = [active EXCEPT ![e] = c]
        /\ refs' = [refs EXCEPT ![e] = 1]
        /\ exact' = [exact EXCEPT ![e] = @ /\ Holders(e) = {}]
        /\ sock' = [sock EXCEPT ![w] = "ready"]
        /\ UNCHANGED <<run, env, uses>>

\* The build, the container or the connection failed; the handler returns before
\* the try block, so nothing is released.
SetupFail(w) ==
    /\ sock[w] = "starting"
    /\ sock' = [sock EXCEPT ![w] = "closed"]
    /\ UNCHANGED <<active, refs, client, serves, run, env, uses, exact>>

-----------------------------------------------------------------------------
(***************************************************************************)
(* The message loop and the executions it creates.                         *)
(***************************************************************************)

\* Faulty variant: the execution takes no reference.
ExecuteUnreferenced(w, x) ==
    LET e == EnvOf[w]
    IN  /\ sock[w] = "ready"
        /\ run[x] = "unused"
        /\ active[e] # None
        /\ run' = [run EXCEPT ![x] = "running"]
        /\ env' = [env EXCEPT ![x] = e]
        /\ uses' = [uses EXCEPT ![x] = active[e]]
        /\ UNCHANGED <<active, refs, client, serves, sock, exact>>

\* "execute": the reference is taken before the task is created.
Execute(w, x) ==
    LET e == EnvOf[w]
    IN  /\ sock[w] = "ready"
        /\ run[x] = "unused"
        /\ active[e] # None
        /\ IsConnected(active[e])
        /\ refs' = Acquired(e)
        /\ run' = [run EXCEPT ![x] = "running"]
        /\ env' = [env EXCEPT ![x] = e]
        /\ uses' = [uses EXCEPT ![x] = active[e]]
        /\ UNCHANGED <<active, client, serves, sock, exact>>

\* The handler's finally block: after a disconnect, or after an "execute" that
\* found no connected client (close code 1012).
Leave(w) ==
    /\ sock[w] = "ready"
    /\ sock' = [sock EXCEPT ![w] = "closed"]
    /\ Release(EnvOf[w])
    /\ UNCHANGED <<serves, run, env, uses, exact>>

\* Faulty variant: an execution ends and keeps its reference.
ExecDoneUnreleased(x) ==
    /\ run[x] = "running"
    /\ run' = [run EXCEPT ![x] = "done"]
    /\ UNCHANGED <<active, refs, client, serves, sock, env, uses, exact>>

\* The done callback of an execution task.
ExecDone(x) ==
    /\ run[x] = "running"
    /\ run' = [run EXCEPT ![x] = "done"]
    /\ Release(env[x])
    /\ UNCHANGED <<serves, sock, env, uses, exact>>

-----------------------------------------------------------------------------
(***************************************************************************)
(* Force stop: _handle_force_stop.                                         *)
(***************************************************************************)

\* The container is being restarted, in a thread.
ForceStop(w) ==
    /\ sock[w] = "ready"
    /\ sock' = [sock EXCEPT ![w] = "restarting"]
    /\ UNCHANGED <<active, refs, client, serves, run, env, uses, exact>>

\* The restart returned, or raised.  The entry and its count are
\* discarded, whoever still counts on them.
DiscardExecutor(w) ==
    LET e == EnvOf[w]
    IN  /\ sock[w] = "restarting"
        /\ sock' = [sock EXCEPT ![w] = "closing"]
        /\ active' = [active EXCEPT ![e] = None]
        /\ refs' = [refs EXCEPT ![e] = 0]
        /\ client' = Dropped(active[e])
        /\ exact' = [exact EXCEPT ![e] = FALSE]
        /\ UNCHANGED <<serves, run, env, uses>>

\* The socket is closed, receive_text() raises, and the finally block releases the
\* reference that DiscardExecutor has already thrown away.
ForceStopLeave(w) ==
    /\ sock[w] = "closing"
    /\ sock' = [sock EXCEPT ![w] = "closed"]
    /\ Release(EnvOf[w])
    /\ UNCHANGED <<serves, run, env, uses, exact>>

-----------------------------------------------------------------------------

\* ExecutorClient.disconnect has finished: the writer is dropped.
Disconnected(c) ==
    /\ client[c] = "closing"
    /\ client' = [client EXCEPT ![c] = "closed"]
    /\ UNCHANGED <<active, refs, serves, sock, run, env, uses, exact>>

Next ==
    \/ \E w \in Sockets :
          \/ SetupReuse(w) \/ SetupBegin(w) \/ SetupFail(w)
          \/ \E c \in Clients : SetupEnd(w, c)
          \/ \E x \in Execs : Execute(w, x)
          \/ Leave(w)
          \/ ForceStop(w) \/ DiscardExecutor(w) \/ ForceStopLeave(w)
    \/ \E x \in Execs : ExecDone(x)
    \/ \E c \in Clients : Disconnected(c)

Spec == Init /\ [][Next]_vars

-----------------------------------------------------------------------------

TypeOK ==
    /\ active \in [Envs -> Clients \cup {None}]
    /\ refs \in [Envs -> Nat]
    /\ client \in [Clients -> {"unused", "connected", "closing", "closed"}]
    /\ serves \in [Clients -> Envs \cup {None}]
    /\ sock \in [Sockets -> {"new", "starting", "closed"} \cup SocketHolds]
    /\ run \in [Execs -> {"unused", "running", "done"}]
    /\ env \in [Execs -> Envs \cup {None}]
    /\ uses \in [Execs -> Clients \cup {None}]
    /\ exact \in [Envs -> BOOLEAN]
    /\ \A x \in Execs : run[x] # "unused" => env[x] \in Envs /\ uses[x] \in Clients

\* active_executors and _executor_refcounts have the same keys after every step.
DomainsAgree ==
    \A e \in Envs : active[e] = None <=> refs[e] = 0

\* What active_executors holds is connected, to the container of that environment:
\* a client leaves the dictionary before its disconnect begins.
ActiveIsConnected ==
    \A e \in Envs : active[e] # None =>
        /\ client[active[e]] = "connected"
        /\ serves[active[e]] = e

\* The count may fall behind its holders, but is never ahead of them: the last one
\* to leave an environment finds a count of at most 1 and tears the client down,
\* whatever set-ups and force stops have happened before.
NoReferenceLeak ==
    \A e \in Envs : refs[e] <= Cardinality(Holders(e))

\* So an environment that nobody holds has no client left open in the dictionary.
IdleHasNoClient ==
    \A e \in Envs : Holders(e) = {} => active[e] = None

\* "Refcount = (# active WS connections) + (# in-flight executions)", as long as no
\* set-up has overwritten the count under other holders and no force stop has
\* dropped it.
ExactUntilDisturbed ==
    \A e \in Envs : exact[e] => refs[e] = Cardinality(Holders(e))

\* Until then an execution keeps the client it was given, whoever disconnects.
InFlightKeptUntilDisturbed ==
    \A x \in Execs : run[x] = "running" /\ exact[env[x]] => uses[x] = active[env[x]]

\* Until then an environment has no connection that nobody will close.
OneClientUntilDisturbed ==
    \A c \in Clients :
        client[c] = "connected" /\ exact[serves[c]] => active[serves[c]] = c
=============================================================================
