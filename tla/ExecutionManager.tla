-------------------------- MODULE ExecutionManager --------------------------
(***************************************************************************)
(* The execution manager of the backend (src/src/websocket.py): cells run  *)
(* as asyncio tasks that outlive the WebSocket they were submitted on, one *)
(* at a time per notebook; every message of a run goes to a replay buffer  *)
(* and to the queues of its subscribers; a forwarder task per submission   *)
(* (and one per reconnect) polls for the run it waits for, replays the     *)
(* buffer to its socket and then drains its queue.                         *)
(*                                                                         *)
(* All of this runs on one event loop, so an action is what a coroutine    *)
(* does between two awaits.  The executor at the other end of the TCP      *)
(* connection is a source of arbitrary messages.                           *)
(***************************************************************************)
EXTENDS Naturals, Sequences, SequencesExt, FiniteSets

CONSTANTS
    Notebooks,      \* notebook ids
    Cells,          \* cell ids
    Sockets,        \* WebSocket connections; each is opened at most once
    Execs,          \* execution tasks; each is created at most once
    NotebookOf,     \* the notebook a connection is for (its URL path)
    Unsavable,      \* executions whose outputs cannot be saved: the store raises
    MaxBuffer,      \* bound: messages in a replay buffer
    MaxOutputs,     \* bound: outputs an execution keeps for the notebook file
    None            \* Python's None: no record, no holder, the queue sentinel

ASSUME SocketsAssumption == NotebookOf \in [Sockets -> Notebooks]
ASSUME UnsavableAssumption == Unsavable \subseteq Execs
ASSUME BoundsAssumption == MaxBuffer \in Nat /\ MaxOutputs \in Nat
\* The task created for submission x forwards to the socket of x; the one
\* created when socket w connects while the notebook has a run forwards to w.
Forwarders == Execs \cup Sockets

FinalStates == {"completed", "errored"}
Kinds == {"running", "output", "display", "stopping", "error"} \cup FinalStates

\* A message names the execution whose record it was made from (cell_id and
\* execution_count in the code); its payload is left out.
Message == [exec : Execs, kind : Kinds]
Msg(x, k) == [exec |-> x, kind |-> k]

ASSUME DistinctAssumption ==
    /\ Execs \cap Sockets = {}
    /\ None \notin Execs \cup Sockets \cup Cells \cup Message \cup FinalStates

VARIABLES
    sock,       \* state of each WebSocket
    task,       \* state of each execution task
    by,         \* the socket an execution was submitted on
    cell,       \* the cell it runs
    waiters,    \* per notebook, the tasks waiting for its asyncio.Lock (FIFO)
    holder,     \* per notebook, the task inside its asyncio.Lock
    counts,     \* execution_counts
    registry,   \* ExecutionManager._by_notebook
    number,     \* RunningExecution.execution_count
    buffer,     \* RunningExecution.buffer
    final,      \* RunningExecution.final_state
    subs,       \* RunningExecution.subscribers
    outputs,    \* RunningExecution.persisted_outputs
    outcome,    \* the local final_state of _execute_under_lock
    saved,      \* what the notebook file says of each cell
    fwd,        \* state of each forwarder task
    source,     \* the record a forwarder is subscribed to
    replay,     \* what it has still to send of its snapshot
    queue,      \* its asyncio.Queue
    got         \* what it has sent to its socket

sockVars == <<sock, by, cell>>
lockVars == <<task, waiters, holder, counts>>
recVars  == <<registry, number, buffer, final, subs, outputs, outcome, saved>>
fwdVars  == <<fwd, source, replay, queue, got>>
vars == <<sockVars, lockVars, recVars, fwdVars>>

SocketOf(f) == IF f \in Sockets THEN f ELSE by[f]
NotebookFor(f) == NotebookOf[SocketOf(f)]

SavedCell == [state : {"idle"} \cup FinalStates, count : Nat,
              outputs : Seq({"output", "error"})]

-----------------------------------------------------------------------------

Init ==
    /\ sock = [w \in Sockets |-> "new"]
    /\ task = [x \in Execs |-> "unused"]
    /\ by = [x \in Execs |-> None]
    /\ cell = [x \in Execs |-> None]
    /\ waiters = [n \in Notebooks |-> <<>>]
    /\ holder = [n \in Notebooks |-> None]
    /\ counts = [n \in Notebooks |-> 0]
    /\ registry = [n \in Notebooks |-> None]
    /\ number = [x \in Execs |-> 0]
    /\ buffer = [x \in Execs |-> <<>>]
    /\ final = [x \in Execs |-> None]
    /\ subs = [x \in Execs |-> {}]
    /\ outputs = [x \in Execs |-> <<>>]
    /\ outcome = [x \in Execs |-> None]
    /\ saved = [n \in Notebooks |-> [c \in Cells |->
                  [state |-> "idle", count |-> 0, outputs |-> <<>>]]]
    /\ fwd = [f \in Forwarders |-> "unused"]
    /\ source = [f \in Forwarders |-> None]
    /\ replay = [f \in Forwarders |-> <<>>]
    /\ queue = [f \in Forwarders |-> <<>>]
    /\ got = [f \in Forwarders |-> <<>>]

-----------------------------------------------------------------------------
(***************************************************************************)
(* ExecutionManager.append and the sentinels.  append finds the record by  *)
(* notebook id, drops the message when there is none, and puts it on every *)
(* subscriber's queue in the same step.                                    *)
(***************************************************************************)

Logged(n, msgs) ==
    IF registry[n] = None THEN buffer
    ELSE [buffer EXCEPT ![registry[n]] = @ \o msgs]

Broadcast(n, msgs) ==
    [f \in Forwarders |->
        IF registry[n] # None /\ f \in subs[registry[n]]
        THEN queue[f] \o msgs ELSE queue[f]]

\* Faulty variants: no sentinel is sent; it overtakes the messages in the queue.
NotWoken(x, q) == q
WokenFirst(x, q) ==
    [f \in Forwarders |-> IF f \in subs[x] THEN <<None>> \o q[f] ELSE q[f]]

Woken(x, q) ==
    [f \in Forwarders |-> IF f \in subs[x] THEN Append(q[f], None) ELSE q[f]]

\* Faulty variant: ExecutionManager.unregister does nothing.
KeepRegistered(n) == registry[n]

Unregistered(n) == None

HasRoom(n) == registry[n] # None => Len(buffer[registry[n]]) < MaxBuffer

-----------------------------------------------------------------------------
(***************************************************************************)
(* Sockets: notebook_websocket and _message_loop.                          *)
(***************************************************************************)

\* The connection is set up; if the notebook has a run in flight, a forwarder
\* is created for whatever run it finds.  A browser that reconnects opens another
\* socket of the same notebook.
Connect(w) ==
    /\ sock[w] = "new"
    /\ sock' = [sock EXCEPT ![w] = "open"]
    /\ fwd' = [fwd EXCEPT ![w] = IF registry[NotebookOf[w]] = None
                                THEN "unused" ELSE "polling"]
    /\ UNCHANGED <<by, cell, source, replay, queue, got, lockVars, recVars>>

\* "execute": the task is created, and the forwarder that waits for the cell.
Execute(w, x, c) ==
    /\ sock[w] = "open"
    /\ task[x] = "unused"
    /\ task' = [task EXCEPT ![x] = "queued"]
    /\ by' = [by EXCEPT ![x] = w]
    /\ cell' = [cell EXCEPT ![x] = c]
    /\ waiters' = [waiters EXCEPT ![NotebookOf[w]] = Append(@, x)]
    /\ fwd' = [fwd EXCEPT ![x] = "polling"]
    /\ UNCHANGED <<sock, holder, counts, source, replay, queue, got, recVars>>

\* "interrupt": subscribers see "stopping" at once.  The signal itself goes to
\* the executor, which may answer with anything (or nothing).
Interrupt(w) ==
    LET n == NotebookOf[w]
        x == registry[n]
    IN  /\ sock[w] = "open"
        /\ x # None
        /\ final[x] = None
        /\ HasRoom(n)
        /\ buffer' = Logged(n, <<Msg(x, "stopping")>>)
        /\ queue' = Broadcast(n, <<Msg(x, "stopping")>>)
        /\ UNCHANGED <<sockVars, lockVars, registry, number, final, subs, outputs,
                       outcome, saved, fwd, source, replay, got>>

\* The forwarders of w that are still running are cancelled: each leaves its
\* record's subscribers, and its snapshot, its queue and the page it fed are gone.
CancelForwarders(w) ==
    LET cancelled == {f \in Forwarders : /\ fwd[f] \in {"polling", "replaying", "live"}
                                         /\ SocketOf(f) = w}
    IN  /\ fwd' = [f \in Forwarders |->
                      IF f \in cancelled THEN "cancelled" ELSE fwd[f]]
        /\ subs' = [x \in Execs |-> subs[x] \ cancelled]
        /\ replay' = [f \in Forwarders |->
                         IF f \in cancelled THEN <<>> ELSE replay[f]]
        /\ queue' = [f \in Forwarders |-> IF f \in cancelled THEN <<>> ELSE queue[f]]
        /\ got' = [f \in Forwarders |-> IF f \in cancelled THEN <<>> ELSE got[f]]

\* The client goes away, or the message loop closes a socket whose executor is
\* gone (code 1012).  Executions are left running.
Disconnect(w) ==
    /\ sock[w] = "open"
    /\ sock' = [sock EXCEPT ![w] = "closed"]
    /\ CancelForwarders(w)
    /\ UNCHANGED <<by, cell, lockVars, registry, number, buffer, final, outputs,
                   outcome, saved, source>>

\* "force_stop", up to the restart of the container: a terminal state for the
\* run in flight, the sentinels, and the record is unregistered.  The task that
\* owns the run knows nothing of it and still holds the lock.
ForceStop(w) ==
    LET n == NotebookOf[w]
        x == registry[n]
        last == <<Msg(x, "error"), Msg(x, "errored")>>
    IN  /\ sock[w] = "open"
        /\ sock' = [sock EXCEPT ![w] = "restarting"]
        /\ IF x # None /\ final[x] = None
           THEN /\ buffer' = Logged(n, last)
                /\ queue' = Woken(x, Broadcast(n, last))
                /\ final' = [final EXCEPT ![x] = "errored"]
                /\ registry' = [registry EXCEPT ![n] = Unregistered(n)]
           ELSE UNCHANGED <<buffer, queue, final, registry>>
        /\ UNCHANGED <<by, cell, lockVars, number, subs, outputs, outcome, saved,
                       fwd, source, replay, got>>

\* The restart returned, with or without success: the socket is closed.
ForceStopped(w) ==
    /\ sock[w] = "restarting"
    /\ sock' = [sock EXCEPT ![w] = "closed"]
    /\ CancelForwarders(w)
    /\ UNCHANGED <<by, cell, lockVars, registry, number, buffer, final, outputs,
                   outcome, saved, source>>

-----------------------------------------------------------------------------
(***************************************************************************)
(* Execution tasks: _execute_under_lock.                                   *)
(***************************************************************************)

\* Faulty variant: runs of a notebook are not serialised.
NoLock(n) == TRUE

LockFree(n) == holder[n] = None

\* The first waiter gets the lock, registers a fresh record and broadcasts
\* "running".  Nobody can have subscribed to the record yet.
Start(x) ==
    LET n == NotebookFor(x)
    IN  /\ task[x] = "queued"
        /\ waiters[n] # <<>>
        /\ Head(waiters[n]) = x
        /\ LockFree(n)
        /\ task' = [task EXCEPT ![x] = "running"]
        /\ waiters' = [waiters EXCEPT ![n] = Tail(@)]
        /\ holder' = [holder EXCEPT ![n] = x]
        /\ counts' = [counts EXCEPT ![n] = @ + 1]
        /\ number' = [number EXCEPT ![x] = counts[n] + 1]
        /\ registry' = [registry EXCEPT ![n] = x]
        /\ buffer' = [buffer EXCEPT ![x] = <<Msg(x, "running")>>]
        /\ outcome' = [outcome EXCEPT ![x] = "completed"]
        /\ UNCHANGED <<sockVars, final, subs, outputs, saved, fwdVars>>

\* A message of the executor that is not about the outcome.  Output and results
\* are kept for the notebook file; displays and created_dirs are not.
Relay(x, k) ==
    LET n == NotebookFor(x)
    IN  /\ task[x] = "running"
        /\ HasRoom(n)
        /\ Len(outputs[x]) < MaxOutputs
        /\ buffer' = Logged(n, <<Msg(x, k)>>)
        /\ queue' = Broadcast(n, <<Msg(x, k)>>)
        /\ outputs' = IF k = "output" THEN [outputs EXCEPT ![x] = Append(@, k)]
                      ELSE outputs
        /\ UNCHANGED <<sockVars, lockVars, registry, number, final, subs, outcome,
                       saved, fwd, source, replay, got>>

\* An error message is kept and decides the outcome, unless a terminal state
\* follows and decides otherwise.
RelayError(x) ==
    LET n == NotebookFor(x)
    IN  /\ task[x] = "running"
        /\ HasRoom(n)
        /\ Len(outputs[x]) < MaxOutputs
        /\ buffer' = Logged(n, <<Msg(x, "error")>>)
        /\ queue' = Broadcast(n, <<Msg(x, "error")>>)
        /\ outputs' = [outputs EXCEPT ![x] = Append(@, "error")]
        /\ outcome' = [outcome EXCEPT ![x] = "errored"]
        /\ UNCHANGED <<sockVars, lockVars, registry, number, final, subs, saved,
                       fwd, source, replay, got>>

\* Faulty variant: the lock is not released.
KeepLock(n) == holder[n]

Released(n) == None

\* _persist_cell_outputs: the cell in the notebook file gets the kept outputs.
Persisted(x, s) ==
    [saved EXCEPT ![NotebookFor(x)][cell[x]] =
        [state |-> s, count |-> number[x], outputs |-> outputs[x]]]

\* _finalize_execution, then the lock is released: the final state is broadcast
\* (to the record registered for the notebook) and saved, the subscribers of x are
\* woken and the record is unregistered.  When the store raises, with the notebook
\* written or not, the last two do not happen.
Finalize(x, s, before) ==
    LET n == NotebookFor(x)
        last == Append(before, Msg(x, s))
    IN  /\ task[x] = "running"
        /\ final' = [final EXCEPT ![x] = s]
        /\ buffer' = Logged(n, last)
        /\ \/ /\ x \notin Unsavable
              /\ saved' = Persisted(x, s)
              /\ queue' = Woken(x, Broadcast(n, last))
              /\ registry' = [registry EXCEPT ![n] = Unregistered(n)]
           \/ /\ x \in Unsavable
              /\ saved' \in {saved, Persisted(x, s)}
              /\ queue' = Broadcast(n, last)
              /\ UNCHANGED registry
        /\ holder' = [holder EXCEPT ![n] = Released(n)]
        /\ task' = [task EXCEPT ![x] = "done"]
        /\ UNCHANGED <<sockVars, waiters, counts, number, subs, outputs, outcome,
                       fwd, source, replay, got>>

\* The executor sends a terminal state.
Terminal(x) == \E s \in FinalStates : Finalize(x, s, <<>>)

\* The connection ends: the loop over executor.execute() just stops, and the
\* outcome is what it was so far, "completed" unless an error came.
EndOfStream(x) == Finalize(x, outcome[x], <<>>)

\* executor.execute() raises: not connected, or two readers on one connection.
Raise(x) == Finalize(x, "errored", <<Msg(x, "error")>>)

-----------------------------------------------------------------------------
(***************************************************************************)
(* Forwarder tasks: _subscribe_and_forward.                                *)
(***************************************************************************)

\* The forwarder of a submission waits for a run of its cell, the one of a
\* reconnect for any run.
Awaits(f, x) == f \in Execs => cell[x] = cell[f]

\* Faulty variant: the subscriber gets what comes next, without the snapshot.
NoReplay(x) == <<>>

Snapshot(x) == buffer[x]

\* A poll finds a run: the buffer is copied and the queue registered at once.
Subscribe(f) ==
    LET x == registry[NotebookFor(f)]
    IN  /\ fwd[f] = "polling"
        /\ x # None
        /\ Awaits(f, x)
        /\ fwd' = [fwd EXCEPT ![f] = "replaying"]
        /\ source' = [source EXCEPT ![f] = x]
        /\ replay' = [replay EXCEPT ![f] = Snapshot(x)]
        /\ subs' = [subs EXCEPT ![x] = @ \cup {f}]
        /\ UNCHANGED <<sockVars, lockVars, registry, number, buffer, final, outputs,
                       outcome, saved, queue, got>>

\* Ten minutes of polling found no run.
GiveUp(f) ==
    /\ fwd[f] = "polling"
    /\ fwd' = [fwd EXCEPT ![f] = "timedout"]
    /\ UNCHANGED <<sockVars, lockVars, recVars, source, replay, queue, got>>

SendReplay(f) ==
    /\ fwd[f] = "replaying"
    /\ replay[f] # <<>>
    /\ got' = [got EXCEPT ![f] = Append(@, Head(replay[f]))]
    /\ replay' = [replay EXCEPT ![f] = Tail(@)]
    /\ UNCHANGED <<sockVars, lockVars, recVars, fwd, source, queue>>

\* The snapshot has been sent.  If the run has ended meanwhile the forwarder
\* returns, whatever its queue holds.
EndReplay(f) ==
    /\ fwd[f] = "replaying"
    /\ replay[f] = <<>>
    /\ IF final[source[f]] # None
       THEN /\ fwd' = [fwd EXCEPT ![f] = "done"]
            /\ subs' = [subs EXCEPT ![source[f]] = @ \ {f}]
            /\ queue' = [queue EXCEPT ![f] = <<>>]
       ELSE /\ fwd' = [fwd EXCEPT ![f] = "live"]
            /\ UNCHANGED <<subs, queue>>
    /\ UNCHANGED <<sockVars, lockVars, registry, number, buffer, final, outputs,
                   outcome, saved, source, replay, got>>

SendLive(f) ==
    /\ fwd[f] = "live"
    /\ queue[f] # <<>>
    /\ Head(queue[f]) # None
    /\ got' = [got EXCEPT ![f] = Append(@, Head(queue[f]))]
    /\ queue' = [queue EXCEPT ![f] = Tail(@)]
    /\ UNCHANGED <<sockVars, lockVars, recVars, fwd, source, replay>>

\* The sentinel: the run has ended.
EndLive(f) ==
    /\ fwd[f] = "live"
    /\ queue[f] # <<>>
    /\ Head(queue[f]) = None
    /\ fwd' = [fwd EXCEPT ![f] = "done"]
    /\ subs' = [subs EXCEPT ![source[f]] = @ \ {f}]
    /\ queue' = [queue EXCEPT ![f] = <<>>]
    /\ UNCHANGED <<sockVars, lockVars, registry, number, buffer, final, outputs,
                   outcome, saved, source, replay, got>>

-----------------------------------------------------------------------------

Ends(x) == Terminal(x) \/ EndOfStream(x) \/ Raise(x)

ExecStep(x) ==
    \/ Start(x)
    \/ \E k \in {"output", "display"} : Relay(x, k)
    \/ RelayError(x)
    \/ Ends(x)

SocketStep(w) ==
    \/ Connect(w)
    \/ \E x \in Execs, c \in Cells : Execute(w, x, c)
    \/ Interrupt(w)
    \/ Disconnect(w)
    \/ ForceStop(w)
    \/ ForceStopped(w)

ForwarderStep(f) ==
    \/ Subscribe(f)
    \/ GiveUp(f)
    \/ SendReplay(f)
    \/ EndReplay(f)
    \/ SendLive(f)
    \/ EndLive(f)

Next ==
    \/ \E x \in Execs : ExecStep(x)
    \/ \E w \in Sockets : SocketStep(w)
    \/ \E f \in Forwarders : ForwarderStep(f)

Spec == Init /\ [][Next]_vars

\* The event loop runs every task that can go on: the lock goes to its next
\* waiter, forwarders go on sending, and polling ends after ten minutes at the
\* latest.  Nothing is assumed of the executor or of the browser.
LoopFairness ==
    /\ \A x \in Execs : WF_vars(Start(x))
    /\ \A f \in Forwarders : WF_vars(ForwarderStep(f))

\* Runs end: the user's code returns, is interrupted, or its connection drops.
RunsEnd == \A x \in Execs : WF_vars(Ends(x))

FairSpec == Spec /\ LoopFairness /\ RunsEnd

-----------------------------------------------------------------------------
(***************************************************************************)
(* Type invariant and safety.                                              *)
(***************************************************************************)

TypeOK ==
    /\ sock \in [Sockets -> {"new", "open", "restarting", "closed"}]
    /\ task \in [Execs -> {"unused", "queued", "running", "done"}]
    /\ by \in [Execs -> Sockets \cup {None}]
    /\ cell \in [Execs -> Cells \cup {None}]
    /\ waiters \in [Notebooks -> Seq(Execs)]
    /\ holder \in [Notebooks -> Execs \cup {None}]
    /\ counts \in [Notebooks -> Nat]
    /\ registry \in [Notebooks -> Execs \cup {None}]
    /\ number \in [Execs -> Nat]
    /\ buffer \in [Execs -> Seq(Message)]
    /\ final \in [Execs -> FinalStates \cup {None}]
    /\ subs \in [Execs -> SUBSET Forwarders]
    /\ outputs \in [Execs -> Seq({"output", "error"})]
    /\ outcome \in [Execs -> FinalStates \cup {None}]
    /\ saved \in [Notebooks -> [Cells -> SavedCell]]
    /\ fwd \in [Forwarders -> {"unused", "polling", "replaying", "live",
                               "done", "cancelled", "timedout"}]
    /\ source \in [Forwarders -> Execs \cup {None}]
    /\ replay \in [Forwarders -> Seq(Message)]
    /\ queue \in [Forwarders -> Seq(Message \cup {None})]
    /\ got \in [Forwarders -> Seq(Message)]
    /\ \A x \in Execs : task[x] # "unused" => by[x] \in Sockets /\ cell[x] \in Cells
    /\ \A x \in Execs : task[x] = "running" => outcome[x] \in FinalStates
    /\ \A f \in Forwarders :
          /\ fwd[f] # "unused" /\ f \in Execs => task[f] # "unused"
          /\ fwd[f] \in {"replaying", "live"} => source[f] \in Execs

\* The record of a run in flight is registered only while its task is inside the
\* notebook's lock, and one that is over stays registered only if it could not be
\* saved.  So a task that finalizes never unregisters the record of another run.
RegisteredRunHoldsLock ==
    \A n \in Notebooks : registry[n] # None =>
        IF final[registry[n]] = None THEN holder[n] = registry[n]
        ELSE registry[n] \in Unsavable

\* Whatever is in the replay buffer of a run was said by that run: append finds
\* the record by notebook id, not by run, and still never gets the wrong one.
BufferIsOwn ==
    \A x \in Execs : \A i \in DOMAIN buffer[x] : buffer[x][i].exec = x

\* A replay buffer holds at most one terminal state, and nothing after it.
TerminalIsLast ==
    \A x \in Execs : \A i \in DOMAIN buffer[x] :
        buffer[x][i].kind \in FinalStates <=> /\ i = Len(buffer[x])
                                              /\ final[x] # None

Following(f) == fwd[f] \in {"replaying", "live"}

\* Sent, still to replay and queued.
Stream(f) == got[f] \o replay[f] \o queue[f]

\* A sequence that is what was said, with nothing but sentinels behind it.
ThenSentinels(said, s) ==
    /\ IsPrefix(said, s)
    /\ \A i \in DOMAIN s : i > Len(said) => s[i] = None

\* Sent, still to replay and queued make up the buffer, with nothing missing and
\* nothing twice, and sentinels come last: the snapshot and the registration of the
\* queue are one step.
NothingLostWhileSubscribed ==
    \A f \in Forwarders : Following(f) => ThenSentinels(buffer[source[f]], Stream(f))

\* What one forwarder sent is always the beginning of what its run said.
DeliveredInOrder ==
    \A f \in Forwarders : source[f] # None => IsPrefix(got[f], buffer[source[f]])

\* A forwarder that leaves on the sentinel has sent the whole run.
SentinelMeansComplete ==
    [][\A f \in Forwarders : EndLive(f) => got[f] = buffer[source[f]]]_vars

\* Two runs of a notebook get different execution counts, in the order in which
\* they got the lock, and the file never goes back to an earlier run of a cell.
SavedNeverRegresses ==
    [][\A n \in Notebooks, c \in Cells :
          saved'[n][c] # saved[n][c] => saved'[n][c].count > saved[n][c].count]_vars

-----------------------------------------------------------------------------
(***************************************************************************)
(* The manager implements the abstract log.  A viewer is a forwarder from  *)
(* its subscription to its end; the run that holds the lock has the turn.  *)
(***************************************************************************)

Follows(f) == IF Following(f) THEN source[f] ELSE None

Log == INSTANCE ExecutionLog WITH
           Viewers <- Forwarders,
           Lingering <- Unsavable,
           turn <- holder,
           log <- buffer,
           on <- [f \in Forwarders |-> Follows(f)],
           view <- got

\* One run at a time says something, what it says is closed once, and every
\* forwarder shows it from its beginning and in order.
ImplementsLog == Log!LogSpec

-----------------------------------------------------------------------------
(***************************************************************************)
(* Liveness.                                                               *)
(***************************************************************************)

\* A submitted cell runs and ends, however many runs wait before it, also when its
\* record was taken away by a force stop and when a run before it was not saved.
SubmittedRunEnds ==
    \A x \in Execs : task[x] = "queued" ~> task[x] = "done"

\* No forwarder hangs: the sentinel, the check after the replay, or the end of
\* polling gets it out.  The exception is a run that could not be saved: its
\* sentinels are never sent.
ForwarderEnds ==
    \A f \in Forwarders :
        fwd[f] = "polling" ~> \/ fwd[f] \in {"done", "cancelled", "timedout"}
                              \/ source[f] \in Unsavable

-----------------------------------------------------------------------------
(***************************************************************************)
(* What the documentation says and the code does not do.                   *)
(***************************************************************************)

\* The server "concludes with a state message (completed or errored)"
\* (contracts/websocket.md:32-34) and no message is "delivered twice or dropped"
\* (websocket.py:107): a forwarder that returned by itself has sent the whole run.
NoMessageDropped ==
    \A f \in Forwarders : fwd[f] = "done" => got[f] = buffer[source[f]]
=============================================================================
