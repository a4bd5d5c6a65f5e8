# Formal models of Jupyter Redux

Jupyter Redux runs notebook cells in one Docker container per environment. A
FastAPI backend owns the executions, so that they survive the browser's
WebSocket; an executor server inside the container runs the code in threads and
streams
messages back over TCP; the browser shows them and saves edits.

This directory models the parts of the system whose behaviour depends on the
order in which things happen, checks the models with TLC on small instances and
proves the main safety results with TLAPS for every instance. Paths below are
relative to the repository.

## Inventory

| Component | State it keeps | Operations | Hard behaviour | Correct means |
|---|---|---|---|---|
| Execution manager, forwarders (`src/websocket.py`) | locks and counters per notebook, `_by_notebook`, per run a replay buffer, subscriber queues, `final_state`, outputs to save | execute, interrupt, force_stop, connect, disconnect, executor messages, finalization, poll, replay, forward | coroutines interleave at every `await`; reconnects during a run; a force stop takes the record away from a task that still runs; saving may fail | a run's log has one terminal state and is not mixed with another's; a viewer sees a gapless prefix; every run ends; nobody hangs |
| Executor pool (`src/websocket.py`, `src/executor_client.py`) | `active_executors`, `_executor_refcounts`, clients | set-up, acquire, release, force stop, disconnect | set-up awaits between look-up and store; done callbacks; force stop discards counts others rely on | no leak, no client taken from a run, dictionaries agree |
| Resource broadcaster (`src/websocket.py`) | subscribers, poll tasks | subscribe, unsubscribe, poll | cancellation takes effect later | one live poller iff there are subscribers; all subscribers fed |
| Executor client, stream (`src/executor_client.py`) | reader, writer | connect, execute, interrupt, disconnect | several notebooks share one connection | a run gets its own messages |
| Executor server (`src/executor/server.py`) | namespaces, current connection, execution thread, current locker | dispatch, execute, interrupt cascade | receive loop, execution thread, cascade and user threads | every execute ends in one terminal state |
| Training monitor, pattern locker (`src/executor/server.py`) | throttle and pending point; scan window | log, done; feed, finish | throttling, locking on a pattern | points in step order, the last one not lost |
| Environment store (`src/environment.py`, `src/app.py`, the save at the end of a run in `src/websocket.py`) | one JSON file per environment and notebook, two index files | create, save, delete, add and delete cells, start-up repair | several plain writes per operation, crash between or within them, a run that outlives its cell | index and files agree but for what a crash hit; no cell is lost or brought back |
| Container service (`src/container.py`) | Docker containers, last activity | create, start, stop, restart, destroy, idle monitor, file operations | external daemon; two service instances | an environment in use is not stopped |
| Browser socket (`src/static/js/ws.js`) | socket, pending queue, attempts, timers | connect, send, flush, drain, disconnect | replaced sockets whose `onclose` still acts, timers against explicit connects, a server that refuses | one live socket; every execute handed over once and in order, waiting, or reported |
| Editor: runs (`src/static/js/notebook.js`, `cell.js`) | state and outputs of each cell, the executing cell, the run-all loop | execute, run all, interrupt, reload, the handlers of messages | replays after a reconnect, several forwarders, a loop that waits for a message | a cell shows one run from its start; it is told of the end; run-all goes on |
| Editor: auto-save (`notebook.js`, `cell.js`) | a timer per cell, the text last saved | edit, save, delete, leave the page | timers that outlive their cell, requests in any order, a page that is left | the last edit is saved |
| Editor: cells (`notebook.js`, `cell.js`) | order of cells, selection, mode, undo buffer | insert, delete, undo, change type, select | positions computed before a request and used after its answer | page and file agree; one cell is shown as selected |
| Image build streaming (`src/websocket.py`) | one queue | build, drain | thread to coroutine | every line once, then the end |
| REST API, metrics, Docker files, scripts | none of their own | | | not modelled: thin or without concurrency |

How they interact: the browser's socket submits cells to `_message_loop`; that
takes a reference on the environment's client in the pool and creates an
execution task, which waits for the notebook's lock, registers a record with the
manager and reads messages from the shared client; forwarder tasks copy them to
sockets; finalization writes the notebook through the store. Force stop goes
through the container service and invalidates the pool. The page changes and saves
cells by REST requests, which end in the same store, and shows what the forwarders
send.

## Modules

The backend runs on one asyncio event loop, so there an action is what one coroutine
does between two `await`s. The executor server has threads; there an action is what
a thread does between two uses of what threads share (sockets, `sys.stdout`, the
module's globals).

**`ExecutionManager`** models the run queue, the manager and the forwarders.

| Model | Code |
|---|---|
| `sock`, `Connect`, `Disconnect`, `ForceStop`, `ForceStopped` | `notebook_websocket`, `_message_loop`, `_handle_force_stop` |
| `task`, `waiters`, `holder`, `counts`, `Execute`, `Start` | `_execute_loop`, `_execute_under_lock`, the `asyncio.Lock` of the notebook and its waiters |
| `registry`, `number`, `buffer`, `final`, `subs`, `outputs` | `ExecutionManager._by_notebook`, `RunningExecution` |
| `Logged`, `Broadcast`, `Woken` | `ExecutionManager.append`, the sentinels |
| `Relay`, `RelayError`, `Terminal`, `EndOfStream`, `Raise`, `Finalize` | `_process_executor_msg_into_manager`, `ExecutorClient.execute`, `_finalize_execution`, `_persist_cell_outputs` |
| `fwd`, `source`, `replay`, `queue`, `Subscribe`, `GiveUp`, `SendReplay`, `EndReplay`, `SendLive`, `EndLive` | `_wait_for_execution`, `_subscribe_and_forward` |
| `got` | what a forwarder has handed to `send_json`, a history variable |

The executor is any source of messages: it may send any number of outputs,
displays and errors (up to the bounds), then a terminal state, the end of the
stream or an exception. Executions in `Unsavable` are those whose
`_persist_cell_outputs` raises. Message payloads are left out; a message is the
run it was made from and its kind.

**`ExecutionLog`** is the abstract specification: per notebook one run at a time
has the turn, its log opens with "running", is closed by one terminal state and
then never changes, and a viewer sees a log from its first message on without a
gap. Only a run that is `Lingering` may be joined after its end.
`ExecutionManager!ImplementsLog` is the refinement (turn = lock holder, log = buffer,
view = what a forwarder has sent, `Lingering` = `Unsavable`: a run whose outputs cannot
be saved stays in the registry).

**`ExecutorPool`** models `active_executors`, `_executor_refcounts`, the set-up of
a socket (look-up, awaits, store), executions with their own reference, leaves,
force stops and asynchronous disconnects. `exact` is a history variable: FALSE for
an environment as soon as a set-up has overwritten the count under other
holders, or a force stop has discarded it.

**`ResourceBroadcaster`** models subscription and the poll task, whose
cancellation takes effect only when it is resumed. Its sockets and environments are the
pool's (`EnvironmentSockets`); its specification is `StatsSpec`.

**`ExecutorServer`** models the process inside the container.

| Model | Code |
|---|---|
| `at` | where every thread is: `main`, `handle_client` per connection, `handle_message` per request, cascades, threads of user code |
| `peer`, `inbox`, `sent`, `Submit`, `HangUp` | the TCP connections and the client's use of them (`executor_client.py`) |
| `job`, `Joined`, `ReceiveExecute`, `ReceiveInterrupt`, `LoopEnds`, `Close` | `exec_thread`, `_dispatch_msg`, `handle_client` |
| `Begin`, `EnterCode`, `EnterCommand`, `Return`, `Throw`, `Catch`, `Quit`, `CommandEnds`, `Announce`, `Report`, `Finish` | `handle_message`, `execute_code`, `execute_shell`/`_uv`/`_apt` |
| `Prints`, `Relays` | `StreamingWriter`, the display functions and `send_message`, which feeds the locker: it may send a chart on the connection it was made for |
| `wrap`, `found`, `EnterWrap`, `LeaveWrap` | `_MonitorWrapContext`: sys.stdout is saved and put back by user code, in executions and in threads they leave behind |
| `stdout`, `oldout`, `current`, `locker`, `baseline` | `sys.stdout`, `old_stdout`, `_current_conn`, `_current_locker`, `_exec_baseline_thread_ids` |
| `struck`, `Strike`, `InterruptCode`, `InterruptElsewhere`, `AcceptKills` | `_set_async_exc` and where the pending exception is then raised |
| `hit`, `escaped`, `mixed`, `tangled` | history: interrupted; ended by an exception that nothing caught; two connections executed together; a `wrap()` was left when another stream was in place than at its entry |

An exception posted to a thread is raised at its next bytecode: a pending thread
takes no other step of its own, except that a blocked main thread or receive loop
stays blocked until its call returns. Python 3.11 looks for it after calls and on
backward jumps, so the `finally` blocks, which make no call, are not torn. Threads
are not used again, nor are their identifiers.

An execution can end with its connection intact and no terminal state in three ways. An
exception leaves `execute_code` where its `try` does not reach: SystemExit, one that
`_invalidate_user_modules` raises before it (line 932: it iterates over modules that other
threads import), or one in the handler itself, which calls the `__str__` of the user's
exception (lines 962-967): `escaped`. Or an interrupt strikes outside the user's code:
`hit`. Or executions of two connections meet: `mixed`. `EndsAnswered` and
`RequestAnswered` say that there is no fourth.

`_MonitorWrapContext.__exit__` puts back the stream that `__enter__` found, whatever is in
place by then. In the execution that uses it this nests and restores; a thread left behind
may leave its `wrap()` after the cell has ended and install the writer of the finished cell.
`StdoutRestored` holds until such an exit (`tangled`), `Framed` also afterwards.

The page is one thread too: an action is one event handler or the part of an `async`
function between two `await`s. Four modules model the page's side, one the store.

**`NotebookSocket`** models `NotebookWebSocket`. `Sockets` are the WebSocket objects
alive at a time: `connect()` takes a fresh one, the one it replaces goes on to its
`onclose`. `calls`, `handed` and `failed` are history: what `send()` was called with,
what was given to a WebSocket, what `send_failed` reported.

| Model | Code |
|---|---|
| `ws`, `state`, `Connect`, `OnOpen`, `OnClose`, `ServerCloses` | `connect`, `onopen`, `onclose`; a refusal is a close with code 4004 |
| `reconnectAttempts`, `timers`, `ScheduleReconnect`, `Timer` | `_scheduleReconnect` and its `setTimeout` |
| `pendingQueue`, `Send`, `FlushQueue`, `DrainQueue`, `Disconnect` | `send`, `_flushQueue`, `_drainQueue`, `disconnect` |

**`NotebookView`** composes the page with the server side of its socket: the runs of a
notebook as logs, the forwarders of the connection, the socket as up, down or given
up. Delivery is one step of forwarder and page (how far a forwarder is behind its log
says what is under way); what the log looks like is `ExecutionManager`'s result, and how
the socket queues is `NotebookSocket`'s. An entry that the page shows is an "output", which
the notebook's file keeps (`kept` is `persisted_outputs`), or "transient": displays and the
errors that the backend makes itself (ExecutionError, KernelRestart) are not kept, and a
stored error is rendered as an empty element (`cell.js:411-412`). An item a cell shows is
the run and the index in its log, so a reload shows the gaps; `restored` is history, the
cells that show what the file had.

| Model | Code |
|---|---|
| `view`, `executing`, `ShowRunning`, `ShowStopping`, `ShowOutput`, `ShowEnd` | the handlers of `_connectWebSocket`; `CellComponent.setExecutionState`, `clearOutputs`, `appendOutput` |
| `ExecuteCell`, `RunAllCells`, `RunNext`, `loop`, `InterruptCell` | `executeCell`, `runAllCells` and the promise of its `_waitForExecution`, `interruptCell` |
| `runs`, `ServerReceives`, `StartRun`, `Output`, `Finish` | `_message_loop`, `_execute_under_lock`, `_record_*_msg`, `_finalize_execution` with `_persist_cell_outputs` |
| `fw`, `Attach`, `Forward`, `CutShort`, `PollTimeout` | `_wait_for_execution`, `_subscribe_and_forward`; `snap` is the length of the replay |
| `Drop`, `Reconnect`, `GiveUp`, `ConnectionErrors`, `Reload` | loss of the connection, `reconnect_failed` with `send_failed` and the error it shows, loading the page |

**`AutoSave`** models `onCellChanged`, the timer of each cell with the text it has
captured, `_saveCell` before and after its `await`, `_saveAllCells` when the page is
left, and the handlers that save and delete. Requests and answers arrive in any order,
may be lost, and those without `keepalive` may be aborted with the page. Three history
variables name the cells whose edits the code may lose: a save has failed (`failed`), two
saves of different texts were under way (`overlapped`), or the page was left while a save of
another text than the editor's was under way and nothing was sent for the cell, since its
text is the one last confirmed (`skipped`, see the disagreements below).

**`NotebookCells`** models the list of cells: `insertCellAbove`, `insertCellBelow`,
`executeCellAndAdvance` at the end, `deleteCell`, `undoDelete`, `changeCellType`,
selection and modes, with the handlers they reach. A position is computed when a
request is sent and used when it is answered, as in the code; `Splice` is JavaScript's,
which takes -1 for the last element. A request has a number, `n`, and is served in any
order; `disturbed` is history: a deletion or an undo met another change that its position
did not count with.

**`EnvironmentStore`** models each operation as the list of files it writes or deletes,
`todo`; a crash may fall between two of them or leave the one being written unparsable
(`Torn`). No handler awaits between its first read and its last write, so one handler is
under way at a time. `wanted` is history, what a notebook should hold; `suspectNbs` and
`suspectEnvs` are what a crash hit, until a later save puts it right.

`MC*` modules give the constants of the instances. Operators commented as
"Faulty variant" are not part of any specification: each is a plausible mistake in
the operator that follows it, kept to show that a property notices it.

## Runs

| Run | Instance | Shows |
|---|---|---|
| `ExecutionManagerForward` | 2 sockets, 1 run, 3 forwarders, buffers to 3 messages | replay and live delivery are a gapless prefix; the sentinel means completeness; the abstract log is implemented |
| `ExecutionManagerQueue` | 1 socket, 2 runs, 2 cells, one run unsavable, fairness | registry, buffers and saved outputs of two runs are kept apart; every run ends, no forwarder hangs |
| `ExecutorPool` | 3 sockets, 2 runs, 3 clients, 1 environment | what the reference count guarantees always, and what until it is disturbed |
| `ResourceBroadcaster` | 3 sockets, 3 poll tasks, fairness | one live poller iff subscribed, everybody is fed |
| `ExecutorServer` | 1 connection, 2 requests, 1 interrupt, fairness | executions of a connection do not overlap, their messages form blocks, every request is answered unless it was interrupted or an exception escaped |
| `ExecutorServerReconnect` | 2 connections, 2 requests, 1 user thread, 1 use of `wrap()` | a client that reconnects gets its own blocks; output streams are put back |
| `NotebookSocket` | 3 WebSockets, 2 attempts, 3 calls of 2 types, 1 disconnect, fairness | one live socket; executes are handed over in order, wait, or are reported; the queue is settled |
| `NotebookView` | 2 cells, 2 runs, of one cell with an output, a display and an output, of the other with one output, 1 fault, 1 interrupt, fairness | a cell shows one run without gaps but those of the file, and all of it at its end; cells settle and run-all goes on, but for the cases listed |
| `AutoSave` | 2 cells, 2 texts, 3 edits, 1 deletion, 1 loss, fairness | no edit is forgotten, the last one is saved, but for failed, overlapping and skipped saves |
| `NotebookCells` | 2 cells, 3 requests with 1 change of type, 1 move, 1 loss, or 4 requests alone | list, elements and file agree once all is answered; the selection is shown right whatever overlaps |
| `EnvironmentStore` | 2 environments, 3 notebooks, 1 cell, 2 crashes, symmetry | index and files agree but for what a crash hit; a notebook that can be read holds its cells |
| `ExecutionManagerDropped` | 1 socket, 1 run | a statement of the documentation the code does not keep, see below |

Bounds. `MaxBuffer` and `MaxOutputs` cut the messages of a run; three messages
(running, one in between, terminal) let a forwarder subscribe before, between and
after each, and a force stop adds its two without asking for room, as in the code.
In the queue run `MaxBuffer = 1` leaves "running" and what ends a run: what is
relayed in between is the forward run's subject. Two runs are enough for one to
overtake or outlive the other; a third would only queue. Three sockets allow
two overlapping set-ups and a bystander. Each socket, run, client and task is used
once, so behaviours are finite and `CHECK_DEADLOCK FALSE` is set: the system
stops when all are used up. Symmetry is used only in runs without liveness.

In the server, `MaxOutputs` bounds what is printed: one output can fall into any
block. The interrupt is in one run and the user thread in the other to keep both
small. `ExecutorServerReconnect` stops at the first overlap of two connections
(`UntilMixed`): its properties exempt what follows, for good. There nobody asks for an
interrupt (`NoInterrupt`), which is the other run's subject, and one thread, of the
executions and the one left behind, uses `wrap()` once (`OneWrap`), which is what it takes to
put a finished cell's stream back; in the other run each execution may. The proofs have no
such bounds.

On the page's side: three WebSockets are the current one and two that are still
closing, two attempts let a reconnection fail and the next succeed or be given up, three
calls are two that wait and one that might overtake them. In `NotebookView` two runs
may be of one cell or of two, are asked for one by one or by run-all, and the one fault
is a lost connection, a reload, a socket that gives up or a forwarder that times out: every
exception the properties make needs one. `Shows` gives one cell the least log with a gap in
what is kept, a display between two outputs, and every beginning of it. `FewEvents` trades
length of logs against faults and interrupts: all of that log with a fault, or an interrupt
with one entry or one fault. `FirstIsA` leaves out that cell b is asked for first. Every step
the two cut off is an output, a fault, an interrupt or a user's click, none of which is
assumed to be fair, so the liveness properties are checked on behaviours that may simply not
take them. `Outcomes` is {"errored"}, since the page treats
both ends alike; `RunAllCells` waits for the loop before it, since a second loop is only
two requests at a time, which `ExecuteCell` makes. In `AutoSave` two texts suffice: a
third edit goes back to the first text while the second is under way, which is where
a save may be overtaken by another. Two initial cells and three requests in
`NotebookCells` let an insertion be overtaken by a deletion and an undo on either side of
it; one move and one loss fall into any gap. Four requests are the least for two undos in
the wrong order, and are taken without the other steps (`FourAlone`). In `EnvironmentStore` the first crash makes
files disagree, the second hits what should put them right. Three notebooks give
one environment two, so that its deletion takes several steps.

Fairness. The event loop resumes every coroutine that can go on
(`LoopFairness`, `WF` on the poll tasks): asyncio schedules ready callbacks in
FIFO order, and `send_json` swallows errors, so sends return. `RunsEnd` is an
assumption on users: code returns, is interrupted or its connection drops.
In the server, receive loops and
execution threads go on (`LoopStep`, `ExecStep`: threads of one process under the
interpreter's switching), cascades end after their five seconds, and again users'
code ends. In the browser, timers fire and a WebSocket that connects or closes opens, fails
or is closed in the end (`Settle`: browsers time out both); timers of saves fire, and
requests that are not lost or aborted arrive. `NotebookView` takes over the server's
assumptions, and a connection that is down is tried again, which `NotebookSocket` shows
until it gives up. Nothing is assumed of what users click, of open connections or of
threads of user code.

### Disagreements with the documentation

`ExecutionManagerDropped` shows the violation of `NoMessageDropped`
(`contracts/websocket.md:32-34`, `websocket.py:107`): a forwarder whose run ends while it
is still sending the snapshot returns at `websocket.py:892` and leaves its queue, with the
terminal state, unsent. `NotebookView` shows what this means for the page (`CutShort`): the
cell stays "running" until it is run again or the page is loaded again.

"Edits flush on page unload" (`README.md:47`) is not so for one edit, which `AutoSave` contains
and its properties except by name (`skipped`). A cell holds A, which is saved; it is
changed to B, and the save of B is under way; it is changed back to A, and the page is left.
`_saveAllCells` clears the timer of A (`notebook.js:506`) and skips the cell, since A is the
text last confirmed (`notebook.js:513`). B is stored and A is lost, although no request was
lost and only one was sent.

### Also seen in the models

These, too, are behaviours of the code that the models contain and the properties make
exceptions for, or are stated around. No run checks them by themselves.

* The same cell submitted twice: the second forwarder finds the first run by its cell id
  (`websocket.py:598-599`), so outputs are shown twice (`crossed` of `NotebookView`); the
  later one can also show "running" again after the end.
* After a force stop the connection ends, which counts as "completed", and that is saved,
  though the viewers were told "errored" (`websocket.py:177`).
* Two overlapping set-ups reset the count; a socket that leaves then closes a client in
  use (`websocket.py:584-587`; `README.md:53` says executions survive). `ExecutorPool`
  states its guarantees until then.
* The baseline of threads is taken by `execute_code` only, so an interrupt of a shell, uv
  or apt cell is also posted to the accept loop and the receive loop
  (`executor/server.py:923-925`, `1068-1071`). Outside the `try` of `execute_code` nothing
  catches KeyboardInterrupt: the thread ends and no terminal state is sent. A cascade is not
  in the baseline of the execution it interrupts and posts the exception to itself, so it
  ends after its first round (`executor/server.py:1057`).
* An exception that leaves `execute_code` outside its handlers, or in them, ends the thread
  with no terminal state, and the backend waits for one (`escaped` of `ExecutorServer`).
* A thread that leaves `wrap()` after its cell has ended leaves that cell's writer in
  sys.stdout (`executor/server.py:681`; `tangled`).
* A reload shows a finished run without its displays, and with nothing for its error, and
  the errors the backend makes itself are gone (`NotebookView`, "transient").
* A message queued while a close with code 4004 completes waits until the page sends
  again: `onclose` schedules nothing (`denied` of `NotebookSocket`).
* Run-all waits for a "state" message; an execution reported by `send_failed` sends none,
  and the loop never resolves.
* A run that starts and ends while no forwarder of the connection is attached tells the
  page nothing: its cell stays "running".
* A save that fails is shown and not retried; two saves of one cell under way may reach
  the file in the wrong order (`failed`, `overlapped` of `AutoSave`).
* An entry of the undo buffer is taken out before the request is made, and is gone if the
  request fails. Overlapping deletions remove what is at the old position, which may be
  another cell (`disturbed` of `NotebookCells`).
* Two undos sent together may be served in the wrong order. The position of the one served
  first can then lie beyond the end of the file, where the store appends
  (`environment.py:232-235`); the page looks for the cell at that position, finds none and
  does not show it until it is loaded again (`notebook.js:394-408`). `PageAgreesWithFile`
  did not know of this case until its proof failed there.
* A notebook that was listed and is torn by a crash makes `clear_stale_running_cells` raise
  at every start: the backend does not come up (`Start`). That function never finds a cell
  to clear, since "running" is never saved.
* A crash between the deletion of a file and of its entry leaves an entry that no request
  removes, since deletion looks for the file first; a torn file cannot be deleted either.

## Proofs

Proved with TLAPS for every value of the constants that satisfies the named
assumptions of the modules (functions of the right type, disjoint identifiers, marks such
as `None` or `Torn` that are no value of what they mark, finite sets of holders where
they are counted).

* `ExecutionManagerProofs`. `Invariance` proves `[]IInv`. `BufferIsOwn` and
  `TerminalIsLast` are not inductive alone: that append, which looks the record up
  by notebook, hits the right run needs that only the task inside the lock appends,
  that a registered record without final state is that task's, that a
  running task without final state is registered, and that a task not yet
  started has a blank record. Those are `HolderRuns`, `RegisteredIsRunning`,
  `RunningIsRegistered` and `FreshIsBlank`. From `IInv` follow
  `TypeCorrect`, `RegistryIsTheLockHolder`, `BuffersAreNotMixed`,
  `LogsAreClosedOnce`.

  `DeliveryInvariance` is about the forwarders. That what a forwarder has sent and what it
  still has make up the buffer is not inductive: an append must reach the queues of exactly
  those that follow the run, so `Placed` says that a forwarder is subscribed if and only
  if it replays or sends live, that nobody follows a run before it starts, and
  that no sentinel is queued while the run is open; `Delivers` says what its stream then is,
  followed by sentinels only. From it follow `NothingIsLost`, `DeliveryIsInOrder` and
  `SentinelIsTheEnd`. `LatestCount` needs `CountsInv`: the counts saved are at most the
  notebook's, and less than the holder's own until that is saved; `LaterRunsOnly` follows.

  `ManagerImplementsLog` is the refinement, one step at a time: `Start` begins a run,
  `Relay` and `Interrupt` say something or stutter, `ForceStop` cuts each open run of its
  notebook, `Finalize` finishes, `Subscribe` joins, each send shows the viewer one message
  more, the end of a forwarder leaves, the loss of a socket drops what it followed.
  Everything else is a stutter.
* `SharedResourceProofs` is about what the sockets of an environment share, the pool's
  client and the broadcaster's task. The pool's count is compared with the cardinality of
  `Holders`; the lemmas say how each action changes that set (one in, one out, unchanged).
  `ReferencesDoNotLeak` gives `LastLeaverTearsDown`: a count that is never ahead of its
  holders is at most 1 when the last one leaves. Both safety properties of the broadcaster
  together are inductive.
* `ExecutorServerProofs`. `OneAtATime` is inductive with the types. `StdoutRestored`
  needs to know whose streams are set: while nothing was mixed all live executions
  belong to one connection (`OneConnection`), so with `OneAtATime` there is one. Until a
  `wrap()` is left in the wrong order, that one found the container's stdout when it
  replaced it (`StreamsSet`), and the streams are replaced only while code runs
  (`StreamsOwned`). In any order, the stream in place while code runs is that of an
  execution of the same connection (`StreamsNear`), which is what framing needs. No other
  thread survives the main thread (`MainOutlives`).

  `BlocksAreFramed` needs to know who may write next. `Blocks`: each message opens the
  block of its execution or goes on with the last block, which is still open, and an
  execution inside its `try` owns that block as long as its client is there. This holds
  because output goes to the current connection and that is the execution's own while
  nothing was mixed (`Alone`), and because a request starts once (`Unread`), on a
  connection that was accepted (`Accepted`). `EveryEndIsAnswered` adds to each of the ways
  an execution ends that it was answered, was interrupted, escaped or lost its client
  (`Ends`); an exception pending for an execution means that it was interrupted
  (`StruckWereHit`).
* `NotebookSocketProofs`. `OneLiveSocket` is inductive with the types: `connect()` returns
  while the current socket is live, and only the current one is made live. `InCallOrder`
  and `ExecuteAccounted` need `FlushedWhenOpen`: while the current socket is open nothing
  waits, so a direct send overtakes nothing. That in turn needs that the socket that opens
  is the current one. A lemma says that appending the next number keeps a sequence
  increasing.
* `AutoSaveProofs`. `NothingForgotten` is far from inductive. `SaveInv` adds that all
  unanswered saves of a cell that was never saved twice at a time carry one text
  (`OneTextUnderWay`), that a pending timer has captured what the editor contains
  (`TimersAreCurrent`), that a text under way is the editor's or has a timer behind it
  (`RequestsAreFollowed`), that what was confirmed is what is stored, as is
  `_lastSavedSource` once nothing is under way (`ConfirmedIsStored`, `LastSavedIsStored`),
  that a refused save still counts as failed or was made good by the same text
  (`RefusedIsMadeGood`), and what leaving the page leaves (`LeftBehind`).
* `NotebookCellsProofs`. `SelectionShown` fails if a cell is selected before it has an
  element, since `addCellToUI` would then not show it as selected. `SelectionInv` excludes
  that: all the page knows of was given out by the server (`SeenIsGivenOut`), and every
  answer on its way that brings a cell brings one the page has not seen and no other answer
  brings (`AnsweredIsNew`). Lemmas say that `indexOf` is a position or -1, by the least
  position that matches, and what `splice` does to the elements of a list.

  `PageAndFileAgree` speaks of the moments when all is answered; `AgreementInv` says what
  holds on the way there, while nothing was disturbed. Either only insertions are under way
  (`Growing`), or one deletion alone (`Deleting`). In the first case there is a chain of
  lists from `cellOrder` to the file, each one insertion longer, one for every answer on
  its way (a function, which takes the place of a recursion over the answers), and the
  positions not yet served lie within the file: those of undos once the undos sent before
  them are served, those of the undo buffer from its last entry to its first. `TypesInv` is
  the same for types: a change under way is to the type shown, and settled cells agree.
* `EnvironmentStoreProofs`. `CellsKept` speaks of the moments between two requests. Within
  one, `FilesFollow` says that a file that is not yet what it should be has a step left that
  changes it, and `WellMade` that such steps make it what it should be and that no step
  that may end the handler early (a torn file to delete or count) comes before them.
  Lemmas build the lists of steps of the handlers, and say that a concatenation of well-made
  lists is one. That the notebooks to delete can be listed needs that there are finitely many.

  `IndexIsRight` goes the same way with `IndexInv`. An index that is not yet right has a
  step left that puts it right, and no step that may end the handler comes before it
  (`NotebooksFollow`, `EntriesFollow`). `SoundSteps` is the order the handlers keep: a
  file is written before it is listed, removed before it is unlisted, and the count
  follows both. While it is not known whether a notebook is listed, neither is the count
  of its environment, unless that was deleted for good (`SuspectTogether`).
* `NotebookViewProofs`. Neither `OneRunShown` nor `EndShowsAll` is inductive: an entry that
  arrives goes on from the last one shown only if nobody else sends runs of the cell, and
  what is shown goes up to the last entry the forwarder has sent (`UpTo`). `Alone` says both,
  for every cell that was not `crossed`. The lemmas are about sequences of items that belong
  to one log and skip nothing of certain kinds (`Chain`): what the page shows live skips
  nothing it shows, what is kept for the file skips no "output". `Placed` says that a forwarder replays a run of its cell that has started, and
  `LogsInv` that a log opens with "running" (so a replay starts by clearing the cell) and
  that a terminal state is its last entry (so whoever has sent it has sent every output, and
  a forwarder that is cut short has not sent it). A reload shows what is stored, which
  leaves out no "output" of its run (`StoredInv`). A page that gives up marks cells it could not ask for; by
  `Disconnected` these show nothing, so a cell is not marked while it shows half a run.

Type correctness of the manager, pool, broadcaster, executor server, socket and auto-save,
and for the pool agreement of its dictionaries, are proved and no longer checked by a run.

Only model-checked: liveness, since fairness and ENABLED are outside the prover. Every
safety property a passing run checks is a theorem.

## Not modelled

* Cancellation of execution tasks when the server shuts down; payloads; the 50 ms period
  of polling (a forwarder may miss a run or give up at any time); the content of
  statistics. The manager's module leaves out that a notebook or cell may be deleted during
  a run: `EnvironmentStore` has it.
* Of the executor server: namespaces, ping and the recognition of command cells. Its
  training monitor and pattern locker are algorithms of one thread each; what they do to
  others (`wrap()`, charts) is in `ExecutorServer`. User code that assigns `sys.stdout` in
  another way than by `wrap()`, and a thread that uses `wrap()` more than once or nests it.
* In `NotebookView`, force stop (it is in `ExecutionManager`) and the list of created
  directories, which no cell shows.
* Several runs that read from one connection (`executor_client.py:74`).
* The container service: its state is Docker's and its operations single calls. The idle
  monitor runs on an instance that is never told of activity, so there is no race to
  model.
* Of the page: rendering of outputs and terminal emulation, renaming, the container
  badge, which editor has the focus, and `environment.html`, a second page with an editor
  of its own.
* Image build output: one producer, one consumer and one sentinel on a thread-safe queue.
* Executor image, scripts, templates.

## Plan

1. `ExecutorStream`: several runs reading one connection; composes the client with the
   server.
2. `TrainingMonitor` and `PatternLocker` as algorithms against reference definitions.
