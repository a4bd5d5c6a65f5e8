----------------------------- MODULE NotebookView -----------------------------
(***************************************************************************)
(* What a notebook page shows of the runs it asked for: the handlers that  *)
(* notebook.js registers on its socket, executeCell, runAllCells and       *)
(* interruptCell, the state and outputs of each CellComponent (cell.js),   *)
(* and, on the other side of the socket, the runs of one notebook and the  *)
(* forwarders of one connection (websocket.py).                            *)
(*                                                                         *)
(* A message is one entry of a run's log; a forwarder sends it and the     *)
(* page handles it in one step, since how far a forwarder lags behind the  *)
(* log already says what is under way.  The socket's own reconnections     *)
(* (NotebookSocket) are the values of link.                                *)
(***************************************************************************)
EXTENDS Naturals, SequencesExt, FiniteSets

CONSTANTS
    Cells,         \* the code cells of the notebook
    CellOrder,     \* this.cellOrder
    MaxRuns,       \* bound: executions asked for
    Shows,         \* bound: for each cell, what its runs may have shown at some time
    Outcomes,      \* how a run may end
    MaxFaults,     \* bound: lost connections, reloads, forwarders that time out
    MaxInterrupts, \* bound: interrupts
    None           \* null, "idle", and the cell_id that matches any

Terminals == {"completed", "errored"}

ASSUME ViewAssumption ==
    /\ None \notin Cells
    /\ Outcomes \subseteq Terminals
    /\ CellOrder \in Seq(Cells)
    /\ CellOrder # <<>>
    /\ {MaxRuns, MaxFaults, MaxInterrupts} \subseteq Nat

VARIABLES
    runs,      \* server: the executions received, in order, each with its log
    stored,    \* server: state and outputs of each cell in the notebook's file
    fw,        \* server: forwarders of the connection; number 0 is the reconnect's
    link,      \* socket: "up", "down" while it reconnects, "gaveup"
    outbox,    \* socket: messages queued while down, or under way while up
    view,      \* page: executionState and outputs of each cell
    executing, \* page: executingCellId, and whether the interrupt button shows
    loop,      \* page: index of the cell that runAllCells waits for; 0 outside
    crossed,   \* history: cells with runs that two forwarders sent at a time
    orphaned,  \* history: cells with a run whose end nobody will tell the page
    restored,  \* history: cells that show outputs from the file, of before a reload
    faults, interrupts

server == <<runs, stored>>
page == <<view, executing, loop, restored>>
bounds == <<faults, interrupts>>
vars == <<server, fw, link, outbox, page, crossed, orphaned, bounds>>

\* What a cell shows of a log.  An "output" is a stream or a result, which
\* persisted_outputs keeps too.  A "transient" is seen only by who is connected: displays
\* and the server's own errors are not kept, and a stored error is rendered empty.
ShownLive == {"output", "transient"}
LogEntries == {"running", "stopping"} \cup ShownLive \cup Terminals
Items == Seq(Nat \X Nat)
Forwarders == 0..MaxRuns
Run == [cell : Cells, log : Seq(LogEntries), kept : Items]
Message == [type : {"execute"}, cell : Cells] \cup [type : {"interrupt"}, cell : {None}]

\* A forwarder that does not exist, one that polls for a run of cell c, one that is at
\* entry pos of the log of run r and replays its first snap entries.
NoForwarder == [on |-> FALSE, want |-> None, run |-> 0, pos |-> 0, snap |-> 0]
WaitingFor(c) == [on |-> TRUE, want |-> c, run |-> 0, pos |-> 0, snap |-> 0]
AttachedTo(r) == [on |-> TRUE, want |-> runs[r].cell, run |-> r, pos |-> 1,
                  snap |-> Len(runs[r].log)]

IsQueued(r) == runs[r].log = <<>>
IsOver(r) == ~IsQueued(r) /\ Last(runs[r].log) \in Terminals
IsRunning(r) == ~IsQueued(r) /\ ~IsOver(r)
Attached(k, r) == fw[k].on /\ fw[k].run = r

\* The run is over when the replay ends: the rest of its log is not sent.
CutShort(k) == IsOver(fw[k].run) /\ fw[k].pos = fw[k].snap

Busy(c) == view[c].state \in {"running", "stopping"}

Executes(box) == {box[i].cell : i \in {j \in DOMAIN box : box[j].type = "execute"}}

Init ==
    /\ runs = <<>>
    /\ stored = [c \in Cells |-> [state |-> None, items |-> <<>>]]
    /\ fw = [k \in Forwarders |-> NoForwarder]
    /\ link = "down"
    /\ outbox = <<>>
    /\ view = stored
    /\ executing = None
    /\ loop = 0
    /\ crossed = {}
    /\ orphaned = {}
    /\ restored = {}
    /\ faults = 0
    /\ interrupts = 0

-----------------------------------------------------------------------------
(* The page asks. *)

\* Executions asked for, with those that runAllCells still has to ask for.
Asked ==
    Len(runs) + Cardinality({i \in DOMAIN outbox : outbox[i].type = "execute"})
        + (IF loop = 0 THEN 0 ELSE Len(CellOrder) - loop)

\* NotebookWebSocket.send: handed over or queued; a socket that gave up connects again.
SendMessage(type, c) ==
    /\ outbox' = Append(outbox, [type |-> type, cell |-> c])
    /\ link' = IF link = "gaveup" THEN "down" ELSE link

\* clearOutputs and setExecutionState("running"), before the server has said anything.
Start(v, c) ==
    /\ view' = [v EXCEPT ![c] = [state |-> "running", items |-> <<>>]]
    /\ restored' = restored \ {c}

ExecuteCell(c) ==
    /\ Asked < MaxRuns
    /\ Start(view, c)
    /\ SendMessage("execute", c)
    /\ orphaned' = orphaned \ {c}
    /\ UNCHANGED <<server, fw, executing, loop, crossed, bounds>>

RunAllCells ==
    /\ loop = 0
    /\ Asked + Len(CellOrder) <= MaxRuns
    /\ loop' = 1
    /\ Start(view, CellOrder[1])
    /\ SendMessage("execute", CellOrder[1])
    /\ orphaned' = orphaned \ {CellOrder[1]}
    /\ UNCHANGED <<server, fw, executing, crossed, bounds>>

\* From the toolbar and Ctrl+C for executingCellId, or from a cell's own stop button, which
\* shows while it runs.  The message names a cell, which the server only logs.
InterruptCell ==
    /\ interrupts < MaxInterrupts
    /\ executing # None \/ \E c \in Cells : view[c].state = "running"
    /\ interrupts' = interrupts + 1
    /\ SendMessage("interrupt", None)
    /\ UNCHANGED <<server, fw, page, crossed, orphaned, faults>>

-----------------------------------------------------------------------------
(* The server runs. *)

Log(r, entry) == runs' = [runs EXCEPT ![r].log = Append(@, entry)]

\* The message loop: an execution gets a task, which waits for the notebook's lock, and
\* a forwarder; an interrupt strikes whatever runs.
ServerReceives ==
    /\ link = "up" /\ outbox # <<>>
    /\ outbox' = Tail(outbox)
    /\ LET msg == Head(outbox) IN
       \/ /\ msg.type = "execute"
          /\ runs' = Append(runs, [cell |-> msg.cell, log |-> <<>>, kept |-> <<>>])
          /\ fw' = [fw EXCEPT ![Len(runs) + 1] = WaitingFor(msg.cell)]
       \/ /\ msg.type = "interrupt"
          /\ UNCHANGED fw
          /\ \/ \E r \in DOMAIN runs : IsRunning(r) /\ Log(r, "stopping")
             \/ (\A r \in DOMAIN runs : ~IsRunning(r)) /\ UNCHANGED runs
    /\ UNCHANGED <<stored, link, page, crossed, orphaned, bounds>>

StartRun(r) ==
    /\ IsQueued(r)
    /\ \A q \in 1..(r - 1) : IsOver(q)
    /\ Log(r, "running")
    /\ UNCHANGED <<stored, fw, link, outbox, page, crossed, orphaned, bounds>>

\* The entry, and in the same step the output kept for the save.
Output(r, kind) ==
    LET log == runs[r].log IN
    /\ IsRunning(r)
    /\ Append(SelectSeq(log, LAMBDA e : e \in ShownLive), kind) \in Shows[runs[r].cell]
    /\ runs' = [runs EXCEPT ![r].log = Append(log, kind),
                 ![r].kept = IF kind = "output" THEN Append(@, <<r, Len(log) + 1>>) ELSE @]
    /\ UNCHANGED <<stored, fw, link, outbox, page, crossed, orphaned, bounds>>

\* The last entry, the save and the end of the registration happen without an await.
Finish(r, end) ==
    /\ IsRunning(r)
    /\ Log(r, end)
    /\ stored' = [stored EXCEPT ![runs[r].cell] = [state |-> end, items |-> runs[r].kept]]
    /\ orphaned' = IF \E k \in Forwarders : Attached(k, r) THEN orphaned
                   ELSE orphaned \cup {runs[r].cell}
    /\ UNCHANGED <<fw, link, outbox, page, crossed, bounds>>

\* _wait_for_execution finds a run of the cell it expects, of whichever request.
Attach(k) ==
    /\ link = "up" /\ fw[k].on /\ fw[k].run = 0
    /\ \E r \in DOMAIN runs :
         /\ IsRunning(r)
         /\ fw[k].want \in {None, runs[r].cell}
         /\ fw' = [fw EXCEPT ![k] = AttachedTo(r)]
         /\ crossed' = IF \E j \in Forwarders \ {k} :
                            fw[j].run # 0 /\ fw[j].want = runs[r].cell
                       THEN crossed \cup {runs[r].cell} ELSE crossed
    /\ UNCHANGED <<server, link, outbox, page, orphaned, bounds>>

\* It polls for ten minutes.
PollTimeout(k) ==
    /\ fw[k].on /\ fw[k].run = 0 /\ faults < MaxFaults
    /\ faults' = faults + 1
    /\ fw' = [fw EXCEPT ![k] = NoForwarder]
    /\ UNCHANGED <<server, link, outbox, page, crossed, orphaned, interrupts>>

-----------------------------------------------------------------------------
(* The page is told: the handlers of "state" and of the kinds of output. *)

\* Faulty variants: a replay that clears nothing; "stopping" taken for the end.
ShowAgain(c) ==
    /\ view' = [view EXCEPT ![c].state = "running"]
    /\ executing' = c
    /\ UNCHANGED <<loop, outbox, link, restored>>

ShowStopped(c) ==
    /\ view' = [view EXCEPT ![c].state = "completed"]
    /\ UNCHANGED <<executing, loop, outbox, link, restored>>

ShowRunning(c) ==
    /\ Start(view, c)
    /\ executing' = c
    /\ UNCHANGED <<loop, outbox, link>>

ShowStopping(c) ==
    /\ view' = [view EXCEPT ![c].state = "stopping"]
    /\ UNCHANGED <<executing, loop, outbox, link, restored>>

ShowOutput(c, item) ==
    /\ view' = [view EXCEPT ![c].items = Append(@, item)]
    /\ UNCHANGED <<executing, loop, outbox, link, restored>>

\* The handler that runAllCells registered resolves, and its loop goes on at once.
RunNext(v) ==
    \/ /\ loop < Len(CellOrder)
       /\ loop' = loop + 1
       /\ Start(v, CellOrder[loop + 1])
       /\ SendMessage("execute", CellOrder[loop + 1])
    \/ /\ loop = Len(CellOrder)
       /\ loop' = 0
       /\ view' = v
       /\ UNCHANGED <<outbox, link, restored>>

Awaits(c) == loop # 0 /\ CellOrder[loop] = c

\* Faulty variant: run-all waits for success.
ShowEndIfCompleted(c, end) ==
    /\ executing' = IF executing = c THEN None ELSE executing
    /\ LET v == [view EXCEPT ![c].state = end] IN
       \/ Awaits(c) /\ end = "completed" /\ RunNext(v)
       \/ ~(Awaits(c) /\ end = "completed") /\ view' = v
          /\ UNCHANGED <<loop, outbox, link, restored>>

ShowEnd(c, end) ==
    /\ executing' = IF executing = c THEN None ELSE executing
    /\ LET v == [view EXCEPT ![c].state = end] IN
       \/ Awaits(c) /\ RunNext(v)
       \/ ~Awaits(c) /\ view' = v /\ UNCHANGED <<loop, outbox, link, restored>>

Show(c, entry, item) ==
    \/ entry = "running" /\ ShowRunning(c)
    \/ entry = "stopping" /\ ShowStopping(c)
    \/ entry \in ShownLive /\ ShowOutput(c, item)
    \/ entry \in Terminals /\ ShowEnd(c, entry)

\* Faulty variants: the forwarder ends with its run; it does not end.
AdvanceWhileRunning(k) ==
    IF IsOver(fw[k].run) THEN NoForwarder ELSE [fw[k] EXCEPT !.pos = @ + 1]

AdvanceAlways(k) == [fw[k] EXCEPT !.pos = @ + 1]

\* A forwarder ends with the log of its run, not with its run.
Advance(k) ==
    IF CutShort(k) \/ (IsOver(fw[k].run) /\ fw[k].pos = Len(runs[fw[k].run].log))
    THEN NoForwarder ELSE [fw[k] EXCEPT !.pos = @ + 1]

Forward(k) ==
    /\ link = "up" /\ fw[k].run # 0
    /\ LET r == fw[k].run
           log == runs[r].log
           pos == fw[k].pos
       IN  /\ pos <= Len(log)
           /\ Show(runs[r].cell, log[pos], <<r, pos>>)
    /\ fw' = [fw EXCEPT ![k] = Advance(k)]
    /\ orphaned' = IF CutShort(k) THEN orphaned \cup {fw[k].want}
                   ELSE IF loop' \in {loop, 0} THEN orphaned
                   ELSE orphaned \ {CellOrder[loop']}
    /\ UNCHANGED <<server, crossed, bounds>>

-----------------------------------------------------------------------------
(* The connection. *)

\* Cells whose end was on its way, or whose execution was.
CutOff ==
    {runs[fw[k].run].cell : k \in {j \in Forwarders : fw[j].run # 0 /\ IsOver(fw[j].run)}}
        \cup (IF link = "up" THEN Executes(outbox) ELSE {})

Drop ==
    /\ link = "up" /\ faults < MaxFaults
    /\ faults' = faults + 1
    /\ link' = "down"
    /\ outbox' = <<>>
    /\ fw' = [k \in Forwarders |-> NoForwarder]
    /\ orphaned' = orphaned \cup CutOff
    /\ UNCHANGED <<server, page, crossed, interrupts>>

\* A connection gets a forwarder of its own only if a run is registered by then.
Reconnect ==
    /\ link = "down"
    /\ link' = "up"
    /\ \/ (\E r \in DOMAIN runs : IsRunning(r)) /\ fw' = [fw EXCEPT ![0] = WaitingFor(None)]
       \/ (\A r \in DOMAIN runs : ~IsRunning(r)) /\ UNCHANGED fw
    /\ UNCHANGED <<server, outbox, page, crossed, orphaned, bounds>>

\* reconnect_failed: send_failed marks the cell of each execution and appends an error
\* that is of no run; it tells runAllCells nothing.
ConnectionErrors(c) ==
    LET failed == {j \in DOMAIN outbox : outbox[j] = [type |-> "execute", cell |-> c]} IN
    [i \in 1..Cardinality(failed) |-> <<0, i>>]

GiveUp ==
    /\ link = "down" /\ faults < MaxFaults
    /\ faults' = faults + 1
    /\ link' = "gaveup"
    /\ view' = [c \in Cells |->
         IF c \in Executes(outbox)
         THEN [state |-> "errored", items |-> view[c].items \o ConnectionErrors(c)]
         ELSE view[c]]
    /\ outbox' = <<>>
    /\ orphaned' = orphaned \cup {c \in Executes(outbox) : Awaits(c)}
    /\ UNCHANGED <<server, fw, executing, loop, restored, crossed, interrupts>>

\* The page is loaded again: the stored cells are rendered, then it connects.
Reload ==
    /\ faults < MaxFaults
    /\ faults' = faults + 1
    /\ view' = stored
    /\ restored' = {c \in Cells : stored[c].items # <<>>}
    /\ executing' = None
    /\ loop' = 0
    /\ link' = "down"
    /\ outbox' = <<>>
    /\ fw' = [k \in Forwarders |-> NoForwarder]
    /\ UNCHANGED <<server, crossed, orphaned, interrupts>>

ServerStep ==
    \/ ServerReceives
    \/ \E r \in DOMAIN runs :
         \/ StartRun(r)
         \/ \E kind \in ShownLive : Output(r, kind)
         \/ \E end \in Outcomes : Finish(r, end)
    \/ \E k \in Forwarders : Attach(k) \/ PollTimeout(k) \/ Forward(k)

Next ==
    \/ \E c \in Cells : ExecuteCell(c)
    \/ InterruptCell \/ RunAllCells
    \/ ServerStep
    \/ Drop \/ Reconnect \/ GiveUp \/ Reload

Spec == Init /\ [][Next]_vars

\* The loop of the server turns, code that runs ends, and the socket keeps trying.
FairSpec ==
    /\ Spec
    /\ WF_vars(ServerReceives)
    /\ WF_vars(Reconnect)
    /\ WF_vars(\E k \in Forwarders : Forward(k))
    /\ WF_vars(\E r \in DOMAIN runs : StartRun(r))
    /\ WF_vars(\E r \in DOMAIN runs, end \in Outcomes : Finish(r, end))

-----------------------------------------------------------------------------
(* Properties. *)

TypeOK ==
    /\ runs \in Seq(Run)
    /\ stored \in [Cells -> [state : Terminals \cup {None}, items : Items]]
    /\ fw \in [Forwarders -> [on : BOOLEAN, want : Cells \cup {None},
                              run : 0..Len(runs), pos : Nat, snap : Nat]]
    /\ \A k \in Forwarders : LET r == fw[k].run IN r # 0 =>
         /\ fw[k].pos \in 1..(Len(runs[r].log) + IF IsOver(r) THEN 0 ELSE 1)
         /\ IsOver(r) => fw[k].snap < Len(runs[r].log)
    /\ link \in {"up", "down", "gaveup"}
    /\ outbox \in Seq(Message)
    /\ view \in [Cells -> [state : LogEntries \cup {None}, items : Items]]
    /\ executing \in Cells \cup {None}
    /\ loop \in 0..Len(CellOrder)
    /\ crossed \subseteq Cells /\ orphaned \subseteq Cells /\ restored \subseteq Cells

\* What a cell is meant to show of a run: all of it while it is sent, and after a reload
\* what the file keeps.
KindsShown(c) == IF c \in restored THEN {"output"} ELSE ShownLive

\* An entry of one of the kinds lies between two places of a log.
LeavesOut(log, kinds, i, j) == \E n \in (i + 1)..(j - 1) : log[n] \in kinds

\* What a cell shows is of one run, each entry once, in order and without a gap: a
\* connection that comes back replays the run from its start, and nothing of what was
\* shown before is shown twice or mixed with it.  A reloaded cell has the gaps that the
\* file has, which keeps no displays, and no others.  Cells whose runs two forwarders of a
\* connection sent at a time are excepted: those outputs are doubled.
OneRunShown ==
    \A c \in Cells \ crossed :
        LET s == view[c].items IN
        \A n \in 1..(Len(s) - 1) :
            LET r == s[n][1] IN
            /\ s[n + 1][1] = r /\ s[n][2] < s[n + 1][2]
            /\ r # 0 => ~LeavesOut(runs[r].log, KindsShown(c), s[n][2], s[n + 1][2])

\* A cell that shows a result and outputs of a run shows that run up to its end, although
\* forwarders lag, and the handlers of state and of output are not the same.  After a
\* reload, up to the last output the file keeps.
EndShowsAll ==
    \A c \in Cells \ crossed :
        LET s == view[c].items
            r == Last(s)[1] IN
        (view[c].state \in Terminals /\ s # <<>> /\ r # 0) =>
            /\ IsOver(r)
            /\ ~LeavesOut(runs[r].log, KindsShown(c), Last(s)[2], Len(runs[r].log) + 1)

\* A cell that shows itself as running is told of its end some time, unless the run ended
\* with no forwarder to tell it, or one that was still replaying, or a message was on its
\* way when the connection was lost.
CellSettles == \A c \in Cells : Busy(c) ~> (~Busy(c) \/ c \in orphaned)

\* Run-all goes on to the next cell, with the same exceptions and one more: the promise
\* it awaits listens to "state" only, and an execution that could not be sent says none.
RunAllAdvances ==
    \A i \in DOMAIN CellOrder : (loop = i) ~> (loop # i \/ CellOrder[i] \in orphaned)
=============================================================================
