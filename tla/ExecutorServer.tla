---------------------------- MODULE ExecutorServer ----------------------------
(***************************************************************************)
(* The executor server that runs inside a container                        *)
(* (src/src/executor/server.py): a main thread that accepts connections, a *)
(* receive loop per connection, a thread per "execute", threads that user  *)
(* code starts and leaves behind, and a thread per "interrupt" that posts  *)
(* KeyboardInterrupt to other threads.  They share sys.stdout, the current *)
(* connection, the current pattern locker and the baseline of threads.     *)
(* User code changes sys.stdout too, by the monitor's wrap().              *)
(*                                                                         *)
(* A posted exception is pending until the thread runs Python bytecode     *)
(* again, and is then raised wherever that thread happens to be.           *)
(***************************************************************************)
EXTENDS Naturals, Sequences, FiniteSets

CONSTANTS
    Main,       \* the thread in main()
    Conns,      \* connections of clients, and their handle_client threads
    Execs,      \* "execute" requests, and the threads that handle them
    Users,      \* threads started by user code
    Cascades,   \* threads started by "interrupt" requests
    MaxOutputs, \* bound: how much is printed
    None        \* Python's None; for stdout, the container's own

ASSUME ThreadsAssumption ==
    /\ Conns \cap (Execs \cup Users \cup Cascades) = {}
    /\ Execs \cap (Users \cup Cascades) = {}
    /\ Users \cap Cascades = {}
    /\ {Main, None, "interrupt"} \cap (Conns \cup Execs \cup Users \cup Cascades) = {}
    /\ Main # None

Threads == {Main} \cup Conns \cup Execs \cup Users \cup Cascades

\* Threads that do not run; main and receive loops; other threads; executions.
Places == {"none", "ended", "accepting", "recv", "leaving", "user", "running",
           "starting", "begun", "code", "command", "catching", "stopping", "reporting",
           "reported"}

\* The handlers of Exception and of KeyboardInterrupt in execute_code.
Handlers == {"catching", "stopping"}

Terminals == {"completed", "errored"}
Kinds == {"running", "output", "error"} \cup Terminals
Message == [by : Execs \cup Users, kind : Kinds]
Msg(t, k) == [by |-> t, kind |-> k]

VARIABLES
    at,         \* where each thread is
    peer,       \* the client's end of each connection
    inbox,      \* what a client has sent and the receive loop has not read
    job,        \* exec_thread of a receive loop
    on,         \* the connection an execution was submitted on
    target,     \* the execution thread a cascade was started for
    struck,     \* threads with a pending KeyboardInterrupt
    baseline,   \* _exec_baseline_thread_ids
    stdout,     \* sys.stdout: the execution whose StreamingWriter it is
    oldout,     \* old_stdout of each execution
    current,    \* _current_conn
    locker,     \* _current_locker: the execution it was made for
    failed,     \* the local "errored" of handle_message
    sent,       \* what has been written to each connection
    wrap,       \* whether a thread of user code is inside wrap() of a monitor
    found,      \* the stream it has found there, and puts back
    hit,        \* history: executions that were ever interrupted
    escaped,    \* history: executions that an exception ended, which nothing caught
    mixed,      \* history: executions of two connections were alive together, or the
                \* stream of one was put back under an execution of another
    tangled     \* history: another stream was put back than the one in place

wireVars == <<peer, inbox, sent>>
loopVars == <<job, on>>
sharedVars == <<baseline, stdout, oldout, current>>
wrapVars == <<wrap, found>>
localVars == <<target, wrapVars>>
history == <<hit, escaped, mixed, tangled>>
vars == <<at, wireVars, loopVars, localVars, struck, sharedVars, locker, failed, history>>

Live(t) == at[t] \notin {"none", "ended"}
LiveThreads == {t \in Threads : Live(t)}

Init ==
    /\ at = [t \in Threads |-> IF t = Main THEN "accepting" ELSE "none"]
    /\ peer = [c \in Conns |-> "new"]
    /\ inbox = [c \in Conns |-> <<>>]
    /\ job = [c \in Conns |-> None]
    /\ on = [x \in Execs |-> None]
    /\ target = [k \in Cascades |-> None]
    /\ struck = {}
    /\ baseline = {}
    /\ stdout = None
    /\ oldout = [x \in Execs |-> None]
    /\ current = None
    /\ locker = None
    /\ failed = [x \in Execs |-> FALSE]
    /\ sent = [c \in Conns |-> <<>>]
    /\ hit = {}
    /\ wrap = [t \in Execs \cup Users |-> "before"]
    /\ found = [t \in Execs \cup Users |-> None]
    /\ escaped = {}
    /\ mixed = FALSE
    /\ tangled = FALSE

-----------------------------------------------------------------------------
(***************************************************************************)
(* Writing to a connection: send_message.                                  *)
(***************************************************************************)

\* conn.sendall() can succeed until the receive loop has closed the connection,
\* and can raise once that has happened or the client has gone.
Works(c) == at[c] # "ended"
Breaks(c) == at[c] = "ended" \/ peer[c] = "gone"

Outputs == UNION {{<<d, i>> : i \in {j \in DOMAIN sent[d] : sent[d][j].kind = "output"}} :
                    d \in Conns}

MayPrint(c) == Works(c) /\ Cardinality(Outputs) < MaxOutputs

Written(c, m) == IF peer[c] = "open" THEN [sent EXCEPT ![c] = Append(@, m)] ELSE sent

-----------------------------------------------------------------------------
(***************************************************************************)
(* Clients, the accept loop and the receive loops.                         *)
(***************************************************************************)

\* main: a connection is accepted and gets its receive loop.
Connect(c) ==
    /\ at[Main] = "accepting"
    /\ Main \notin struck
    /\ peer[c] = "new"
    /\ peer' = [peer EXCEPT ![c] = "open"]
    /\ at' = [at EXCEPT ![c] = "recv"]
    /\ UNCHANGED <<inbox, sent, loopVars, localVars, struck, sharedVars, locker, failed,
                   history>>

\* Somebody else connects, and accept() returns to a main thread with a pending
\* KeyboardInterrupt: the process ends and all its threads with it.
AcceptKills ==
    /\ at[Main] = "accepting"
    /\ Main \in struck
    /\ at' = [t \in Threads |-> IF Live(t) THEN "ended" ELSE at[t]]
    /\ struck' = {}
    /\ UNCHANGED <<wireVars, loopVars, localVars, sharedVars, locker, failed, history>>

\* A client sends a request.
Submit(c, r) ==
    /\ peer[c] = "open"
    /\ Works(c)
    /\ \A d \in Conns : \A i \in DOMAIN inbox[d] : inbox[d][i] # r
    /\ r \in Execs => on[r] = None
    /\ inbox' = [inbox EXCEPT ![c] = Append(@, r)]
    /\ UNCHANGED <<at, peer, sent, loopVars, localVars, struck, sharedVars, locker,
                   failed, history>>

HangUp(c) ==
    /\ peer[c] = "open"
    /\ peer' = [peer EXCEPT ![c] = "gone"]
    /\ UNCHANGED <<at, inbox, sent, loopVars, localVars, struck, sharedVars, locker,
                   failed, history>>

\* Faulty variants: a running execution is not waited for; one that was joined is not
\* forgotten.
NotJoined(c) == TRUE
NeverJoined(c) == job[c] = None

\* Whether exec_thread.join() returns at once: no execution, or one that is over.
Joined(c) == \A x \in Execs : job[c] = x => ~Live(x)

Reads(c) == at[c] = "recv" /\ c \notin struck

\* _dispatch_msg, "interrupt": a cascade thread is started if there is a live
\* execution thread to interrupt.
ReceiveInterrupt(c) ==
    /\ Reads(c)
    /\ inbox[c] # <<>>
    /\ Head(inbox[c]) = "interrupt"
    /\ inbox' = [inbox EXCEPT ![c] = Tail(@)]
    /\ \/ /\ ~Joined(c)
          /\ \E k \in Cascades :
                /\ at[k] = "none"
                /\ at' = [at EXCEPT ![k] = "running"]
                /\ target' = [target EXCEPT ![k] = job[c]]
       \/ /\ Joined(c)
          /\ UNCHANGED <<at, target>>
    /\ UNCHANGED <<peer, sent, loopVars, wrapVars, struck, sharedVars, locker, failed,
                   history>>

\* _dispatch_msg, "execute": the loop waits for the execution before, and nothing
\* behind this request is read meanwhile; then it starts a thread.
ReceiveExecute(c) ==
    LET x == Head(inbox[c])
    IN  /\ Reads(c)
        /\ inbox[c] # <<>>
        /\ x \in Execs
        /\ Joined(c)
        /\ inbox' = [inbox EXCEPT ![c] = Tail(@)]
        /\ at' = [at EXCEPT ![x] = "starting"]
        /\ on' = [on EXCEPT ![x] = c]
        /\ job' = [job EXCEPT ![c] = x]
        /\ mixed' = (mixed \/ \E y \in Execs : Live(y) /\ on[y] # c)
        /\ UNCHANGED <<peer, sent, localVars, struck, sharedVars, locker, failed,
                       hit, escaped, tangled>>

\* recv() finds that the client has gone, or that the connection was reset; or recv() or
\* join() returns to a loop with a pending KeyboardInterrupt, which nothing in
\* handle_client catches.
LoopEnds(c) ==
    /\ at[c] = "recv"
    /\ \/ peer[c] = "gone"
       \/ c \in struck /\ inbox[c] # <<>>
    /\ at' = [at EXCEPT ![c] = "leaving"]
    /\ struck' = struck \ {c}
    /\ UNCHANGED <<wireVars, loopVars, localVars, sharedVars, locker, failed, history>>

\* The finally block of handle_client: it waits two seconds at most for the execution
\* and closes the connection under it.
Close(c) ==
    /\ at[c] = "leaving"
    /\ at' = [at EXCEPT ![c] = "ended"]
    /\ struck' = struck \ {c}
    /\ UNCHANGED <<wireVars, loopVars, localVars, sharedVars, locker, failed, history>>

-----------------------------------------------------------------------------
(***************************************************************************)
(* Execution threads: handle_message, execute_code and the commands.       *)
(***************************************************************************)

Runs(x, place) == at[x] = place /\ x \notin struck

\* The finally block of handle_message, after which the thread is over.
Over(x) ==
    /\ at' = [at EXCEPT ![x] = "ended"]
    /\ locker' = None

Begin(x) ==
    /\ Runs(x, "starting")
    /\ \/ /\ Works(on[x])
          /\ sent' = Written(on[x], Msg(x, "running"))
          /\ at' = [at EXCEPT ![x] = "begun"]
          /\ locker' = x
       \/ /\ Breaks(on[x])
          /\ Over(x)
          /\ UNCHANGED sent
    /\ UNCHANGED <<peer, inbox, loopVars, localVars, struck, sharedVars, failed, history>>

\* execute_code: the baseline is taken, and the output streams are replaced.  Before that,
\* outside its try block, modules of the user are dropped, which can raise: it iterates
\* over what other threads import.
EnterCode(x) ==
    /\ Runs(x, "begun")
    /\ baseline' = LiveThreads
    /\ current' = on[x]
    /\ \/ /\ at' = [at EXCEPT ![x] = "code"]
          /\ oldout' = [oldout EXCEPT ![x] = stdout]
          /\ stdout' = x
          /\ UNCHANGED <<locker, escaped>>
       \/ /\ Over(x)
          /\ escaped' = escaped \cup {x}
          /\ UNCHANGED <<oldout, stdout>>
    /\ UNCHANGED <<wireVars, loopVars, localVars, struck, failed, hit, mixed, tangled>>

\* execute_shell, execute_uv, execute_apt: a subprocess runs.
EnterCommand(x) ==
    /\ Runs(x, "begun")
    /\ at' = [at EXCEPT ![x] = "command"]
    /\ UNCHANGED <<wireVars, loopVars, localVars, struck, sharedVars, locker, failed,
                   history>>

\* Faulty variant: what was set is left in place.
NotRestored(x) == stdout

\* The finally block of execute_code puts the streams back that it found.
Restored(x) == oldout[x]

UserCode(t) == t \notin struck /\ at[t] \in {"code", "user"}

\* User code prints to sys.stdout, which the locker reads along: it may send a chart of
\* its own first.  Or it shows something on the current connection; the value of an
\* expression is sent like what it prints.
Prints(t) ==
    /\ UserCode(t)
    /\ \E c \in {current} \cup IF stdout = None THEN {}
                             ELSE {on[y] : y \in {stdout, locker} \ {None}} :
          /\ c \in Conns
          /\ MayPrint(c)
          /\ sent' = Written(c, Msg(t, "output"))
    /\ UNCHANGED <<at, peer, inbox, loopVars, localVars, struck, sharedVars, locker,
                   failed, history>>

\* mon.wrap(): sys.stdout becomes a writer that passes everything on to the stream that
\* was there, so it is that stream which stays in place here.
\* Bound: a thread does so once.
EnterWrap(t) ==
    /\ UserCode(t)
    /\ wrap[t] = "before"
    /\ wrap' = [wrap EXCEPT ![t] = "inside"]
    /\ found' = [found EXCEPT ![t] = stdout]
    /\ UNCHANGED <<at, wireVars, loopVars, target, struck, sharedVars, locker, failed,
                   history>>

Wrapped(t) == wrap[t] = "inside"

\* __exit__, also when an exception passes: the stream found is put back, whatever is in
\* its place by now.  A KeyboardInterrupt in __exit__ itself may leave things as they are.
LeaveWrap(t) ==
    /\ at[t] \in {"code", "user"}
    /\ Wrapped(t)
    /\ wrap' = [wrap EXCEPT ![t] = "after"]
    /\ found' = [found EXCEPT ![t] = None]
    /\ \/ /\ stdout' = found[t]
          /\ tangled' = (tangled \/ found[t] # stdout)
          /\ mixed' = (mixed \/ \E x \in Execs : /\ Live(x) /\ found[t] # None
                                               /\ on[found[t]] # on[x])
       \/ /\ t \in struck
          /\ UNCHANGED <<stdout, tangled, mixed>>
    /\ UNCHANGED <<at, wireVars, loopVars, target, struck, baseline, oldout, current,
                   locker, failed, hit, escaped>>

\* User code starts a thread, and leaves it to itself.
Spawn(x) ==
    /\ Runs(x, "code")
    /\ \E u \in Users : at[u] = "none" /\ at' = [at EXCEPT ![u] = "user"]
    /\ UNCHANGED <<wireVars, loopVars, localVars, struck, sharedVars, locker, failed,
                   history>>

Return(x) ==
    /\ Runs(x, "code") /\ ~Wrapped(x)
    /\ at' = [at EXCEPT ![x] = "reporting"]
    /\ stdout' = Restored(x)
    /\ UNCHANGED <<wireVars, loopVars, localVars, struck, baseline, oldout, current,
                   locker, failed, history>>

\* User code raises an Exception, perhaps because a print could not be sent.
Throw(x) ==
    /\ Runs(x, "code") /\ ~Wrapped(x)
    /\ at' = [at EXCEPT ![x] = "catching"]
    /\ UNCHANGED <<wireVars, loopVars, localVars, struck, sharedVars, locker, failed,
                   history>>

\* Faulty variant: the handler reports the terminal state itself.
CatchAndReport(x) ==
    /\ at[x] \in Handlers /\ x \notin struck
    /\ Works(on[x])
    /\ stdout' = Restored(x)
    /\ sent' = Written(on[x], Msg(x, "errored"))
    /\ failed' = [failed EXCEPT ![x] = TRUE]
    /\ at' = [at EXCEPT ![x] = "reporting"]
    /\ UNCHANGED <<peer, inbox, loopVars, localVars, struck, baseline, oldout, current,
                   locker, history>>

\* The exception handlers of execute_code send an error message.  To describe an Exception
\* of the user's they call its methods, which may raise one more.
Catch(x) ==
    /\ at[x] \in Handlers /\ x \notin struck
    /\ stdout' = Restored(x)
    /\ \/ /\ Works(on[x])
          /\ sent' = Written(on[x], Msg(x, "error"))
          /\ failed' = [failed EXCEPT ![x] = TRUE]
          /\ at' = [at EXCEPT ![x] = "reporting"]
          /\ UNCHANGED <<locker, escaped>>
       \/ /\ Breaks(on[x])
          /\ Over(x)
          /\ UNCHANGED <<sent, failed, escaped>>
       \/ /\ at[x] = "catching"
          /\ Over(x)
          /\ escaped' = escaped \cup {x}
          /\ UNCHANGED <<sent, failed>>
    /\ UNCHANGED <<peer, inbox, loopVars, localVars, struck, baseline, oldout, current,
                   hit, mixed, tangled>>

\* User code raises SystemExit, which no handler of execute_code catches.
Quit(x) ==
    /\ Runs(x, "code") /\ ~Wrapped(x)
    /\ stdout' = Restored(x)
    /\ Over(x)
    /\ escaped' = escaped \cup {x}
    /\ UNCHANGED <<wireVars, loopVars, localVars, struck, baseline, oldout, current,
                   failed, hit, mixed, tangled>>

\* A message on the execution's own connection, or a chart on that of the locker.
Relays(x) ==
    /\ \E c \in {on[x]} \cup {on[y] : y \in {locker} \ {None}} :
          /\ c \in Conns
          /\ MayPrint(c)
          /\ sent' = Written(c, Msg(x, "output"))
    /\ UNCHANGED <<at, peer, inbox, loopVars, localVars, struck, sharedVars, locker,
                   failed, history>>

\* A line of the subprocess is passed on.
CommandPrints(x) == Runs(x, "command") /\ Relays(x)

\* handle_message before the terminal state: the directories that were created, and
\* _current_locker.finish(), which closes its chart.
Announce(x) == Runs(x, "reporting") /\ Relays(x)

\* The subprocess ends, or could not be started, and its exit code or an error is
\* sent (execute_shell counts neither as a failure); a send that failed, and the
\* report of that, end the thread.
CommandEnds(x) ==
    /\ Runs(x, "command")
    /\ \/ /\ Works(on[x])
          /\ \E k \in {"output", "error"} : sent' = Written(on[x], Msg(x, k))
          /\ \E e \in BOOLEAN : failed' = [failed EXCEPT ![x] = e]
          /\ at' = [at EXCEPT ![x] = "reporting"]
          /\ UNCHANGED locker
       \/ /\ Breaks(on[x])
          /\ Over(x)
          /\ UNCHANGED <<sent, failed>>
    /\ UNCHANGED <<peer, inbox, loopVars, localVars, struck, sharedVars, history>>

\* final_state
FinalState(x) == IF failed[x] THEN "errored" ELSE "completed"

\* handle_message after the execution: _current_locker.finish() raises when there is
\* no locker any more; otherwise the terminal state is sent.
Report(x) ==
    /\ Runs(x, "reporting")
    /\ \/ /\ locker # None
          /\ Works(on[x])
          /\ sent' = Written(on[x], Msg(x, FinalState(x)))
          /\ at' = [at EXCEPT ![x] = "reported"]
          /\ UNCHANGED locker
       \/ /\ locker = None \/ Breaks(on[x]) \/ (locker # None /\ Breaks(on[locker]))
          /\ Over(x)
          /\ UNCHANGED sent
    /\ UNCHANGED <<peer, inbox, loopVars, localVars, struck, sharedVars, failed, history>>

Finish(x) ==
    /\ Runs(x, "reported")
    /\ Over(x)
    /\ UNCHANGED <<wireVars, loopVars, localVars, struck, sharedVars, failed, history>>

UserEnds(u) ==
    /\ at[u] = "user" /\ ~Wrapped(u)
    /\ at' = [at EXCEPT ![u] = "ended"]
    /\ struck' = struck \ {u}
    /\ UNCHANGED <<wireVars, loopVars, localVars, sharedVars, locker, failed, history>>

-----------------------------------------------------------------------------
(***************************************************************************)
(* Interrupts.                                                             *)
(***************************************************************************)

\* _interrupt_targets: the execution thread, and every live thread that is not in
\* the baseline.
Targets(k) == {target[k]} \cup (LiveThreads \ baseline)

\* One round of a cascade.
Strike(k) ==
    /\ at[k] = "running"
    /\ k \notin struck
    /\ Live(target[k])
    /\ struck' = struck \cup Targets(k)
    /\ hit' = hit \cup (Targets(k) \cap Execs)
    /\ UNCHANGED <<at, wireVars, loopVars, localVars, sharedVars, locker, failed, escaped,
                   mixed, tangled>>

\* The execution is over, five seconds have passed, or the cascade was interrupted
\* itself.
CascadeEnds(k) ==
    /\ at[k] = "running"
    /\ at' = [at EXCEPT ![k] = "ended"]
    /\ struck' = struck \ {k}
    /\ UNCHANGED <<wireVars, loopVars, localVars, sharedVars, locker, failed, history>>

\* KeyboardInterrupt is raised in the user's Python code, which lets it through to
\* the handler of execute_code or catches it.
InterruptCode(x) ==
    /\ at[x] = "code"
    /\ x \in struck
    /\ struck' = struck \ {x}
    /\ \/ ~Wrapped(x) /\ at' = [at EXCEPT ![x] = "stopping"]
       \/ UNCHANGED at
    /\ UNCHANGED <<wireVars, loopVars, localVars, sharedVars, locker, failed, history>>

\* Anywhere else in the thread nothing catches it.  The streams are restored if they
\* were replaced, and the locker is dropped once the thread is inside its try block.
InterruptElsewhere(x) ==
    /\ at[x] \in {"starting", "begun", "command", "reporting", "reported"} \cup Handlers
    /\ x \in struck
    /\ struck' = struck \ {x}
    /\ at' = [at EXCEPT ![x] = "ended"]
    /\ stdout' = IF at[x] \in Handlers THEN Restored(x) ELSE stdout
    /\ locker' \in IF at[x] = "starting" THEN {locker, x, None} ELSE {None}
    /\ \/ UNCHANGED <<baseline, current>>
       \/ at[x] = "begun" /\ baseline' \in {baseline, LiveThreads} /\ current' = on[x]
    /\ UNCHANGED <<wireVars, loopVars, localVars, oldout, failed, history>>

-----------------------------------------------------------------------------

ConnStep(c) ==
    \/ Connect(c) \/ HangUp(c)
    \/ \E r \in Execs \cup {"interrupt"} : Submit(c, r)

LoopStep(c) ==
    \/ ReceiveInterrupt(c) \/ ReceiveExecute(c)
    \/ LoopEnds(c) \/ Close(c)

CodeEnds(x) == Return(x) \/ Throw(x) \/ Quit(x) \/ InterruptCode(x)

ExecStep(x) ==
    \/ Begin(x) \/ EnterCode(x) \/ EnterCommand(x)
    \/ CodeEnds(x) \/ CommandEnds(x)
    \/ LeaveWrap(x)
    \/ Catch(x) \/ Report(x) \/ Finish(x)
    \/ InterruptElsewhere(x)

UserStep ==
    \/ \E t \in Execs \cup Users : Prints(t) \/ EnterWrap(t)
    \/ \E x \in Execs : Spawn(x) \/ CommandPrints(x) \/ Announce(x)
    \/ \E u \in Users : LeaveWrap(u) \/ UserEnds(u)

CascadeStep(k) == Strike(k) \/ CascadeEnds(k)

Next ==
    \/ \E c \in Conns : ConnStep(c) \/ LoopStep(c)
    \/ AcceptKills
    \/ \E x \in Execs : ExecStep(x)
    \/ UserStep
    \/ \E k \in Cascades : CascadeStep(k)

Spec == Init /\ [][Next]_vars

\* Receive loops read what is there, execution threads go on, what users run ends, and
\* a cascade ends after five seconds.
FairSpec ==
    /\ Spec
    /\ \A c \in Conns : WF_vars(LoopStep(c))
    /\ \A x \in Execs : WF_vars(ExecStep(x))
    /\ \A k \in Cascades : WF_vars(CascadeEnds(k))

-----------------------------------------------------------------------------

TypeOK ==
    /\ at \in [Threads -> Places]
    /\ peer \in [Conns -> {"new", "open", "gone"}]
    /\ inbox \in [Conns -> Seq(Execs \cup {"interrupt"})]
    /\ job \in [Conns -> Execs \cup {None}]
    /\ on \in [Execs -> Conns \cup {None}]
    /\ target \in [Cascades -> Execs \cup {None}]
    /\ struck \subseteq Threads
    /\ baseline \subseteq Threads
    /\ stdout \in Execs \cup {None}
    /\ oldout \in [Execs -> Execs \cup {None}]
    /\ current \in Conns \cup {None}
    /\ locker \in Execs \cup {None}
    /\ failed \in [Execs -> BOOLEAN]
    /\ sent \in [Conns -> Seq(Message)]
    /\ wrap \in [Execs \cup Users -> {"before", "inside", "after"}]
    /\ found \in [Execs \cup Users -> Execs \cup {None}]
    /\ hit \subseteq Execs
    /\ escaped \subseteq Execs
    /\ mixed \in BOOLEAN /\ tangled \in BOOLEAN
    /\ \A x \in Execs : Live(x) => on[x] \in Conns
    /\ \A k \in Cascades : at[k] = "running" => target[k] \in Execs

\* A connection runs one execution at a time, and its receive loop knows which: an
\* interrupt it starts is for that one, or for one that is over.
OneAtATime ==
    \A x \in Execs : Live(x) => job[on[x]] = x

Of(x, m) == m.by = x

\* What a connection carries is one block per execution, opened by "running" and
\* closed by a terminal state if it has one, with nothing of another execution in
\* between: the backend tells executions apart by order alone.  Threads left behind
\* may print into any block.  This is so until two connections execute together.
Framed ==
    mixed \/ \A c \in Conns : \A i \in DOMAIN sent[c] :
        LET x == sent[c][i].by
            kind == sent[c][i].kind
            before == {j \in 1..(i - 1) : sent[c][j].by \in Execs}
        IN  x \in Execs =>
              /\ on[x] = c
              /\ kind = "running" <=> \A j \in before : ~Of(x, sent[c][j])
              /\ \A j \in before : Of(x, sent[c][j]) =>
                    /\ sent[c][j].kind \notin Terminals
                    /\ \A h \in before : h > j => Of(x, sent[c][h])

Answered(x) ==
    \E i \in DOMAIN sent[on[x]] : /\ Of(x, sent[on[x]][i])
                                  /\ sent[on[x]][i].kind \in Terminals

Kept(c) == peer[c] = "open" /\ Works(c)

\* An execution that ends has sent its terminal state, as long as its connection is
\* there, unless it was interrupted, was ended by an exception that execute_code lets
\* through (SystemExit, or one of the preparation or of a handler), or met another
\* connection.  What other threads did to the streams and the locker is no excuse.
EndsAnswered ==
    \A x \in Execs : at[x] = "ended" /\ Kept(on[x]) =>
        Answered(x) \/ x \in hit \cup escaped \/ mixed

\* Output goes to the container's own stdout again when nobody executes, however the
\* executions ended and with wrap() in them, as long as the process is there; but for a
\* thread that left wrap() only when the streams had been replaced under it.
StdoutRestored ==
    Live(Main) /\ ~mixed /\ ~tangled /\ (\A x \in Execs : ~Live(x)) => stdout = None

\* A request that was sent is answered, whatever was queued before it.
RequestAnswered ==
    \A c \in Conns, x \in Execs :
        (\E i \in DOMAIN inbox[c] : inbox[c][i] = x) ~>
            \/ on[x] = c /\ (Answered(x) \/ x \in hit \cup escaped)
            \/ ~Kept(c)
            \/ mixed
=============================================================================
