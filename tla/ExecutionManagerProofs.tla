------------------------ MODULE ExecutionManagerProofs ------------------------
(***************************************************************************)
(* Proofs about ExecutionManager, for any numbers of notebooks, cells,     *)
(* sockets and executions and any bounds.                                  *)
(***************************************************************************)
EXTENDS ExecutionManager, SequenceTheorems, TLAPS

-----------------------------------------------------------------------------
(***************************************************************************)
(* What the operators that actions are built from return.                  *)
(***************************************************************************)

LEMMA MsgType == ASSUME NEW x \in Execs, NEW k \in Kinds PROVE Msg(x, k) \in Message
BY DEF Msg, Message

LEMMA LoggedType ==
    ASSUME TypeOK, NEW n \in Notebooks, NEW msgs \in Seq(Message)
    PROVE  Logged(n, msgs) \in [Execs -> Seq(Message)]
BY DEF Logged, TypeOK

LEMMA BroadcastType ==
    ASSUME TypeOK, NEW n \in Notebooks, NEW msgs \in Seq(Message)
    PROVE  Broadcast(n, msgs) \in [Forwarders -> Seq(Message \cup {None})]
<1>1. msgs \in Seq(Message \cup {None})
  OBVIOUS
<1> QED BY <1>1 DEF Broadcast, TypeOK

LEMMA WokenType ==
    ASSUME TypeOK, NEW x \in Execs, NEW q \in [Forwarders -> Seq(Message \cup {None})]
    PROVE  Woken(x, q) \in [Forwarders -> Seq(Message \cup {None})]
BY DEF Woken

\* The notebook of a submitted execution, and of any forwarder that was created.
LEMMA NotebookOfExec ==
    ASSUME TypeOK, NEW x \in Execs, task[x] # "unused"
    PROVE  by[x] \in Sockets /\ cell[x] \in Cells /\ NotebookFor(x) \in Notebooks
BY SocketsAssumption, DistinctAssumption DEF TypeOK, NotebookFor, SocketOf

-----------------------------------------------------------------------------
(***************************************************************************)
(* Type correctness.                                                       *)
(***************************************************************************)

LEMMA ConnectTypes == ASSUME TypeOK, NEW w \in Sockets, Connect(w) PROVE TypeOK'
BY DistinctAssumption DEF TypeOK, Connect, Forwarders, lockVars, recVars

LEMMA ExecuteTypes ==
    ASSUME TypeOK, NEW w \in Sockets, NEW x \in Execs, NEW c \in Cells, Execute(w, x, c)
    PROVE  TypeOK'
<1>1. NotebookOf[w] \in Notebooks /\ x \in Forwarders
  BY SocketsAssumption DEF Forwarders
<1>2. /\ waiters' \in [Notebooks -> Seq(Execs)]
      /\ task' \in [Execs -> {"unused", "queued", "running", "done"}]
      /\ by' \in [Execs -> Sockets \cup {None}] /\ by'[x] = w
      /\ cell' \in [Execs -> Cells \cup {None}] /\ cell'[x] = c
      /\ fwd' \in [Forwarders -> {"unused", "polling", "replaying", "live",
                                  "done", "cancelled", "timedout"}]
  BY <1>1 DEF TypeOK, Execute
<1>3. /\ task'[x] = "queued" /\ fwd'[x] = "polling"
      /\ \A y \in Execs \ {x} : /\ task'[y] = task[y]
                               /\ by'[y] = by[y] /\ cell'[y] = cell[y]
      /\ \A f \in Forwarders \ {x} : fwd'[f] = fwd[f]
  BY <1>1 DEF TypeOK, Execute
<1> QED BY <1>2, <1>3, SMTT(30) DEF TypeOK, Execute, recVars

LEMMA CancelTypes ==
    ASSUME TypeOK, NEW w \in Sockets, CancelForwarders(w)
    PROVE  /\ fwd' \in [Forwarders -> {"unused", "polling", "replaying", "live",
                                       "done", "cancelled", "timedout"}]
           /\ subs' \in [Execs -> SUBSET Forwarders]
           /\ replay' \in [Forwarders -> Seq(Message)]
           /\ queue' \in [Forwarders -> Seq(Message \cup {None})]
           /\ got' \in [Forwarders -> Seq(Message)]
           /\ \A f \in Forwarders : fwd'[f] # fwd[f] => /\ fwd'[f] = "cancelled"
                                                        /\ fwd[f] # "unused"
<1>1. <<>> \in Seq(Message) /\ <<>> \in Seq(Message \cup {None})
  OBVIOUS
<1> QED BY <1>1 DEF TypeOK, CancelForwarders

LEMMA DisconnectTypes ==
    ASSUME TypeOK, NEW w \in Sockets, Disconnect(w) \/ ForceStopped(w) PROVE TypeOK'
BY CancelTypes DEF TypeOK, Disconnect, ForceStopped, lockVars

LEMMA InterruptTypes == ASSUME TypeOK, NEW w \in Sockets, Interrupt(w) PROVE TypeOK'
<1> DEFINE n == NotebookOf[w]  msgs == <<Msg(registry[n], "stopping")>>
<1>1. n \in Notebooks /\ registry[n] \in Execs
  BY SocketsAssumption DEF TypeOK, Interrupt
<1>2. msgs \in Seq(Message)
  BY <1>1, MsgType DEF Kinds
<1>3. buffer' = Logged(n, msgs) /\ queue' = Broadcast(n, msgs)
  BY DEF Interrupt
<1>4. /\ buffer' \in [Execs -> Seq(Message)]
      /\ queue' \in [Forwarders -> Seq(Message \cup {None})]
  BY <1>1, <1>2, <1>3, LoggedType, BroadcastType
<1> QED BY <1>4 DEF TypeOK, Interrupt, sockVars, lockVars

LEMMA ForceStopTypes == ASSUME TypeOK, NEW w \in Sockets, ForceStop(w) PROVE TypeOK'
<1> DEFINE n == NotebookOf[w]
           x == registry[n]
           msgs == <<Msg(x, "error"), Msg(x, "errored")>>
<1>1. n \in Notebooks
  BY SocketsAssumption
<1>2. CASE x # None /\ final[x] = None
  <2>1. x \in Execs
    BY <1>1, <1>2 DEF TypeOK
  <2>2. msgs \in Seq(Message)
    BY <2>1, MsgType DEF Kinds, FinalStates
  <2>3. /\ buffer' = Logged(n, msgs)
        /\ queue' = Woken(x, Broadcast(n, msgs))
        /\ final' = [final EXCEPT ![x] = "errored"]
        /\ registry' = [registry EXCEPT ![n] = None]
    BY <1>2 DEF ForceStop, Unregistered
  <2>4. /\ buffer' \in [Execs -> Seq(Message)]
        /\ queue' \in [Forwarders -> Seq(Message \cup {None})]
    BY <1>1, <2>1, <2>2, <2>3, LoggedType, BroadcastType, WokenType
  <2> QED BY <2>3, <2>4 DEF TypeOK, ForceStop, lockVars, FinalStates
<1>3. CASE ~(x # None /\ final[x] = None)
  BY <1>3 DEF TypeOK, ForceStop, lockVars
<1> QED BY <1>2, <1>3

LEMMA StartTypes == ASSUME TypeOK, NEW x \in Execs, Start(x) PROVE TypeOK'
<1>1. NotebookFor(x) \in Notebooks
  BY NotebookOfExec DEF Start
<1>2. <<Msg(x, "running")>> \in Seq(Message)
  BY MsgType DEF Kinds
<1>3. waiters' \in [Notebooks -> Seq(Execs)]
  BY <1>1 DEF TypeOK, Start
<1>4. /\ task' \in [Execs -> {"unused", "queued", "running", "done"}]
      /\ holder' \in [Notebooks -> Execs \cup {None}]
      /\ counts' \in [Notebooks -> Nat]
      /\ number' \in [Execs -> Nat]
      /\ registry' \in [Notebooks -> Execs \cup {None}]
      /\ buffer' \in [Execs -> Seq(Message)]
  BY <1>1, <1>2, SMTT(30) DEF TypeOK, Start
<1>5. /\ outcome' \in [Execs -> FinalStates \cup {None}]
      /\ \A y \in Execs : task'[y] = "running" => outcome'[y] \in FinalStates
      /\ \A y \in Execs : task'[y] # "unused" => task[y] # "unused"
      /\ \A y \in Execs : task[y] # "unused" => task'[y] # "unused"
  BY DEF TypeOK, Start, FinalStates
<1> QED BY <1>3, <1>4, <1>5 DEF TypeOK, Start, sockVars, fwdVars

LEMMA RelayTypes ==
    ASSUME TypeOK, NEW x \in Execs, NEW k \in {"output", "display"}, Relay(x, k)
    PROVE  TypeOK'
<1> DEFINE n == NotebookFor(x)
<1>1. n \in Notebooks
  BY NotebookOfExec DEF Relay
<1>2. <<Msg(x, k)>> \in Seq(Message)
  BY MsgType DEF Kinds
<1>3. buffer' = Logged(n, <<Msg(x, k)>>) /\ queue' = Broadcast(n, <<Msg(x, k)>>)
  BY DEF Relay
<1>4. /\ buffer' \in [Execs -> Seq(Message)]
      /\ queue' \in [Forwarders -> Seq(Message \cup {None})]
  BY <1>1, <1>2, <1>3, LoggedType, BroadcastType
<1>5. outputs' \in [Execs -> Seq({"output", "error"})]
  BY DEF TypeOK, Relay
<1> QED BY <1>4, <1>5 DEF TypeOK, Relay, sockVars, lockVars

LEMMA RelayErrorTypes == ASSUME TypeOK, NEW x \in Execs, RelayError(x) PROVE TypeOK'
<1> DEFINE n == NotebookFor(x)
<1>1. n \in Notebooks
  BY NotebookOfExec DEF RelayError
<1>2. <<Msg(x, "error")>> \in Seq(Message)
  BY MsgType DEF Kinds
<1>3. buffer' = Logged(n, <<Msg(x, "error")>>) /\ queue' = Broadcast(n, <<Msg(x, "error")>>)
  BY DEF RelayError
<1>4. /\ buffer' \in [Execs -> Seq(Message)]
      /\ queue' \in [Forwarders -> Seq(Message \cup {None})]
  BY <1>1, <1>2, <1>3, LoggedType, BroadcastType
<1>5. outputs' \in [Execs -> Seq({"output", "error"})]
  BY DEF TypeOK, RelayError
<1> QED BY <1>4, <1>5 DEF TypeOK, RelayError, sockVars, lockVars, FinalStates

\* The end of a run is one of: any final state, nothing before it; or "errored"
\* after an error message.
LEMMA EndsFinalizes ==
    ASSUME TypeOK, NEW x \in Execs, Ends(x)
    PROVE  \E s \in FinalStates, before \in {<<>>, <<Msg(x, "error")>>} :
              Finalize(x, s, before)
<1>1. CASE Terminal(x)
  BY <1>1 DEF Terminal
<1>2. CASE EndOfStream(x)
  <2>1. outcome[x] \in FinalStates
    BY <1>2 DEF EndOfStream, Finalize, TypeOK
  <2> QED BY <1>2, <2>1 DEF EndOfStream
<1>3. CASE Raise(x)
  BY <1>3 DEF Raise, FinalStates
<1> QED BY <1>1, <1>2, <1>3 DEF Ends

LEMMA FinalizeTypes ==
    ASSUME TypeOK, NEW x \in Execs, NEW s \in FinalStates,
           NEW before \in {<<>>, <<Msg(x, "error")>>}, Finalize(x, s, before)
    PROVE  TypeOK'
<1> DEFINE n == NotebookFor(x)
           last == Append(before, Msg(x, s))
<1>1. n \in Notebooks /\ cell[x] \in Cells
  BY NotebookOfExec DEF Finalize
<1>2. last \in Seq(Message)
  <2>1. Msg(x, s) \in Message /\ Msg(x, "error") \in Message
    BY MsgType DEF Kinds
  <2>2. CASE before = <<>>
    <3>1. last = <<Msg(x, s)>>
      BY <2>2
    <3> QED BY <2>1, <3>1
  <2>3. CASE before = <<Msg(x, "error")>>
    <3>1. <<Msg(x, "error")>> \in Seq(Message)
      BY <2>1
    <3> QED BY <2>1, <2>3, <3>1
  <2> QED BY <2>2, <2>3
<1>3. /\ buffer' = Logged(n, last)
      /\ queue' \in {Broadcast(n, last), Woken(x, Broadcast(n, last))}
      /\ saved' \in {saved, Persisted(x, s)}
      /\ registry' \in {registry, [registry EXCEPT ![n] = None]}
  BY DEF Finalize, Unregistered
<1>4. /\ buffer' \in [Execs -> Seq(Message)]
      /\ queue' \in [Forwarders -> Seq(Message \cup {None})]
  BY <1>1, <1>2, <1>3, LoggedType, BroadcastType, WokenType
<1>5. [state |-> s, count |-> number[x], outputs |-> outputs[x]] \in SavedCell
  BY DEF TypeOK, SavedCell
<1>6. saved' \in [Notebooks -> [Cells -> SavedCell]]
  <2>1. Persisted(x, s) \in [Notebooks -> [Cells -> SavedCell]]
    BY <1>1, <1>5 DEF TypeOK, Persisted
  <2> QED BY <1>3, <2>1 DEF TypeOK
<1>7. /\ final' = [final EXCEPT ![x] = s]
      /\ holder' = [holder EXCEPT ![n] = None]
      /\ task' = [task EXCEPT ![x] = "done"]
      /\ UNCHANGED <<sockVars, waiters, counts, number, subs, outputs, outcome,
                     fwd, source, replay, got>>
  BY DEF Finalize, Released
<1>8. registry' \in [Notebooks -> Execs \cup {None}]
  <2>1. [registry EXCEPT ![n] = None] \in [Notebooks -> Execs \cup {None}]
    BY DEF TypeOK
  <2> QED BY <1>3, <2>1 DEF TypeOK
<1>9. /\ final' \in [Execs -> FinalStates \cup {None}]
      /\ holder' \in [Notebooks -> Execs \cup {None}]
      /\ task' \in [Execs -> {"unused", "queued", "running", "done"}]
      /\ \A y \in Execs : task'[y] = "running" => task[y] = "running"
      /\ \A y \in Execs : task'[y] = "unused" <=> task[y] = "unused"
  BY <1>1, <1>7 DEF TypeOK, Finalize
<1>10. UNCHANGED <<sock, by, cell, waiters, counts, number, subs, outputs, outcome,
                  fwd, source, replay, got>>
  BY <1>7 DEF sockVars
<1> QED BY <1>4, <1>6, <1>9, <1>10, <1>8 DEF TypeOK

LEMMA ForwarderTypes ==
    ASSUME TypeOK, NEW f \in Forwarders, ForwarderStep(f) PROVE TypeOK'
<1>1. CASE Subscribe(f)
  <2>1. NotebookFor(f) \in Notebooks
    BY <1>1, SocketsAssumption DEF Subscribe, TypeOK, NotebookFor, SocketOf, Forwarders
  <2>2. registry[NotebookFor(f)] \in Execs
    BY <1>1, <2>1 DEF Subscribe, TypeOK
  <2> QED BY <1>1, <2>2 DEF Subscribe, TypeOK, Snapshot, sockVars, lockVars
<1>2. CASE GiveUp(f)
  BY <1>2 DEF GiveUp, TypeOK, sockVars, lockVars, recVars
<1>3. CASE SendReplay(f)
  <2>1. Head(replay[f]) \in Message /\ Tail(replay[f]) \in Seq(Message)
    BY <1>3 DEF SendReplay, TypeOK
  <2> QED BY <1>3, <2>1 DEF SendReplay, TypeOK, sockVars, lockVars, recVars
<1>4. CASE EndReplay(f)
  <2>1. source[f] \in Execs
    BY <1>4 DEF EndReplay, TypeOK
  <2>2. <<>> \in Seq(Message \cup {None})
    OBVIOUS
  <2>3. CASE final[source[f]] # None
    <3>1. /\ subs' = [subs EXCEPT ![source[f]] = @ \ {f}]
          /\ queue' = [queue EXCEPT ![f] = <<>>]
          /\ fwd' = [fwd EXCEPT ![f] = "done"]
      BY <1>4, <2>3 DEF EndReplay
    <3>2. /\ subs' \in [Execs -> SUBSET Forwarders]
          /\ queue' \in [Forwarders -> Seq(Message \cup {None})]
      BY <2>1, <2>2, <3>1 DEF TypeOK
    <3> QED BY <1>4, <3>1, <3>2, ZenonT(40) DEF EndReplay, TypeOK, sockVars, lockVars
  <2>4. CASE final[source[f]] = None
    BY <1>4, <2>1, <2>4, ZenonT(40) DEF EndReplay, TypeOK, sockVars, lockVars
  <2> QED BY <2>3, <2>4
<1>5. CASE SendLive(f)
  <2>1. queue[f] \in Seq(Message \cup {None}) /\ queue[f] # <<>>
    BY <1>5 DEF SendLive, TypeOK
  <2>2. Head(queue[f]) \in Message \cup {None}
        /\ Tail(queue[f]) \in Seq(Message \cup {None})
    BY <2>1
  <2>3. Head(queue[f]) \in Message
    BY <1>5, <2>2 DEF SendLive
  <2> QED BY <1>5, <2>2, <2>3 DEF SendLive, TypeOK, sockVars, lockVars, recVars
<1>6. CASE EndLive(f)
  <2>1. source[f] \in Execs
    BY <1>6 DEF EndLive, TypeOK
  <2>2. subs' \in [Execs -> SUBSET Forwarders]
    BY <1>6, <2>1 DEF EndLive, TypeOK
  <2>3. <<>> \in Seq(Message \cup {None})
    OBVIOUS
  <2>4. queue' \in [Forwarders -> Seq(Message \cup {None})]
    BY <1>6, <2>3 DEF EndLive, TypeOK
  <2> QED BY <1>6, <2>2, <2>4 DEF EndLive, TypeOK, sockVars, lockVars
<1> QED BY <1>1, <1>2, <1>3, <1>4, <1>5, <1>6 DEF ForwarderStep

LEMMA TypeStep == TypeOK /\ [Next]_vars => TypeOK'
<1> SUFFICES ASSUME TypeOK, [Next]_vars PROVE TypeOK'
  OBVIOUS
<1>1. ASSUME NEW x \in Execs, ExecStep(x) PROVE TypeOK'
  BY <1>1, StartTypes, RelayTypes, RelayErrorTypes, EndsFinalizes, FinalizeTypes
     DEF ExecStep
<1>2. ASSUME NEW w \in Sockets, SocketStep(w) PROVE TypeOK'
  BY <1>2, ConnectTypes, ExecuteTypes, InterruptTypes, DisconnectTypes, ForceStopTypes
     DEF SocketStep
<1>3. CASE UNCHANGED vars
  BY <1>3 DEF TypeOK, vars, sockVars, lockVars, recVars, fwdVars
<1> QED BY <1>1, <1>2, <1>3, ForwarderTypes DEF Next

LEMMA InitTypes == Init => TypeOK
BY DEF Init, TypeOK, SavedCell

\* Every variable keeps its type: in particular what is broadcast is a message, and a
\* run that ends has an outcome.
THEOREM TypeCorrect == Spec => []TypeOK
BY InitTypes, TypeStep, PTL DEF Spec

-----------------------------------------------------------------------------
(***************************************************************************)
(* The lock, the registry and the runs.  RegisteredRunHoldsLock is not     *)
(* inductive: a task that finalizes could leave the record of another task *)
(* registered if two of them ran, or if its own record were not the one    *)
(* registered.                                                             *)
(***************************************************************************)

HolderRuns ==
    \A n \in Notebooks : holder[n] # None =>
        task[holder[n]] = "running" /\ NotebookFor(holder[n]) = n

\* The record of a running task is registered until a force stop closes it.
RunningIsRegistered ==
    \A x \in Execs : task[x] = "running" =>
        /\ holder[NotebookFor(x)] = x
        /\ registry[NotebookFor(x)] = IF final[x] = None THEN x ELSE None

RegisteredIsRunning ==
    \A n \in Notebooks : registry[n] # None =>
        /\ NotebookFor(registry[n]) = n
        /\ IF final[registry[n]] = None THEN task[registry[n]] = "running"
           ELSE task[registry[n]] = "done" /\ registry[n] \in Unsavable

FreshIsBlank ==
    \A x \in Execs : task[x] \in {"unused", "queued"} =>
        buffer[x] = <<>> /\ final[x] = None

LockInv == HolderRuns /\ RunningIsRegistered /\ RegisteredIsRunning /\ FreshIsBlank

LogInv == BufferIsOwn /\ TerminalIsLast

IInv == TypeOK /\ LockInv /\ LogInv

LEMMA NotebookKept ==
    ASSUME NEW x \in Execs, UNCHANGED <<by, cell>> PROVE NotebookFor(x)' = NotebookFor(x)
BY DEF NotebookFor, SocketOf

\* A step that leaves the lock, the registry and the logs alone keeps both.
LEMMA StutterKeeps ==
    ASSUME IInv, UNCHANGED <<task, holder, registry, final, buffer, by>>
    PROVE  LockInv' /\ LogInv'
BY DEF IInv, LockInv, HolderRuns, RunningIsRegistered, RegisteredIsRunning, FreshIsBlank,
       LogInv, BufferIsOwn, TerminalIsLast, NotebookFor, SocketOf

\* A message that is not a terminal state, said while the run is open.
LEMMA SayKeepsLog ==
    ASSUME TypeOK, LogInv, NEW x \in Execs, NEW k \in Kinds \ FinalStates,
           final[x] = None, UNCHANGED final,
           buffer' = [buffer EXCEPT ![x] = @ \o <<Msg(x, k)>>]
    PROVE  LogInv'
<1>1. buffer \in [Execs -> Seq(Message)]
  BY DEF TypeOK
<1>2. buffer'[x] = Append(buffer[x], Msg(x, k))
  BY <1>1
<1>3. ASSUME NEW y \in Execs, y # x PROVE buffer'[y] = buffer[y]
  BY <1>1, <1>3
<1>4. Msg(x, k).exec = x /\ Msg(x, k).kind \notin FinalStates
  BY DEF Msg
<1>5. ASSUME NEW i \in DOMAIN buffer'[x]
      PROVE  /\ buffer'[x][i].exec = x
             /\ buffer'[x][i].kind \notin FinalStates
  <2>1. CASE i \in DOMAIN buffer[x]
    <3>1. buffer'[x][i] = buffer[x][i]
      BY <1>1, <1>2, <2>1
    <3>2. buffer[x][i].exec = x /\ buffer[x][i].kind \notin FinalStates
      BY <2>1 DEF LogInv, BufferIsOwn, TerminalIsLast
    <3> QED BY <3>1, <3>2
  <2>2. CASE i \notin DOMAIN buffer[x]
    <3>1. i = Len(buffer[x]) + 1
      BY <1>1, <1>2, <1>5, <2>2
    <3>2. buffer'[x][i] = Msg(x, k)
      BY <1>1, <1>2, <3>1
    <3> QED BY <3>2, <1>4
  <2> QED BY <2>1, <2>2
<1>6. BufferIsOwn'
  <2>1. ASSUME NEW y \in Execs, NEW i \in DOMAIN buffer'[y]
        PROVE  buffer'[y][i].exec = y
    BY <1>3, <1>5, <2>1 DEF LogInv, BufferIsOwn
  <2> QED BY <2>1 DEF BufferIsOwn
<1>7. TerminalIsLast'
  <2>1. ASSUME NEW y \in Execs, NEW i \in DOMAIN buffer'[y]
        PROVE  buffer'[y][i].kind \in FinalStates
                 <=> i = Len(buffer'[y]) /\ final'[y] # None
    BY <1>3, <1>5, <2>1 DEF LogInv, TerminalIsLast
  <2> QED BY <2>1 DEF TerminalIsLast
<1> QED BY <1>6, <1>7 DEF LogInv

\* The last words of an open run.
LEMMA CloseKeepsLog ==
    ASSUME TypeOK, LogInv, NEW x \in Execs, NEW s \in FinalStates,
           NEW before \in {<<>>, <<Msg(x, "error")>>},
           final[x] = None, final' = [final EXCEPT ![x] = s],
           buffer' = [buffer EXCEPT ![x] = @ \o Append(before, Msg(x, s))]
    PROVE  LogInv'
<1> DEFINE last == Append(before, Msg(x, s))
<1>1. buffer \in [Execs -> Seq(Message)] /\ final \in [Execs -> FinalStates \cup {None}]
  BY DEF TypeOK
<1>2. /\ Msg(x, s).exec = x /\ Msg(x, s).kind = s
      /\ Msg(x, "error").exec = x /\ Msg(x, "error").kind = "error"
      /\ Msg(x, s) \in Message /\ Msg(x, "error") \in Message
  BY MsgType DEF Msg, Kinds
<1>3. /\ last \in Seq(Message) /\ Len(last) > 0
      /\ \A i \in 1..Len(last) : /\ last[i].exec = x
                                 /\ last[i].kind \in FinalStates <=> i = Len(last)
  <2>1. /\ before \in Seq(Message)
        /\ \A i \in 1..Len(before) : before[i] = Msg(x, "error")
    <3>1. CASE before = <<>>
      BY <3>1
    <3>2. CASE before = <<Msg(x, "error")>>
      BY <1>2, <3>2
    <3> QED BY <3>1, <3>2
  <2>2. /\ last \in Seq(Message) /\ Len(last) = Len(before) + 1
        /\ last[Len(before) + 1] = Msg(x, s)
        /\ \A i \in 1..Len(before) : last[i] = before[i]
    BY <1>2, <2>1, AppendProperties
  <2>3. "error" \notin FinalStates
    BY DEF FinalStates
  <2>4. Len(before) \in Nat
    BY <2>1
  <2> HIDE DEF last
  <2> QED BY <1>2, <2>1, <2>2, <2>3, <2>4
<1>4. buffer'[x] = buffer[x] \o last
  BY <1>1
<1> HIDE DEF last
<1>5. ASSUME NEW y \in Execs, y # x PROVE buffer'[y] = buffer[y] /\ final'[y] = final[y]
  BY <1>1, <1>5
<1>6. final'[x] # None
  BY <1>1, DistinctAssumption DEF FinalStates
<1>7. ASSUME NEW i \in DOMAIN buffer'[x]
      PROVE  /\ buffer'[x][i].exec = x
             /\ buffer'[x][i].kind \in FinalStates <=> i = Len(buffer'[x])
  <2>1. Len(buffer'[x]) = Len(buffer[x]) + Len(last) /\ i \in 1..Len(buffer'[x])
    BY <1>1, <1>3, <1>4, <1>7
  <2>2. CASE i \in DOMAIN buffer[x]
    <3>1. buffer'[x][i] = buffer[x][i] /\ i # Len(buffer'[x])
      BY <1>1, <1>3, <1>4, <2>1, <2>2
    <3>2. buffer[x][i].exec = x /\ buffer[x][i].kind \notin FinalStates
      BY <2>2 DEF LogInv, BufferIsOwn, TerminalIsLast
    <3> QED BY <3>1, <3>2
  <2>3. CASE i \notin DOMAIN buffer[x]
    <3>1. PICK k \in 1..Len(last) : k = i - Len(buffer[x])
      BY <1>1, <1>3, <2>1, <2>3
    <3>2. buffer'[x][i] = last[k]
      BY <1>1, <1>3, <1>4, <2>1, <2>3, <3>1
    <3>3. Len(buffer[x]) \in Nat /\ Len(last) \in Nat
      BY <1>1, <1>3
    <3>4. k = Len(last) <=> i = Len(buffer'[x])
      BY <2>1, <3>1, <3>3
    <3>5. /\ last[k].exec = x
          /\ last[k].kind \in FinalStates <=> k = Len(last)
      BY <1>3
    <3> QED BY <3>2, <3>4, <3>5
  <2> QED BY <2>2, <2>3
<1>8. BufferIsOwn'
  <2>1. ASSUME NEW y \in Execs, NEW i \in DOMAIN buffer'[y]
        PROVE  buffer'[y][i].exec = y
    BY <1>5, <1>7, <2>1 DEF LogInv, BufferIsOwn
  <2> QED BY <2>1 DEF BufferIsOwn
<1>9. TerminalIsLast'
  <2>1. ASSUME NEW y \in Execs, NEW i \in DOMAIN buffer'[y]
        PROVE  buffer'[y][i].kind \in FinalStates
                 <=> i = Len(buffer'[y]) /\ final'[y] # None
    <3>1. CASE y = x
      BY <1>6, <1>7, <2>1, <3>1
    <3>2. CASE y # x
      BY <1>5, <2>1, <3>2 DEF LogInv, TerminalIsLast
    <3> QED BY <3>1, <3>2
  <2> QED BY <2>1 DEF TerminalIsLast
<1> QED BY <1>8, <1>9 DEF LogInv

-----------------------------------------------------------------------------

\* A run that is executing finds its own record, or none after a force stop.
LEMMA RunningLog ==
    ASSUME IInv, NEW x \in Execs, task[x] = "running", NEW msgs
    PROVE  /\ NotebookFor(x) \in Notebooks
           /\ final[x] = None =>
                Logged(NotebookFor(x), msgs) = [buffer EXCEPT ![x] = @ \o msgs]
           /\ final[x] # None => Logged(NotebookFor(x), msgs) = buffer
<1>1. NotebookFor(x) \in Notebooks
  BY NotebookOfExec DEF IInv
<1>2. registry[NotebookFor(x)] = IF final[x] = None THEN x ELSE None
  BY DEF IInv, LockInv, RunningIsRegistered
<1>3. x # None
  BY DistinctAssumption
<1> QED BY <1>1, <1>2, <1>3 DEF Logged

LEMMA SayKeepsLock ==
    ASSUME IInv, NEW x \in Execs, task[x] = "running",
           UNCHANGED <<task, holder, registry, final, by>>,
           \A y \in Execs \ {x} : buffer'[y] = buffer[y]
    PROVE  LockInv'
BY DEF IInv, LockInv, HolderRuns, RunningIsRegistered, RegisteredIsRunning, FreshIsBlank,
       NotebookFor, SocketOf

\* A run says something that is not a terminal state, to its record or to nobody.
LEMMA SayKeeps ==
    ASSUME IInv, NEW x \in Execs, task[x] = "running", NEW k \in Kinds \ FinalStates,
           UNCHANGED <<task, holder, registry, final, by>>,
           buffer' = Logged(NotebookFor(x), <<Msg(x, k)>>)
    PROVE  LockInv' /\ LogInv'
<1>1. buffer \in [Execs -> Seq(Message)]
  BY DEF IInv, TypeOK
<1>2. CASE final[x] = None
  <2>1. buffer' = [buffer EXCEPT ![x] = @ \o <<Msg(x, k)>>]
    BY <1>2, RunningLog
  <2>2. LogInv'
    BY <1>2, <2>1, SayKeepsLog DEF IInv
  <2>3. \A y \in Execs \ {x} : buffer'[y] = buffer[y]
    BY <1>1, <2>1
  <2> QED BY <2>2, <2>3, SayKeepsLock
<1>3. CASE final[x] # None
  <2>1. buffer' = buffer
    BY <1>3, RunningLog
  <2> QED BY <2>1, StutterKeeps
<1> QED BY <1>2, <1>3

LEMMA ExecuteKeeps ==
    ASSUME IInv, NEW w \in Sockets, NEW x \in Execs, NEW c \in Cells, Execute(w, x, c)
    PROVE  LockInv' /\ LogInv'
<1>1. /\ task' = [task EXCEPT ![x] = "queued"] /\ task[x] = "unused"
      /\ UNCHANGED <<holder, registry, final, buffer>>
      /\ task \in [Execs -> {"unused", "queued", "running", "done"}]
  BY DEF Execute, recVars, IInv, TypeOK
<1>2. \A y \in Execs \ {x} : task'[y] = task[y] /\ NotebookFor(y)' = NotebookFor(y)
  <2>1. by' = [by EXCEPT ![x] = w] /\ by \in [Execs -> Sockets \cup {None}]
    BY DEF Execute, IInv, TypeOK
  <2> QED BY <1>1, <2>1, DistinctAssumption DEF NotebookFor, SocketOf
<1>3. task'[x] = "queued"
  BY <1>1
<1>4. /\ holder \in [Notebooks -> Execs \cup {None}]
      /\ registry \in [Notebooks -> Execs \cup {None}]
  BY DEF IInv, TypeOK
<1>5. HolderRuns'
  BY <1>1, <1>2, <1>4 DEF IInv, LockInv, HolderRuns
<1>6. RunningIsRegistered'
  BY <1>1, <1>2, <1>3 DEF IInv, LockInv, RunningIsRegistered
<1>7. RegisteredIsRunning'
  BY <1>1, <1>2, <1>4 DEF IInv, LockInv, RegisteredIsRunning
<1>8. FreshIsBlank'
  BY <1>1, <1>2 DEF IInv, LockInv, FreshIsBlank
<1>9. LogInv'
  BY <1>1 DEF IInv, LogInv, BufferIsOwn, TerminalIsLast
<1> QED BY <1>5, <1>6, <1>7, <1>8, <1>9 DEF LockInv

LEMMA StartKeeps ==
    ASSUME IInv, NEW x \in Execs, Start(x) PROVE LockInv' /\ LogInv'
<1> DEFINE n == NotebookFor(x)
<1>1. /\ n \in Notebooks /\ x # None
      /\ holder[n] = None
      /\ final[x] = None /\ buffer[x] = <<>>
  BY NotebookOfExec, DistinctAssumption
     DEF IInv, Start, LockFree, LockInv, FreshIsBlank
<1>2. /\ task' = [task EXCEPT ![x] = "running"] /\ task[x] = "queued"
      /\ holder' = [holder EXCEPT ![n] = x]
      /\ registry' = [registry EXCEPT ![n] = x]
      /\ buffer' = [buffer EXCEPT ![x] = <<Msg(x, "running")>>]
      /\ UNCHANGED <<final, by>>
  BY DEF Start, sockVars
<1>3. /\ task \in [Execs -> {"unused", "queued", "running", "done"}]
      /\ holder \in [Notebooks -> Execs \cup {None}]
      /\ registry \in [Notebooks -> Execs \cup {None}]
      /\ buffer \in [Execs -> Seq(Message)]
  BY DEF IInv, TypeOK
<1>4. \A y \in Execs : NotebookFor(y)' = NotebookFor(y)
  BY <1>2 DEF NotebookFor, SocketOf
<1>5. /\ \A y \in Execs \ {x} : task'[y] = task[y] /\ buffer'[y] = buffer[y]
      /\ \A m \in Notebooks \ {n} : holder'[m] = holder[m] /\ registry'[m] = registry[m]
      /\ task'[x] = "running" /\ holder'[n] = x /\ registry'[n] = x
  BY <1>1, <1>2, <1>3
<1> HIDE DEF n
<1>6. HolderRuns'
  <2>1. ASSUME NEW m \in Notebooks, holder'[m] # None
        PROVE  task'[holder'[m]] = "running" /\ NotebookFor(holder[m])' = m
    <3>1. CASE m = n
      BY <1>1, <1>2, <1>5, <3>1 DEF n, NotebookFor, SocketOf
    <3>2. CASE m # n
      <4>1. holder'[m] = holder[m] /\ holder[m] \in Execs
        BY <1>3, <1>5, <2>1, <3>2
      <4>2. task[holder[m]] = "running" /\ NotebookFor(holder[m]) = m
        BY <2>1, <4>1 DEF IInv, LockInv, HolderRuns
      <4>3. holder[m] # x
        BY <1>2, <4>2
      <4> QED BY <1>2, <1>5, <4>1, <4>2, <4>3 DEF NotebookFor, SocketOf
    <3> QED BY <3>1, <3>2
  <2> QED BY <2>1 DEF HolderRuns
<1>7. RunningIsRegistered'
  <2>1. ASSUME NEW y \in Execs, task'[y] = "running"
        PROVE  /\ holder'[NotebookFor(y)'] = y
               /\ registry'[NotebookFor(y)'] = IF final'[y] = None THEN y ELSE None
    <3>1. CASE y = x
      BY <1>1, <1>2, <1>4, <1>5, <3>1 DEF n
    <3>2. CASE y # x
      <4>1. task[y] = "running"
        BY <1>5, <2>1, <3>2
      <4>2. /\ holder[NotebookFor(y)] = y
            /\ registry[NotebookFor(y)] = IF final[y] = None THEN y ELSE None
        BY <4>1 DEF IInv, LockInv, RunningIsRegistered
      <4>3. NotebookFor(y) \in Notebooks
        BY <4>1, NotebookOfExec DEF IInv
      <4>4. NotebookFor(y) # n
        BY <1>1, <4>2, DistinctAssumption
      <4> QED BY <1>2, <1>4, <1>5, <4>2, <4>3, <4>4
    <3> QED BY <3>1, <3>2
  <2> QED BY <2>1 DEF RunningIsRegistered
<1>8. RegisteredIsRunning'
  <2>1. ASSUME NEW m \in Notebooks, registry'[m] # None
        PROVE  /\ NotebookFor(registry[m])' = m
               /\ IF final'[registry'[m]] = None THEN task'[registry'[m]] = "running"
                  ELSE task'[registry'[m]] = "done" /\ registry'[m] \in Unsavable
    <3>1. CASE m = n
      BY <1>1, <1>2, <1>5, <3>1 DEF n, NotebookFor, SocketOf
    <3>2. CASE m # n
      <4>1. registry'[m] = registry[m] /\ registry[m] \in Execs
        BY <1>3, <1>5, <2>1, <3>2
      <4>2. /\ NotebookFor(registry[m]) = m
            /\ IF final[registry[m]] = None THEN task[registry[m]] = "running"
               ELSE task[registry[m]] = "done" /\ registry[m] \in Unsavable
        BY <2>1, <4>1 DEF IInv, LockInv, RegisteredIsRunning
      <4>3. registry[m] # x
        BY <1>2, <4>2
      <4> QED BY <1>2, <1>5, <4>1, <4>2, <4>3 DEF NotebookFor, SocketOf
    <3> QED BY <3>1, <3>2
  <2> QED BY <2>1 DEF RegisteredIsRunning
<1>9. FreshIsBlank'
  BY <1>2, <1>5 DEF IInv, LockInv, FreshIsBlank
<1>10. LogInv'
  <2>1. "running" \in Kinds \ FinalStates
    BY DEF Kinds, FinalStates
  <2>2. buffer[x] \o <<Msg(x, "running")>> = <<Msg(x, "running")>>
    <3>1. Msg(x, "running") \in Message
      BY <2>1, MsgType
    <3> QED BY <1>1, <3>1
  <2>3. buffer' = [buffer EXCEPT ![x] = @ \o <<Msg(x, "running")>>]
    BY <1>2, <2>2
  <2> QED BY <1>1, <1>2, <2>1, <2>3, SayKeepsLog DEF IInv
<1> QED BY <1>6, <1>7, <1>8, <1>9, <1>10 DEF LockInv

LEMMA AppendToOne ==
    ASSUME NEW S, NEW a \in S, NEW b \in S PROVE Append(<<a>>, b) = <<a, b>>
<1>1. <<a>> \in Seq(S) /\ Len(<<a>>) = 1 /\ <<a>>[1] = a
  OBVIOUS
<1>2. /\ Append(<<a>>, b) \in Seq(S) /\ Len(Append(<<a>>, b)) = 2
      /\ Append(<<a>>, b)[1] = a /\ Append(<<a>>, b)[2] = b
  BY <1>1, AppendProperties
<1>3. /\ <<a, b>> \in Seq(S) /\ Len(<<a, b>>) = 2
      /\ <<a, b>>[1] = a /\ <<a, b>>[2] = b
  OBVIOUS
<1>4. \A i \in 1..Len(Append(<<a>>, b)) : Append(<<a>>, b)[i] = <<a, b>>[i]
  BY <1>2, <1>3
<1> QED BY <1>2, <1>3, <1>4, SeqEqual

\* A run is closed by a force stop, or by its end: what that does to its log.
LEMMA CloseKeeps ==
    ASSUME IInv, NEW x \in Execs, task[x] = "running", NEW s \in FinalStates,
           NEW before \in {<<>>, <<Msg(x, "error")>>},
           final' = [final EXCEPT ![x] = s],
           buffer' = Logged(NotebookFor(x), Append(before, Msg(x, s)))
    PROVE  /\ LogInv'
           /\ \A y \in Execs \ {x} : buffer'[y] = buffer[y] /\ final'[y] = final[y]
           /\ final'[x] = s /\ s # None
<1>1. buffer \in [Execs -> Seq(Message)] /\ final \in [Execs -> FinalStates \cup {None}]
  BY DEF IInv, TypeOK
<1>2. s # None
  BY DistinctAssumption DEF FinalStates
<1>3. CASE final[x] = None
  <2>1. buffer' = [buffer EXCEPT ![x] = @ \o Append(before, Msg(x, s))]
    BY <1>3, RunningLog
  <2>2. LogInv'
    BY <1>3, <2>1, CloseKeepsLog DEF IInv
  <2> QED BY <1>1, <1>2, <2>1, <2>2
<1>4. CASE final[x] # None
  <2>1. buffer' = buffer
    BY <1>4, RunningLog
  <2>2. \A y \in Execs : final'[y] = None <=> final[y] = None
    BY <1>1, <1>2, <1>4
  <2>3. LogInv'
    BY <2>1, <2>2 DEF IInv, LogInv, BufferIsOwn, TerminalIsLast
  <2> QED BY <1>1, <1>2, <2>1, <2>3
<1> QED BY <1>3, <1>4

LEMMA FinalizeKeeps ==
    ASSUME IInv, NEW x \in Execs, NEW s \in FinalStates,
           NEW before \in {<<>>, <<Msg(x, "error")>>}, Finalize(x, s, before)
    PROVE  LockInv' /\ LogInv'
<1> DEFINE n == NotebookFor(x)
<1>1. /\ task[x] = "running" /\ task' = [task EXCEPT ![x] = "done"]
      /\ holder' = [holder EXCEPT ![n] = None]
      /\ final' = [final EXCEPT ![x] = s]
      /\ buffer' = Logged(n, Append(before, Msg(x, s)))
      /\ \/ registry' = [registry EXCEPT ![n] = None]
         \/ x \in Unsavable /\ registry' = registry
      /\ by' = by
  BY DEF Finalize, Unregistered, Released, sockVars
<1>2. /\ task \in [Execs -> {"unused", "queued", "running", "done"}]
      /\ holder \in [Notebooks -> Execs \cup {None}]
      /\ registry \in [Notebooks -> Execs \cup {None}]
  BY DEF IInv, TypeOK
<1>3. /\ n \in Notebooks /\ x # None /\ holder[n] = x
      /\ registry[n] = IF final[x] = None THEN x ELSE None
  BY <1>1, NotebookOfExec, DistinctAssumption DEF IInv, LockInv, RunningIsRegistered
<1>4. /\ LogInv'
      /\ \A y \in Execs \ {x} : buffer'[y] = buffer[y] /\ final'[y] = final[y]
      /\ final'[x] = s /\ s # None
  BY <1>1, CloseKeeps
<1>5. /\ \A y \in Execs \ {x} : task'[y] = task[y]
      /\ \A m \in Notebooks \ {n} : holder'[m] = holder[m] /\ registry'[m] = registry[m]
      /\ task'[x] = "done" /\ holder'[n] = None
      /\ registry'[n] = None \/ (x \in Unsavable /\ registry'[n] = registry[n])
  <2>1. task'[x] = "done" /\ \A y \in Execs \ {x} : task'[y] = task[y]
    BY <1>1, <1>2
  <2>2. holder'[n] = None /\ \A m \in Notebooks \ {n} : holder'[m] = holder[m]
    BY <1>1, <1>2, <1>3
  <2>3. /\ registry'[n] = None \/ (x \in Unsavable /\ registry'[n] = registry[n])
        /\ \A m \in Notebooks \ {n} : registry'[m] = registry[m]
    BY <1>1, <1>2, <1>3
  <2> QED BY <2>1, <2>2, <2>3
<1> HIDE DEF n
<1>6. HolderRuns'
  <2>1. ASSUME NEW m \in Notebooks, holder'[m] # None
        PROVE  task'[holder'[m]] = "running" /\ NotebookFor(holder[m])' = m
    <3>1. m # n /\ holder'[m] = holder[m] /\ holder[m] \in Execs
      BY <1>2, <1>5, <2>1
    <3>2. task[holder[m]] = "running" /\ NotebookFor(holder[m]) = m
      BY <2>1, <3>1 DEF IInv, LockInv, HolderRuns
    <3>3. holder[m] # x
      BY <3>1, <3>2 DEF n
    <3> QED BY <1>1, <1>5, <3>1, <3>2, <3>3 DEF NotebookFor, SocketOf
  <2> QED BY <2>1 DEF HolderRuns
<1>7. RunningIsRegistered'
  <2>1. ASSUME NEW y \in Execs, task'[y] = "running"
        PROVE  /\ holder'[NotebookFor(y)'] = y
               /\ registry'[NotebookFor(y)'] = IF final'[y] = None THEN y ELSE None
    <3>1. y # x /\ task[y] = "running"
      BY <1>5, <2>1
    <3>2. /\ holder[NotebookFor(y)] = y
          /\ registry[NotebookFor(y)] = IF final[y] = None THEN y ELSE None
      BY <3>1 DEF IInv, LockInv, RunningIsRegistered
    <3>3. NotebookFor(y) \in Notebooks /\ NotebookFor(y) # n
      BY <1>3, <3>1, <3>2, NotebookOfExec DEF IInv
    <3>4. NotebookFor(y)' = NotebookFor(y)
      BY <1>1 DEF NotebookFor, SocketOf
    <3> QED BY <1>4, <1>5, <3>1, <3>2, <3>3, <3>4
  <2> QED BY <2>1 DEF RunningIsRegistered
<1>8. RegisteredIsRunning'
  <2>1. ASSUME NEW m \in Notebooks, registry'[m] # None
        PROVE  /\ NotebookFor(registry[m])' = m
               /\ IF final'[registry'[m]] = None THEN task'[registry'[m]] = "running"
                  ELSE task'[registry'[m]] = "done" /\ registry'[m] \in Unsavable
    <3>1. CASE m = n
      <4>1. registry'[n] = x /\ x \in Unsavable
        BY <1>3, <1>5, <2>1, <3>1
      <4> QED BY <1>1, <1>4, <1>5, <3>1, <4>1 DEF n, NotebookFor, SocketOf
    <3>2. CASE m # n
      <4>1. registry'[m] = registry[m] /\ registry[m] \in Execs
        BY <1>2, <1>5, <2>1, <3>2
      <4>2. /\ NotebookFor(registry[m]) = m
            /\ IF final[registry[m]] = None THEN task[registry[m]] = "running"
               ELSE task[registry[m]] = "done" /\ registry[m] \in Unsavable
        BY <2>1, <4>1 DEF IInv, LockInv, RegisteredIsRunning
      <4>3. registry[m] # x
        BY <3>2, <4>2 DEF n
      <4> QED BY <1>1, <1>4, <1>5, <4>1, <4>2, <4>3 DEF NotebookFor, SocketOf
    <3> QED BY <3>1, <3>2
  <2> QED BY <2>1 DEF RegisteredIsRunning
<1>9. FreshIsBlank'
  BY <1>4, <1>5 DEF IInv, LockInv, FreshIsBlank
<1> QED BY <1>4, <1>6, <1>7, <1>8, <1>9 DEF LockInv

LEMMA ForceStopKeeps ==
    ASSUME IInv, NEW w \in Sockets, ForceStop(w) PROVE LockInv' /\ LogInv'
<1> DEFINE n == NotebookOf[w]  x == registry[n]
<1>1. n \in Notebooks /\ UNCHANGED <<task, holder, by>>
  BY SocketsAssumption DEF ForceStop, lockVars
<1>2. /\ task \in [Execs -> {"unused", "queued", "running", "done"}]
      /\ holder \in [Notebooks -> Execs \cup {None}]
      /\ registry \in [Notebooks -> Execs \cup {None}]
  BY DEF IInv, TypeOK
<1>3. CASE x # None /\ final[x] = None
  <2>1. x \in Execs /\ task[x] = "running" /\ NotebookFor(x) = n
    BY <1>1, <1>2, <1>3 DEF IInv, LockInv, RegisteredIsRunning
  <2>2. /\ final' = [final EXCEPT ![x] = "errored"]
        /\ registry' = [registry EXCEPT ![n] = None]
        /\ buffer' = Logged(n, <<Msg(x, "error"), Msg(x, "errored")>>)
    BY <1>3 DEF ForceStop, Unregistered
  <2>3. <<Msg(x, "error"), Msg(x, "errored")>>
          = Append(<<Msg(x, "error")>>, Msg(x, "errored"))
    <3>1. Msg(x, "error") \in Message /\ Msg(x, "errored") \in Message
      BY <2>1, MsgType DEF Kinds, FinalStates
    <3> QED BY <3>1, AppendToOne
  <2>4. buffer' = Logged(NotebookFor(x), Append(<<Msg(x, "error")>>, Msg(x, "errored")))
    BY <2>1, <2>2, <2>3
  <2>5. "errored" \in FinalStates
    BY DEF FinalStates
  <2> HIDE DEF x, n
  <2>6. /\ LogInv'
        /\ \A y \in Execs \ {x} : buffer'[y] = buffer[y] /\ final'[y] = final[y]
        /\ final'[x] = "errored" /\ "errored" # None
    BY <2>1, <2>2, <2>4, <2>5, CloseKeeps
  <2>7. /\ \A m \in Notebooks \ {n} : registry'[m] = registry[m]
        /\ registry'[n] = None
    BY <1>1, <1>2, <2>2
  <2>8. HolderRuns'
    BY <1>1 DEF IInv, LockInv, HolderRuns, NotebookFor, SocketOf
  <2>9. RunningIsRegistered'
    <3>1. ASSUME NEW y \in Execs, task'[y] = "running"
          PROVE  /\ holder'[NotebookFor(y)'] = y
                 /\ registry'[NotebookFor(y)'] = IF final'[y] = None THEN y ELSE None
      <4>1. task[y] = "running" /\ NotebookFor(y)' = NotebookFor(y)
        BY <1>1, <3>1 DEF NotebookFor, SocketOf
      <4>2. /\ holder[NotebookFor(y)] = y /\ NotebookFor(y) \in Notebooks
            /\ registry[NotebookFor(y)] = IF final[y] = None THEN y ELSE None
        BY <4>1, NotebookOfExec DEF IInv, LockInv, RunningIsRegistered
      <4>3. holder[n] = x
        BY <2>1 DEF IInv, LockInv, RunningIsRegistered
      <4>4. CASE y = x
        BY <1>1, <2>1, <2>6, <2>7, <4>1, <4>2, <4>4
      <4>5. CASE y # x
        <5>1. NotebookFor(y) # n
          BY <4>2, <4>3, <4>5
        <5> QED BY <1>1, <2>6, <2>7, <4>1, <4>2, <4>5, <5>1
      <4> QED BY <4>4, <4>5
    <3> QED BY <3>1 DEF RunningIsRegistered
  <2>10. RegisteredIsRunning'
    <3>1. ASSUME NEW m \in Notebooks, registry'[m] # None
          PROVE  /\ NotebookFor(registry[m])' = m
                 /\ IF final'[registry'[m]] = None THEN task'[registry'[m]] = "running"
                    ELSE task'[registry'[m]] = "done" /\ registry'[m] \in Unsavable
      <4>1. m # n /\ registry'[m] = registry[m] /\ registry[m] \in Execs
        BY <1>2, <2>7, <3>1
      <4>2. /\ NotebookFor(registry[m]) = m
            /\ IF final[registry[m]] = None THEN task[registry[m]] = "running"
               ELSE task[registry[m]] = "done" /\ registry[m] \in Unsavable
        BY <3>1, <4>1 DEF IInv, LockInv, RegisteredIsRunning
      <4>3. registry[m] # x
        BY <2>1, <4>1, <4>2
      <4> QED BY <1>1, <2>6, <4>1, <4>2, <4>3 DEF NotebookFor, SocketOf
    <3> QED BY <3>1 DEF RegisteredIsRunning
  <2>11. FreshIsBlank'
    BY <1>1, <2>1, <2>6 DEF IInv, LockInv, FreshIsBlank
  <2> QED BY <2>6, <2>8, <2>9, <2>10, <2>11 DEF LockInv
<1>4. CASE ~(x # None /\ final[x] = None)
  <2>1. UNCHANGED <<registry, final, buffer>>
    BY <1>4 DEF ForceStop
  <2> QED BY <1>1, <2>1, StutterKeeps
<1> QED BY <1>3, <1>4

LEMMA InterruptKeeps ==
    ASSUME IInv, NEW w \in Sockets, Interrupt(w) PROVE LockInv' /\ LogInv'
<1> DEFINE n == NotebookOf[w]  x == registry[n]
<1>1. n \in Notebooks /\ x \in Execs /\ final[x] = None
  BY SocketsAssumption DEF Interrupt, IInv, TypeOK
<1>2. task[x] = "running" /\ NotebookFor(x) = n
  BY <1>1, DistinctAssumption DEF IInv, LockInv, RegisteredIsRunning
<1>3. /\ buffer' = Logged(n, <<Msg(x, "stopping")>>)
      /\ UNCHANGED <<task, holder, registry, final, by>>
  BY DEF Interrupt, lockVars, sockVars
<1>4. "stopping" \in Kinds \ FinalStates
  BY DEF Kinds, FinalStates
<1> QED BY <1>1, <1>2, <1>3, <1>4, SayKeeps

LEMMA RelayKeeps ==
    ASSUME IInv, NEW x \in Execs,
           RelayError(x) \/ \E k \in {"output", "display"} : Relay(x, k)
    PROVE  LockInv' /\ LogInv'
<1>1. PICK k \in {"output", "display", "error"} :
          buffer' = Logged(NotebookFor(x), <<Msg(x, k)>>)
  BY DEF Relay, RelayError
<1>2. task[x] = "running" /\ UNCHANGED <<task, holder, registry, final, by>>
  BY DEF Relay, RelayError, lockVars, sockVars
<1>3. k \in Kinds \ FinalStates
  BY DEF Kinds, FinalStates
<1> QED BY <1>1, <1>2, <1>3, SayKeeps

LEMMA InvStep == IInv /\ [Next]_vars => IInv'
<1> SUFFICES ASSUME IInv, [Next]_vars PROVE LockInv' /\ LogInv'
  BY TypeStep DEF IInv
<1>1. ASSUME NEW x \in Execs, ExecStep(x) PROVE LockInv' /\ LogInv'
  <2>1. CASE Ends(x)
    BY <2>1, EndsFinalizes, FinalizeKeeps DEF IInv
  <2>2. CASE Start(x)
    BY <2>2, StartKeeps
  <2>3. CASE RelayError(x) \/ \E k \in {"output", "display"} : Relay(x, k)
    BY <2>3, RelayKeeps
  <2> QED BY <1>1, <2>1, <2>2, <2>3 DEF ExecStep
<1>2. ASSUME NEW w \in Sockets, SocketStep(w) PROVE LockInv' /\ LogInv'
  <2>1. CASE Connect(w) \/ Disconnect(w) \/ ForceStopped(w)
    <3>1. UNCHANGED <<task, holder, registry, final, buffer, by>>
      BY <2>1 DEF Connect, Disconnect, ForceStopped, lockVars, recVars
    <3> QED BY <3>1, StutterKeeps
  <2> QED BY <1>2, <2>1, ExecuteKeeps, InterruptKeeps, ForceStopKeeps DEF SocketStep
<1>3. ASSUME NEW f \in Forwarders, ForwarderStep(f) PROVE LockInv' /\ LogInv'
  <2>1. UNCHANGED <<task, holder, registry, final, buffer, by>>
    BY <1>3 DEF ForwarderStep, Subscribe, GiveUp, SendReplay, EndReplay, SendLive,
                EndLive, sockVars, lockVars, recVars
  <2> QED BY <2>1, StutterKeeps
<1>4. CASE UNCHANGED vars
  BY <1>4, StutterKeeps DEF vars, sockVars, lockVars, recVars
<1> QED BY <1>1, <1>2, <1>3, <1>4 DEF Next

LEMMA InvInit == Init => IInv
<1> SUFFICES ASSUME Init PROVE LockInv /\ LogInv
  BY InitTypes DEF IInv
<1> QED BY DEF Init, LockInv, HolderRuns, RunningIsRegistered, RegisteredIsRunning,
               FreshIsBlank, LogInv, BufferIsOwn, TerminalIsLast

THEOREM Invariance == Spec => []IInv
BY InvInit, InvStep, PTL DEF Spec

LEMMA RegisteredHolds == IInv => RegisteredRunHoldsLock
<1> SUFFICES ASSUME IInv, NEW n \in Notebooks, registry[n] # None
             PROVE  IF final[registry[n]] = None THEN holder[n] = registry[n]
                    ELSE registry[n] \in Unsavable
  BY DEF RegisteredRunHoldsLock
<1>1. registry[n] \in Execs
  BY DEF IInv, TypeOK
<1> QED BY <1>1 DEF IInv, LockInv, RegisteredIsRunning, RunningIsRegistered

\* The record that append finds for a notebook is that of the task inside the lock, or
\* one that could not be saved: the run that is being executed is found by notebook id.
THEOREM RegistryIsTheLockHolder == Spec => []RegisteredRunHoldsLock
BY Invariance, RegisteredHolds, PTL

\* Every message in a replay buffer was said by the run that the buffer is of.
THEOREM BuffersAreNotMixed == Spec => []BufferIsOwn
<1>1. IInv => BufferIsOwn
  BY DEF IInv, LogInv
<1> QED BY <1>1, Invariance, PTL

\* A replay buffer is closed by one terminal state, with nothing behind it, also when a
\* force stop closes it while the run goes on.
THEOREM LogsAreClosedOnce == Spec => []TerminalIsLast
<1>1. IInv => TerminalIsLast
  BY DEF IInv, LogInv
<1> QED BY <1>1, Invariance, PTL

-----------------------------------------------------------------------------
(***************************************************************************)
(* Delivery.  Sequences first.                                             *)
(***************************************************************************)

LEMMA PrefixIsPointwise ==
    ASSUME NEW S, NEW s \in Seq(S), NEW t \in Seq(S)
    PROVE  IsPrefix(s, t) <=> Len(s) <= Len(t) /\ \A i \in 1..Len(s) : s[i] = t[i]
<1>1. Len(s) \in Nat /\ Len(t) \in Nat /\ SubSeq(s, 1, Len(s)) = s
  BY SubSeqFull
<1>2. ASSUME Len(s) <= Len(t)
      PROVE  /\ SubSeq(t, 1, Len(s)) \in Seq(S) /\ Len(SubSeq(t, 1, Len(s))) = Len(s)
             /\ \A i \in 1..Len(s) : SubSeq(t, 1, Len(s))[i] = t[i]
  <2>1. \A i \in 1..Len(s) : t[i] \in S
    BY <1>1, <1>2
  <2>2. /\ SubSeq(t, 1, Len(s)) \in Seq(S)
        /\ Len(SubSeq(t, 1, Len(s))) = IF 1 <= Len(s) THEN Len(s) - 1 + 1 ELSE 0
        /\ \A i \in 1..(Len(s) - 1 + 1) : SubSeq(t, 1, Len(s))[i] = t[1 + i - 1]
    BY <1>1, <2>1, SubSeqProperties
  <2> QED BY <1>1, <2>2
<1>3. ASSUME Len(s) <= Len(t), \A i \in 1..Len(s) : s[i] = t[i]
      PROVE  IsPrefix(s, t)
  <2>1. \A i \in 1..Len(s) : s[i] = SubSeq(t, 1, Len(s))[i]
    BY <1>2, <1>3
  <2>2. s = SubSeq(t, 1, Len(s))
    BY <1>2, <1>3, <2>1, SeqEqual
  <2> QED BY <1>1, <1>3, <2>2 DEF IsPrefix
<1>4. ASSUME IsPrefix(s, t)
      PROVE  Len(s) <= Len(t) /\ \A i \in 1..Len(s) : s[i] = t[i]
  <2>1. Len(s) <= Len(t) /\ s = SubSeq(t, 1, Len(s))
    BY <1>1, <1>4 DEF IsPrefix
  <2> QED BY <1>2, <2>1
<1> QED BY <1>3, <1>4

\* A log only grows.
LEMMA PrefixOfLonger ==
    ASSUME NEW S, NEW s \in Seq(S), NEW t \in Seq(S), NEW u \in Seq(S), IsPrefix(s, t)
    PROVE  IsPrefix(s, t \o u)
<1>1. Len(s) <= Len(t) /\ \A i \in 1..Len(s) : s[i] = t[i]
  BY PrefixIsPointwise
<1>2. /\ t \o u \in Seq(S) /\ Len(t \o u) = Len(t) + Len(u)
      /\ Len(s) \in Nat /\ Len(t) \in Nat /\ Len(u) \in Nat
      /\ \A i \in 1..(Len(t) + Len(u)) : (t \o u)[i] = IF i <= Len(t) THEN t[i] ELSE u[i - Len(t)]
  BY ConcatProperties
<1>3. ASSUME NEW i \in 1..Len(s) PROVE (t \o u)[i] = s[i]
  <2>1. i \in 1..(Len(t) + Len(u)) /\ i <= Len(t)
    BY <1>1, <1>2
  <2> QED BY <1>1, <1>2, <2>1
<1>4. Len(s) <= Len(t \o u)
  BY <1>1, <1>2
<1> QED BY <1>2, <1>3, <1>4, PrefixIsPointwise

Sent == Message \cup {None}

\* None is no message.
LEMMA SentinelIsNoMessage == None \notin Message /\ Message \subseteq Sent
BY DistinctAssumption DEF Sent

\* With no sentinel behind it, it is just what was said.
LEMMA NoSentinelYet ==
    ASSUME NEW said \in Seq(Message), NEW s \in Seq(Sent), ThenSentinels(said, s),
           \A i \in DOMAIN s : s[i] # None
    PROVE  s = said
<1>1. said \in Seq(Sent)
  BY SentinelIsNoMessage
<1>2. Len(said) <= Len(s) /\ \A i \in 1..Len(said) : said[i] = s[i]
  BY <1>1, PrefixIsPointwise DEF ThenSentinels
<1>3. Len(s) \in Nat /\ Len(said) \in Nat /\ DOMAIN s = 1..Len(s)
  BY LenProperties
<1>4. ~(Len(said) < Len(s))
  <2>1. SUFFICES ASSUME Len(said) < Len(s) PROVE FALSE
    OBVIOUS
  <2>2. Len(s) \in DOMAIN s
    BY <1>3, <2>1
  <2> QED BY <2>1, <2>2 DEF ThenSentinels
<1>5. Len(s) = Len(said)
  BY <1>2, <1>3, <1>4
<1> QED BY <1>1, <1>2, <1>5, SeqEqual

LEMMA NothingBehind ==
    ASSUME NEW said \in Seq(Message) PROVE ThenSentinels(said, said) /\ said \in Seq(Sent)
<1>1. said \in Seq(Sent)
  BY SentinelIsNoMessage
<1>2. IsPrefix(said, said)
  BY <1>1, PrefixIsPointwise
<1>3. \A i \in DOMAIN said : ~(i > Len(said))
  BY <1>1, LenProperties
<1> QED BY <1>1, <1>2, <1>3 DEF ThenSentinels

LEMMA SentinelBehind ==
    ASSUME NEW said \in Seq(Message), NEW s \in Seq(Sent), ThenSentinels(said, s),
           NEW ends \in Seq({None})
    PROVE  ThenSentinels(said, s \o ends)
<1>1. said \in Seq(Sent) /\ None \in Sent
  BY SentinelIsNoMessage DEF Sent
<1>2. ends \in Seq(Sent) /\ \A i \in 1..Len(ends) : ends[i] = None
  BY <1>1, ElementOfSeq
<1>3. IsPrefix(said, s \o ends)
  BY <1>1, <1>2, PrefixOfLonger DEF ThenSentinels
<1>4. /\ s \o ends \in Seq(Sent) /\ Len(s \o ends) = Len(s) + Len(ends)
      /\ Len(s) \in Nat /\ Len(ends) \in Nat /\ DOMAIN s = 1..Len(s)
      /\ \A i \in 1..(Len(s) + Len(ends)) :
            (s \o ends)[i] = IF i <= Len(s) THEN s[i] ELSE ends[i - Len(s)]
  BY <1>2, ConcatProperties, LenProperties
<1>5. ASSUME NEW i \in DOMAIN (s \o ends), i > Len(said) PROVE (s \o ends)[i] = None
  <2>1. i \in 1..(Len(s) + Len(ends))
    BY <1>4, LenProperties
  <2>2. CASE i <= Len(s)
    <3>1. i \in DOMAIN s
      BY <1>4, <2>1, <2>2
    <3>2. s[i] = None
      BY <1>5, <3>1 DEF ThenSentinels
    <3> QED BY <1>4, <2>1, <2>2, <3>2
  <2>3. CASE ~(i <= Len(s))
    <3>1. i - Len(s) \in 1..Len(ends)
      BY <1>4, <2>1, <2>3
    <3> QED BY <1>2, <1>4, <2>1, <2>3, <3>1
  <2> QED BY <2>2, <2>3
<1> QED BY <1>3, <1>5 DEF ThenSentinels

LEMMA Associative == \A S : \A s, t, u \in Seq(S) : s \o (t \o u) = (s \o t) \o u
BY ConcatAssociative

LEMMA Regrouped ==
    ASSUME NEW a \in Seq(Sent), NEW q \in Seq(Sent), NEW m \in Seq(Sent), NEW e \in Seq(Sent),
           NEW said, ThenSentinels(said, ((a \o q) \o m) \o e)
    PROVE  ThenSentinels(said, a \o ((q \o m) \o e))
<1> DEFINE z == q \o m
<1>1. z \in Seq(Sent)
  OBVIOUS
<1> HIDE DEF z
<1>2. a \o (z \o e) = (a \o z) \o e
  BY <1>1, Associative, SMT
<1>3. a \o (q \o m) = (a \o q) \o m
  BY Associative, SMT
<1> QED BY <1>2, <1>3 DEF z

\* What is said goes behind both, and sentinels behind it.
LEMMA SaidToBoth ==
    ASSUME NEW said \in Seq(Message), NEW a \in Seq(Sent), NEW q \in Seq(Sent),
           NEW msgs \in Seq(Message), NEW ends \in Seq({None}),
           ThenSentinels(said, a \o q), Len(msgs) > 0 => a \o q = said
    PROVE  ThenSentinels(said \o msgs, a \o ((q \o msgs) \o ends))
<1>1. msgs \in Seq(Sent) /\ ends \in Seq(Sent)
  <2>1. msgs \in Seq(Sent)
    BY SentinelIsNoMessage
  <2>2. ends \in Seq(Sent)
    BY DEF Sent
  <2> QED BY <2>1, <2>2
<1>2. q \o msgs \in Seq(Sent) /\ (a \o q) \o msgs \in Seq(Sent) /\ said \o msgs \in Seq(Message)
  BY <1>1
<1>4. ThenSentinels(said \o msgs, (a \o q) \o msgs)
  <2>1. CASE Len(msgs) > 0
    BY <1>2, <2>1, NothingBehind
  <2>2. CASE ~(Len(msgs) > 0)
    <3>1. Len(msgs) = 0
      BY <2>2, LenProperties
    <3>2. msgs = <<>>
      BY <3>1, EmptySeq
    <3>3. a \o q \in Seq(Sent)
      OBVIOUS
    <3>4. said \o msgs = said /\ (a \o q) \o msgs = a \o q
      BY <3>2, <3>3, ConcatEmptySeq
    <3> QED BY <3>4
  <2> QED BY <2>1, <2>2
<1>5. ThenSentinels(said \o msgs, ((a \o q) \o msgs) \o ends)
  BY <1>2, <1>4, SentinelBehind
<1> QED BY <1>1, <1>5, Regrouped

\* What is first in one sequence is put behind the one before it.
LEMMA HeadMoves ==
    ASSUME NEW S, NEW g \in Seq(S), NEW r \in Seq(S), r # <<>>
    PROVE  Append(g, Head(r)) \o Tail(r) = g \o r
<1> DEFINE a == Append(g, Head(r))
           b == Tail(r)
<1>1. /\ Head(r) = r[1] /\ r[1] \in S /\ b \in Seq(S) /\ Len(b) = Len(r) - 1
      /\ \A i \in 1..Len(b) : b[i] = r[i + 1]
      /\ Len(r) \in Nat \ {0}
  BY HeadTailProperties
<1>2. /\ a \in Seq(S) /\ Len(a) = Len(g) + 1 /\ Len(g) \in Nat
      /\ \A i \in 1..Len(g) : a[i] = g[i]
      /\ a[Len(g) + 1] = r[1]
  BY <1>1, AppendProperties
<1> HIDE DEF a, b
<1>3. /\ a \o b \in Seq(S) /\ Len(a \o b) = Len(a) + Len(b)
      /\ \A i \in 1..(Len(a) + Len(b)) : (a \o b)[i] = IF i <= Len(a) THEN a[i] ELSE b[i - Len(a)]
  BY <1>1, <1>2, ConcatProperties
<1>4. /\ g \o r \in Seq(S) /\ Len(g \o r) = Len(g) + Len(r)
      /\ \A i \in 1..(Len(g) + Len(r)) : (g \o r)[i] = IF i <= Len(g) THEN g[i] ELSE r[i - Len(g)]
  BY ConcatProperties
<1>5. Len(a) + Len(b) = Len(g) + Len(r)
  BY <1>1, <1>2
<1>6. ASSUME NEW i \in 1..(Len(g) + Len(r)) PROVE (a \o b)[i] = (g \o r)[i]
  <2>1. CASE i <= Len(g)
    <3>1. i \in 1..Len(g) /\ i <= Len(a)
      BY <1>2, <2>1
    <3> QED BY <1>2, <1>3, <1>4, <1>5, <2>1, <3>1
  <2>2. CASE i = Len(g) + 1
    <3>1. i <= Len(a) /\ ~(i <= Len(g)) /\ i - Len(g) = 1
      BY <1>2, <2>2
    <3>2. (a \o b)[i] = a[Len(g) + 1] /\ (g \o r)[i] = r[1]
      BY <1>3, <1>4, <1>5, <2>2, <3>1
    <3> QED BY <1>2, <3>2
  <2>3. CASE i > Len(g) + 1
    <3>1. /\ ~(i <= Len(a)) /\ ~(i <= Len(g)) /\ i - Len(a) \in 1..Len(b)
          /\ (i - Len(a)) + 1 = i - Len(g)
      BY <1>1, <1>2, <2>3
    <3>2. (a \o b)[i] = b[i - Len(a)] /\ (g \o r)[i] = r[i - Len(g)]
      BY <1>3, <1>4, <1>5, <3>1
    <3> QED BY <1>1, <3>1, <3>2
  <2> QED BY <1>1, <1>2, <2>1, <2>2, <2>3
<1>7. a \o b = g \o r
  BY <1>3, <1>4, <1>5, <1>6, SeqEqual
<1> QED BY <1>7 DEF a, b

-----------------------------------------------------------------------------
(***************************************************************************)
(* The inductive invariant of delivery.                                    *)
(***************************************************************************)

\* Where a forwarder is: it is subscribed to the run it follows, and to that run only;
\* it has nothing before it subscribes and nothing to replay when it is live; what it
\* follows has started; and no forwarder waits for a socket to be opened.
Placed(f) ==
    /\ \A x \in Execs : f \in subs[x] <=> Following(f) /\ source[f] = x
    /\ fwd[f] \in {"unused", "polling"} =>
          got[f] = <<>> /\ replay[f] = <<>> /\ queue[f] = <<>>
    /\ fwd[f] = "live" => replay[f] = <<>>
    /\ source[f] # None => task[source[f]] \in {"running", "done"}
    /\ f \in Sockets /\ sock[f] = "new" => fwd[f] = "unused"

\* What it has: nothing is lost, what it sent is in order, and no sentinel is sent while
\* the run is open.
Delivers(f) ==
    /\ Following(f) => ThenSentinels(buffer[source[f]], Stream(f))
    /\ source[f] # None => IsPrefix(got[f], buffer[source[f]])
    /\ Following(f) /\ final[source[f]] = None =>
          \A i \in DOMAIN queue[f] : queue[f][i] # None

ForwardersInv == \A f \in Forwarders : Placed(f)

StreamsInv == \A f \in Forwarders : Delivers(f)

DeliveryInv == IInv /\ ForwardersInv /\ StreamsInv

LEMMA StreamTypes ==
    ASSUME TypeOK, NEW f \in Forwarders
    PROVE  /\ got[f] \in Seq(Message) /\ replay[f] \in Seq(Message) /\ queue[f] \in Seq(Sent)
           /\ got[f] \in Seq(Sent) /\ replay[f] \in Seq(Sent)
           /\ got[f] \o replay[f] \in Seq(Sent) /\ Stream(f) \in Seq(Sent)
<1>1. got[f] \in Seq(Message) /\ replay[f] \in Seq(Message) /\ queue[f] \in Seq(Sent)
  BY DEF TypeOK, Sent
<1>2. got[f] \in Seq(Sent) /\ replay[f] \in Seq(Sent)
  BY <1>1, SentinelIsNoMessage
<1> QED BY <1>1, <1>2 DEF Stream

\* While its run is open, what a forwarder has, has still to replay and has queued is
\* exactly what the run said.
LEMMA OpenStream ==
    ASSUME TypeOK, StreamsInv, NEW f \in Forwarders, Following(f), final[source[f]] = None
    PROVE  Stream(f) = buffer[source[f]]
<1>1. buffer[source[f]] \in Seq(Message)
  BY DEF TypeOK, Following
<1>2. ThenSentinels(buffer[source[f]], Stream(f))
  BY DEF StreamsInv, Delivers
<1> DEFINE a == got[f] \o replay[f]
<1>3. /\ a \in Seq(Message) /\ a \in Seq(Sent) /\ queue[f] \in Seq(Sent)
      /\ Stream(f) = a \o queue[f] /\ Stream(f) \in Seq(Sent)
  <2>1. got[f] \in Seq(Message) /\ replay[f] \in Seq(Message)
    BY StreamTypes
  <2>2. a \in Seq(Message)
    BY <2>1
  <2> QED BY <2>2, StreamTypes DEF Stream
<1> HIDE DEF a
<1>4. \A i \in DOMAIN queue[f] : queue[f][i] # None
  BY DEF StreamsInv, Delivers
<1>5. ASSUME NEW i \in DOMAIN Stream(f) PROVE Stream(f)[i] # None
  <2>1. /\ i \in 1..(Len(a) + Len(queue[f])) /\ Len(a) \in Nat /\ Len(queue[f]) \in Nat
        /\ Stream(f)[i] = IF i <= Len(a) THEN a[i] ELSE queue[f][i - Len(a)]
        /\ DOMAIN queue[f] = 1..Len(queue[f])
    BY <1>3, ConcatProperties, LenProperties
  <2>2. CASE i <= Len(a)
    <3>1. a[i] \in Message
      BY <1>3, <2>1, <2>2, ElementOfSeq
    <3> QED BY <2>1, <2>2, <3>1, SentinelIsNoMessage
  <2>3. CASE ~(i <= Len(a))
    <3>1. i - Len(a) \in DOMAIN queue[f]
      BY <2>1, <2>3
    <3> QED BY <1>4, <2>1, <2>3, <3>1
  <2> QED BY <2>2, <2>3
<1> QED BY <1>1, <1>2, <1>3, <1>5, NoSentinelYet

\* A run says something and may end, while forwarders do nothing: what is said goes to
\* the buffer and to the queues of its subscribers.
LEMMA SayDelivers ==
    ASSUME DeliveryInv, TypeOK', NEW x \in Execs, NEW msgs \in Seq(Message),
           NEW ends \in Seq({None}),
           Len(msgs) > 0 => final[x] = None, Len(ends) > 0 => final'[x] # None,
           final'[x] = None => final[x] = None,
           \A y \in Execs \ {x} : final'[y] = final[y],
           buffer'[x] = buffer[x] \o msgs,
           \A y \in Execs \ {x} : buffer'[y] = buffer[y],
           \A f \in Forwarders : queue'[f] = IF f \in subs[x] THEN (queue[f] \o msgs) \o ends
                                             ELSE queue[f],
           UNCHANGED <<fwd, source, replay, got>>
    PROVE  StreamsInv'
<1>1. TypeOK
  BY DEF DeliveryInv, IInv
<1>2. \A y \in Execs : buffer[y] \in Seq(Message) /\ buffer[y] \in Seq(Sent)
  BY <1>1, SentinelIsNoMessage DEF TypeOK
<1>3. /\ buffer'[x] = buffer[x] \o msgs
      /\ \A y \in Execs \ {x} : buffer'[y] = buffer[y]
  OBVIOUS
<1>4. msgs \in Seq(Sent) /\ ends \in Seq(Sent)
  <2>1. msgs \in Seq(Sent)
    BY SentinelIsNoMessage
  <2>2. ends \in Seq(Sent)
    BY DEF Sent
  <2> QED BY <2>1, <2>2
<1>5. ASSUME NEW f \in Forwarders, Following(f), source[f] = x
      PROVE  ThenSentinels(buffer'[x], Stream(f)')
  <2>1. queue'[f] = (queue[f] \o msgs) \o ends
    BY <1>5 DEF DeliveryInv, ForwardersInv, Placed
  <2> DEFINE a == got[f] \o replay[f]
  <2>2. Stream(f)' = a \o ((queue[f] \o msgs) \o ends) /\ Stream(f) = a \o queue[f]
    BY <2>1 DEF Stream
  <2>3. a \in Seq(Sent) /\ queue[f] \in Seq(Sent) /\ Stream(f) \in Seq(Sent)
    BY <1>1, StreamTypes
  <2> HIDE DEF a
  <2>4. Len(msgs) > 0 => a \o queue[f] = buffer[x]
    BY <1>1, <1>5, <2>2, OpenStream DEF DeliveryInv
  <2>5. ThenSentinels(buffer[x], a \o queue[f])
    BY <1>5, <2>2 DEF DeliveryInv, StreamsInv, Delivers
  <2>6. ThenSentinels(buffer[x] \o msgs, a \o ((queue[f] \o msgs) \o ends))
    BY <1>2, <2>3, <2>4, <2>5, SaidToBoth, Zenon
  <2> QED BY <1>3, <2>2, <2>6
<1>6. ASSUME NEW f \in Forwarders, Following(f), source[f] # x
      PROVE  queue'[f] = queue[f] /\ Stream(f)' = Stream(f)
  <2>1. f \notin subs[x]
    BY <1>6 DEF DeliveryInv, ForwardersInv, Placed
  <2> QED BY <2>1 DEF Stream
<1>7. ASSUME NEW f \in Forwarders, Following(f)'
      PROVE  ThenSentinels(buffer[source[f]], Stream(f))'
  <2>1. Following(f) /\ source'[f] = source[f] /\ source[f] \in Execs
    BY <1>1, <1>7 DEF Following, TypeOK
  <2>2. CASE source[f] = x
    BY <1>5, <2>1, <2>2 DEF ThenSentinels
  <2>3. CASE source[f] # x
    <3>1. ThenSentinels(buffer[source[f]], Stream(f))
      BY <2>1 DEF DeliveryInv, StreamsInv, Delivers
    <3>2. buffer'[source'[f]] = buffer[source[f]] /\ Stream(f)' = Stream(f)
      BY <1>3, <1>6, <2>1, <2>3
    <3> QED BY <3>1, <3>2 DEF ThenSentinels
  <2> QED BY <2>2, <2>3
<1>8. ASSUME NEW f \in Forwarders, source'[f] # None
      PROVE  IsPrefix(got'[f], buffer'[source'[f]])
  <2>1. source'[f] = source[f] /\ source[f] \in Execs /\ got'[f] = got[f] /\ got[f] \in Seq(Message)
    BY <1>1, <1>8 DEF TypeOK
  <2>2. IsPrefix(got[f], buffer[source[f]])
    BY <1>8, <2>1 DEF DeliveryInv, StreamsInv, Delivers
  <2>3. CASE source[f] = x
    <3>1. IsPrefix(got[f], buffer[x] \o msgs)
      BY <1>2, <2>1, <2>2, <2>3, PrefixOfLonger
    <3> QED BY <1>3, <2>1, <2>3, <3>1
  <2>4. CASE source[f] # x
    BY <1>3, <2>1, <2>2, <2>4
  <2> QED BY <2>3, <2>4
<1>9. ASSUME NEW f \in Forwarders, Following(f)', final'[source'[f]] = None,
             NEW i \in DOMAIN queue'[f]
      PROVE  queue'[f][i] # None
  <2>1. Following(f) /\ source'[f] = source[f] /\ source[f] \in Execs /\ final[source[f]] = None
    BY <1>1, <1>9 DEF Following, TypeOK
  <2>2. \A j \in DOMAIN queue[f] : queue[f][j] # None
    BY <2>1 DEF DeliveryInv, StreamsInv, Delivers
  <2>3. CASE source[f] = x
    <3>1. ends = <<>> /\ queue'[f] = (queue[f] \o msgs) \o ends
      <4>1. Len(ends) = 0
        BY <1>9, <2>1, <2>3, LenProperties
      <4>2. ends = <<>>
        BY <4>1, EmptySeq
      <4> QED BY <2>1, <2>3, <4>2 DEF DeliveryInv, ForwardersInv, Placed
    <3>2. queue[f] \in Seq(Sent) /\ queue[f] \o msgs \in Seq(Sent)
      BY <1>1, <1>4, StreamTypes
    <3>3. queue'[f] = queue[f] \o msgs
      BY <3>1, <3>2, ConcatEmptySeq
    <3>4. /\ i \in 1..(Len(queue[f]) + Len(msgs)) /\ Len(queue[f]) \in Nat /\ Len(msgs) \in Nat
          /\ queue'[f][i] = IF i <= Len(queue[f]) THEN queue[f][i] ELSE msgs[i - Len(queue[f])]
          /\ DOMAIN queue[f] = 1..Len(queue[f])
      BY <1>4, <3>2, <3>3, ConcatProperties, LenProperties
    <3>5. CASE i <= Len(queue[f])
      BY <2>2, <3>4, <3>5
    <3>6. CASE ~(i <= Len(queue[f]))
      <4>1. i - Len(queue[f]) \in 1..Len(msgs)
        BY <3>4, <3>6
      <4>2. msgs[i - Len(queue[f])] \in Message
        BY <4>1, ElementOfSeq
      <4> QED BY <3>4, <3>6, <4>2, SentinelIsNoMessage
    <3> QED BY <3>5, <3>6
  <2>4. CASE source[f] # x
    BY <1>6, <2>1, <2>2, <2>4
  <2> QED BY <2>3, <2>4
<1> QED BY <1>7, <1>8, <1>9 DEF StreamsInv, Delivers

\* A run that executes says something, to its own record or to nobody.
LEMMA RunSpeaks ==
    ASSUME DeliveryInv, TypeOK', NEW x \in Execs, task[x] = "running", NEW msgs \in Seq(Message),
           buffer' = Logged(NotebookFor(x), msgs),
           \/ queue' = Broadcast(NotebookFor(x), msgs)
           \/ queue' = Woken(x, Broadcast(NotebookFor(x), msgs)) /\ final'[x] # None,
           final'[x] = None => final[x] = None,
           \A y \in Execs \ {x} : final'[y] = final[y],
           UNCHANGED <<fwd, source, replay, got>>
    PROVE  StreamsInv'
<1> DEFINE n == NotebookFor(x)
           said == IF final[x] = None THEN msgs ELSE <<>>
<1>1. TypeOK /\ IInv
  BY DEF DeliveryInv, IInv
<1>2. registry[n] = (IF final[x] = None THEN x ELSE None) /\ x # None
  BY DistinctAssumption DEF DeliveryInv, IInv, LockInv, RunningIsRegistered
<1>3. said \in Seq(Message) /\ (Len(said) > 0 => final[x] = None)
  BY LenProperties
<1>4. buffer \in [Execs -> Seq(Message)] /\ \A f \in Forwarders : queue[f] \in Seq(Sent)
  BY <1>1, StreamTypes DEF TypeOK
<1>5. buffer'[x] = buffer[x] \o said /\ \A y \in Execs \ {x} : buffer'[y] = buffer[y]
  <2>1. CASE final[x] = None
    BY <1>2, <1>4, <2>1 DEF Logged
  <2>2. CASE final[x] # None
    <3>1. buffer' = buffer /\ said = <<>>
      BY <1>2, <2>2 DEF Logged
    <3> QED BY <1>4, <3>1, ConcatEmptySeq
  <2> QED BY <2>1, <2>2
<1>6. ASSUME NEW f \in Forwarders
      PROVE  Broadcast(n, msgs)[f] = IF f \in subs[x] THEN queue[f] \o said ELSE queue[f]
  <2>1. CASE final[x] = None
    BY <1>2, <2>1 DEF Broadcast
  <2>2. CASE final[x] # None
    <3>1. Broadcast(n, msgs)[f] = queue[f] /\ said = <<>>
      BY <1>2, <2>2 DEF Broadcast
    <3> QED BY <1>4, <3>1, ConcatEmptySeq
  <2> QED BY <2>1, <2>2
<1>7. ASSUME NEW f \in Forwarders PROVE queue[f] \o said \in Seq(Sent)
  <2>1. said \in Seq(Sent)
    BY <1>3, SentinelIsNoMessage
  <2> QED BY <1>4, <2>1
<1> HIDE DEF said, n
<1>8. CASE queue' = Broadcast(n, msgs)
  <2>1. <<>> \in Seq({None}) /\ Len(<<>>) = 0
    OBVIOUS
  <2>2. \A f \in Forwarders : queue'[f] = IF f \in subs[x] THEN (queue[f] \o said) \o <<>>
                                          ELSE queue[f]
    BY <1>6, <1>7, <1>8, ConcatEmptySeq
  <2>3. ~(Len(<<>>) > 0)
    BY <2>1
  <2> QED BY <1>3, <1>5, <2>1, <2>2, <2>3, SayDelivers
<1>9. CASE queue' = Woken(x, Broadcast(n, msgs)) /\ final'[x] # None
  <2>1. <<None>> \in Seq({None}) /\ None \in Sent
    BY DEF Sent
  <2>2. ASSUME NEW f \in Forwarders
        PROVE  queue'[f] = IF f \in subs[x] THEN (queue[f] \o said) \o <<None>> ELSE queue[f]
    <3>1. CASE f \in subs[x]
      <4>1. queue'[f] = Append(queue[f] \o said, None)
        BY <1>6, <1>9, <3>1 DEF Woken
      <4> QED BY <1>7, <2>1, <3>1, <4>1, AppendIsConcat
    <3>2. CASE f \notin subs[x]
      BY <1>6, <1>9, <3>2 DEF Woken
    <3> QED BY <3>1, <3>2
  <2> QED BY <1>3, <1>5, <1>9, <2>1, <2>2, SayDelivers
<1> QED BY <1>8, <1>9 DEF n

\* Nobody's stream changes when what forwarders follow stays as it is.
LEMMA StreamsKept ==
    ASSUME StreamsInv, UNCHANGED <<fwd, source, replay, queue, got>>,
           \A f \in Forwarders : source[f] # None \/ Following(f) =>
               buffer'[source[f]] = buffer[source[f]] /\ final'[source[f]] = final[source[f]]
    PROVE  StreamsInv'
BY DEF StreamsInv, Delivers, Following, Stream, ThenSentinels

\* Some forwarders move; what the runs say and the other forwarders stay.
LEMMA SomeMove ==
    ASSUME StreamsInv, NEW F, UNCHANGED <<buffer, final>>,
           \A f \in Forwarders \ F : /\ fwd'[f] = fwd[f] /\ source'[f] = source[f]
                                     /\ replay'[f] = replay[f] /\ queue'[f] = queue[f]
                                     /\ got'[f] = got[f],
           \A f \in Forwarders \cap F : Delivers(f)'
    PROVE  StreamsInv'
<1> SUFFICES ASSUME NEW f \in Forwarders, f \notin F PROVE Delivers(f)'
  BY DEF StreamsInv
<1>1. Delivers(f)
  BY DEF StreamsInv
<1>2. Stream(f)' = Stream(f) /\ Following(f)' = Following(f)
  BY DEF Stream, Following
<1>3. /\ buffer'[source'[f]] = buffer[source[f]] /\ final'[source'[f]] = final[source[f]]
      /\ source'[f] = source[f] /\ got'[f] = got[f] /\ queue'[f] = queue[f]
  OBVIOUS
<1> QED BY <1>1, <1>2, <1>3 DEF Delivers, ThenSentinels

\* Forwarders stay where they are while runs and sockets go on.
LEMMA ForwardersStay ==
    ASSUME ForwardersInv, UNCHANGED <<subs, fwd, source, replay, got>>,
           \A f \in Forwarders : fwd[f] \in {"unused", "polling"} => queue'[f] = queue[f],
           \A x \in Execs : task[x] \in {"running", "done"} => task'[x] \in {"running", "done"},
           \A f \in Forwarders : source[f] # None => source[f] \in Execs,
           \A w \in Sockets : sock'[w] = "new" => sock[w] = "new"
    PROVE  ForwardersInv'
<1> SUFFICES ASSUME NEW f \in Forwarders PROVE Placed(f)'
  BY DEF ForwardersInv
<1>1. Placed(f)
  BY DEF ForwardersInv
<1>2. \A x \in Execs : f \in subs'[x] <=> Following(f)' /\ source'[f] = x
  BY <1>1 DEF Placed, Following
<1>3. fwd'[f] \in {"unused", "polling"} => got'[f] = <<>> /\ replay'[f] = <<>> /\ queue'[f] = <<>>
  BY <1>1 DEF Placed
<1>4. fwd'[f] = "live" => replay'[f] = <<>>
  BY <1>1 DEF Placed
<1>5. source'[f] # None => task'[source'[f]] \in {"running", "done"}
  BY <1>1 DEF Placed
<1>6. f \in Sockets /\ sock'[f] = "new" => fwd'[f] = "unused"
  BY <1>1 DEF Placed
<1> QED BY <1>2, <1>3, <1>4, <1>5, <1>6 DEF Placed

\* Some forwarders move; the others stay where they are.
LEMMA SomePlaced ==
    ASSUME ForwardersInv, NEW F,
           \A x \in Execs : task[x] \in {"running", "done"} => task'[x] = task[x],
           \A f \in Forwarders : source[f] # None => source[f] \in Execs,
           \A w \in Sockets : sock'[w] = "new" => sock[w] = "new",
           \A f \in Forwarders \ F : /\ fwd'[f] = fwd[f] /\ source'[f] = source[f]
                                     /\ replay'[f] = replay[f] /\ queue'[f] = queue[f]
                                     /\ got'[f] = got[f],
           \A f \in Forwarders \ F, x \in Execs : f \in subs'[x] <=> f \in subs[x],
           \A f \in Forwarders \cap F : Placed(f)'
    PROVE  ForwardersInv'
<1> SUFFICES ASSUME NEW f \in Forwarders, f \notin F PROVE Placed(f)'
  BY DEF ForwardersInv
<1>1. Placed(f)
  BY DEF ForwardersInv
<1>2. \A x \in Execs : f \in subs'[x] <=> Following(f)' /\ source'[f] = x
  BY <1>1 DEF Placed, Following
<1>3. fwd'[f] \in {"unused", "polling"} => got'[f] = <<>> /\ replay'[f] = <<>> /\ queue'[f] = <<>>
  BY <1>1 DEF Placed
<1>4. fwd'[f] = "live" => replay'[f] = <<>>
  BY <1>1 DEF Placed
<1>5. source'[f] # None => task'[source'[f]] \in {"running", "done"}
  BY <1>1 DEF Placed
<1>6. f \in Sockets /\ sock'[f] = "new" => fwd'[f] = "unused"
  BY <1>1 DEF Placed
<1> QED BY <1>2, <1>3, <1>4, <1>5, <1>6 DEF Placed

LEMMA Sources == ASSUME TypeOK, NEW f \in Forwarders, source[f] # None PROVE source[f] \in Execs
BY DEF TypeOK

\* Only a forwarder that follows is among a run's subscribers.
LEMMA IdleQueueStays ==
    ASSUME ForwardersInv, NEW x \in Execs, NEW f \in Forwarders, fwd[f] \in {"unused", "polling"}
    PROVE  f \notin subs[x]
BY DEF ForwardersInv, Placed, Following

LEMMA BroadcastToSubscribers ==
    ASSUME TypeOK, ForwardersInv, NEW n \in Notebooks, NEW x \in Execs, NEW msgs,
           queue' = Broadcast(n, msgs) \/ queue' = Woken(x, Broadcast(n, msgs)),
           NEW f \in Forwarders, fwd[f] \in {"unused", "polling"}
    PROVE  queue'[f] = queue[f]
<1>1. f \notin subs[x]
  BY IdleQueueStays
<1>2. registry[n] # None => f \notin subs[registry[n]]
  BY IdleQueueStays DEF TypeOK
<1>3. Broadcast(n, msgs)[f] = queue[f]
  BY <1>2 DEF Broadcast
<1> QED BY <1>1, <1>3 DEF Woken

-----------------------------------------------------------------------------
\* The runs.

LEMMA RelayDelivers ==
    ASSUME DeliveryInv, TypeOK', NEW x \in Execs,
           RelayError(x) \/ \E k \in {"output", "display"} : Relay(x, k)
    PROVE  ForwardersInv' /\ StreamsInv'
<1>1. PICK k \in {"output", "display", "error"} :
          /\ buffer' = Logged(NotebookFor(x), <<Msg(x, k)>>)
          /\ queue' = Broadcast(NotebookFor(x), <<Msg(x, k)>>)
  BY DEF Relay, RelayError
<1>2. /\ task[x] = "running"
      /\ UNCHANGED <<sock, task, final, subs, fwd, source, replay, got>>
  BY DEF Relay, RelayError, lockVars, sockVars
<1>3. <<Msg(x, k)>> \in Seq(Message)
  <2>1. Msg(x, k) \in Message
    BY MsgType DEF Kinds
  <2> QED BY <2>1
<1>4. TypeOK /\ NotebookFor(x) \in Notebooks
  BY <1>2, NotebookOfExec DEF DeliveryInv, IInv
<1>5. StreamsInv'
  BY <1>1, <1>2, <1>3, RunSpeaks
<1>6. \A f \in Forwarders : fwd[f] \in {"unused", "polling"} => queue'[f] = queue[f]
  BY <1>1, <1>4, BroadcastToSubscribers DEF DeliveryInv
<1>7. ForwardersInv'
  BY <1>2, <1>4, <1>6, ForwardersStay, Sources DEF DeliveryInv
<1> QED BY <1>5, <1>7

LEMMA InterruptDelivers ==
    ASSUME DeliveryInv, TypeOK', NEW w \in Sockets, Interrupt(w)
    PROVE  ForwardersInv' /\ StreamsInv'
<1> DEFINE n == NotebookOf[w]  x == registry[n]
<1>1. n \in Notebooks /\ x \in Execs /\ final[x] = None
  BY SocketsAssumption DEF Interrupt, DeliveryInv, IInv, TypeOK
<1>2. task[x] = "running" /\ NotebookFor(x) = n
  BY <1>1, DistinctAssumption DEF DeliveryInv, IInv, LockInv, RegisteredIsRunning
<1>3. /\ buffer' = Logged(n, <<Msg(x, "stopping")>>)
      /\ queue' = Broadcast(n, <<Msg(x, "stopping")>>)
      /\ UNCHANGED <<sock, task, final, subs, fwd, source, replay, got>>
  BY DEF Interrupt, lockVars, sockVars
<1>4. <<Msg(x, "stopping")>> \in Seq(Message)
  <2>1. Msg(x, "stopping") \in Message
    BY <1>1, MsgType DEF Kinds
  <2> QED BY <2>1
<1>5. TypeOK
  BY DEF DeliveryInv, IInv
<1> HIDE DEF n, x
<1>6. StreamsInv'
  BY <1>1, <1>2, <1>3, <1>4, RunSpeaks
<1>7. \A f \in Forwarders : fwd[f] \in {"unused", "polling"} => queue'[f] = queue[f]
  BY <1>1, <1>3, <1>5, BroadcastToSubscribers DEF DeliveryInv
<1>8. ForwardersInv'
  BY <1>3, <1>5, <1>7, ForwardersStay, Sources DEF DeliveryInv
<1> QED BY <1>6, <1>8

LEMMA FinalizeDelivers ==
    ASSUME DeliveryInv, TypeOK', NEW x \in Execs, NEW s \in FinalStates,
           NEW before \in {<<>>, <<Msg(x, "error")>>}, Finalize(x, s, before)
    PROVE  ForwardersInv' /\ StreamsInv'
<1> DEFINE n == NotebookFor(x)
           last == Append(before, Msg(x, s))
<1>1. TypeOK
  BY DEF DeliveryInv, IInv
<1>2. /\ task[x] = "running" /\ task' = [task EXCEPT ![x] = "done"]
      /\ final' = [final EXCEPT ![x] = s]
      /\ buffer' = Logged(n, last)
      /\ queue' = Broadcast(n, last) \/ queue' = Woken(x, Broadcast(n, last))
      /\ UNCHANGED <<sock, subs, fwd, source, replay, got>>
  BY DEF Finalize, sockVars
<1>3. n \in Notebooks
  BY <1>1, <1>2, NotebookOfExec
<1>4. /\ final'[x] # None /\ \A y \in Execs \ {x} : final'[y] = final[y]
      /\ \A y \in Execs : task[y] \in {"running", "done"} => task'[y] \in {"running", "done"}
  BY <1>1, <1>2, DistinctAssumption DEF TypeOK
<1>5. last \in Seq(Message)
  <2>1. Msg(x, s) \in Message /\ Msg(x, "error") \in Message
    BY MsgType DEF Kinds
  <2>2. before \in Seq(Message)
    <3>1. CASE before = <<>>
      BY <3>1
    <3>2. CASE before = <<Msg(x, "error")>>
      BY <2>1, <3>2
    <3> QED BY <3>1, <3>2
  <2> QED BY <2>1, <2>2, AppendProperties
<1> HIDE DEF n, last
<1>6. StreamsInv'
  BY <1>2, <1>4, <1>5, RunSpeaks DEF n
<1>7. \A f \in Forwarders : fwd[f] \in {"unused", "polling"} => queue'[f] = queue[f]
  BY <1>1, <1>2, <1>3, BroadcastToSubscribers DEF DeliveryInv
<1>8. ForwardersInv'
  BY <1>1, <1>2, <1>4, <1>7, ForwardersStay, Sources DEF DeliveryInv
<1> QED BY <1>6, <1>8

LEMMA ForceStopDelivers ==
    ASSUME DeliveryInv, TypeOK', NEW w \in Sockets, ForceStop(w)
    PROVE  ForwardersInv' /\ StreamsInv'
<1> DEFINE n == NotebookOf[w]  x == registry[n]
           last == <<Msg(x, "error"), Msg(x, "errored")>>
<1>1. TypeOK /\ n \in Notebooks
  BY SocketsAssumption DEF DeliveryInv, IInv
<1>2. /\ UNCHANGED <<task, subs, fwd, source, replay, got>>
      /\ \A v \in Sockets : sock'[v] = "new" => sock[v] = "new"
  BY <1>1 DEF ForceStop, lockVars, TypeOK
<1>3. CASE x # None /\ final[x] = None
  <2>1. x \in Execs /\ task[x] = "running" /\ NotebookFor(x) = n
    BY <1>1, <1>3 DEF TypeOK, DeliveryInv, IInv, LockInv, RegisteredIsRunning
  <2>2. /\ buffer' = Logged(n, last) /\ queue' = Woken(x, Broadcast(n, last))
        /\ final' = [final EXCEPT ![x] = "errored"]
    BY <1>3 DEF ForceStop
  <2>3. last \in Seq(Message)
    <3>1. Msg(x, "error") \in Message /\ Msg(x, "errored") \in Message
      BY <2>1, MsgType DEF Kinds, FinalStates
    <3> QED BY <3>1
  <2> HIDE DEF n, x, last
  <2>4. final'[x] # None /\ \A y \in Execs \ {x} : final'[y] = final[y]
    BY <1>1, <2>1, <2>2, DistinctAssumption DEF TypeOK, FinalStates
  <2>5. StreamsInv'
    BY <1>2, <2>1, <2>2, <2>3, <2>4, RunSpeaks
  <2>6. \A f \in Forwarders : fwd[f] \in {"unused", "polling"} => queue'[f] = queue[f]
    BY <1>1, <2>1, <2>2, BroadcastToSubscribers DEF DeliveryInv
  <2>7. ForwardersInv'
    BY <1>1, <1>2, <2>6, ForwardersStay, Sources DEF DeliveryInv
  <2> QED BY <2>5, <2>7
<1>4. CASE ~(x # None /\ final[x] = None)
  <2>1. UNCHANGED <<buffer, queue, final>>
    BY <1>4 DEF ForceStop
  <2>2. StreamsInv'
    BY <1>2, <2>1, StreamsKept DEF DeliveryInv
  <2>3. ForwardersInv'
    BY <1>1, <1>2, <2>1, ForwardersStay, Sources DEF DeliveryInv
  <2> QED BY <2>2, <2>3
<1> QED BY <1>3, <1>4

\* Nobody follows a run before it starts.
LEMMA StartDelivers ==
    ASSUME DeliveryInv, NEW x \in Execs, Start(x)
    PROVE  ForwardersInv' /\ StreamsInv'
<1>1. TypeOK
  BY DEF DeliveryInv, IInv
<1>2. /\ task[x] = "queued" /\ task' = [task EXCEPT ![x] = "running"]
      /\ buffer' = [buffer EXCEPT ![x] = <<Msg(x, "running")>>]
      /\ UNCHANGED <<sock, final, subs, fwd, source, replay, queue, got>>
  BY DEF Start, sockVars, fwdVars
<1>3. ASSUME NEW f \in Forwarders, source[f] # None \/ Following(f)
      PROVE  source[f] \in Execs \ {x}
  <2>1. source[f] \in Execs
    BY <1>1, <1>3 DEF TypeOK, Following
  <2>2. source[f] # None
    BY <2>1, DistinctAssumption
  <2> QED BY <1>2, <2>1, <2>2 DEF DeliveryInv, ForwardersInv, Placed
<1>4. \A y \in Execs \ {x} : buffer'[y] = buffer[y]
  BY <1>1, <1>2 DEF TypeOK
<1>5. StreamsInv'
  BY <1>2, <1>3, <1>4, StreamsKept DEF DeliveryInv
<1>6. \A y \in Execs : task[y] \in {"running", "done"} => task'[y] \in {"running", "done"}
  BY <1>1, <1>2 DEF TypeOK
<1>7. ForwardersInv'
  BY <1>1, <1>2, <1>6, ForwardersStay, Sources DEF DeliveryInv
<1> QED BY <1>5, <1>7

-----------------------------------------------------------------------------
\* The forwarders.

\* What is sent and still to replay is the beginning of what was said.
LEMMA InOrder ==
    ASSUME NEW said \in Seq(Message), NEW g \in Seq(Message), NEW r \in Seq(Message),
           NEW q \in Seq(Sent), ThenSentinels(said, (g \o r) \o q)
    PROVE  IsPrefix(g, said)
<1> DEFINE a == g \o r
<1>1. /\ a \in Seq(Message) /\ Len(a) = Len(g) + Len(r) /\ Len(g) \in Nat /\ Len(r) \in Nat
      /\ \A i \in 1..(Len(g) + Len(r)) : a[i] = IF i <= Len(g) THEN g[i] ELSE r[i - Len(g)]
  BY ConcatProperties
<1>2. a \in Seq(Sent) /\ said \in Seq(Sent)
  BY <1>1, SentinelIsNoMessage
<1> HIDE DEF a
<1>3. /\ a \o q \in Seq(Sent) /\ Len(a \o q) = Len(a) + Len(q) /\ Len(q) \in Nat
      /\ \A i \in 1..(Len(a) + Len(q)) : (a \o q)[i] = IF i <= Len(a) THEN a[i] ELSE q[i - Len(a)]
      /\ DOMAIN (a \o q) = 1..(Len(a) + Len(q))
  BY <1>2, ConcatProperties, LenProperties
<1>4. ThenSentinels(said, a \o q)
  BY DEF a
<1>5. Len(said) \in Nat /\ \A i \in 1..Len(said) : said[i] = (a \o q)[i]
  <2>1. IsPrefix(said, a \o q)
    BY <1>4 DEF ThenSentinels
  <2> DEFINE t == a \o q
  <2>2. t \in Seq(Sent) /\ IsPrefix(said, t)
    BY <1>3, <2>1
  <2> HIDE DEF t
  <2>3. Len(said) \in Nat /\ \A i \in 1..Len(said) : said[i] = t[i]
    BY <1>2, <2>2, PrefixIsPointwise, LenProperties
  <2> QED BY <2>3 DEF t
<1>6. Len(a) <= Len(said)
  <2> SUFFICES ASSUME Len(a) > Len(said) PROVE FALSE
    BY <1>1, <1>5
  <2>1. Len(a) \in 1..(Len(a) + Len(q)) /\ Len(a) \in 1..Len(a)
    BY <1>1, <1>3, <1>5
  <2>2. (a \o q)[Len(a)] = a[Len(a)]
    BY <1>3, <2>1
  <2>3. (a \o q)[Len(a)] = None
    BY <1>3, <1>4, <2>1 DEF ThenSentinels
  <2>4. a[Len(a)] \in Message
    BY <1>1, <2>1, ElementOfSeq
  <2> QED BY <2>2, <2>3, <2>4, SentinelIsNoMessage
<1>7. ASSUME NEW i \in 1..Len(g) PROVE g[i] = said[i]
  <2>1. i \in 1..Len(said) /\ i \in 1..(Len(a) + Len(q)) /\ i \in 1..(Len(g) + Len(r))
        /\ i <= Len(a) /\ i <= Len(g)
    BY <1>1, <1>3, <1>5, <1>6
  <2> QED BY <1>1, <1>3, <1>5, <2>1
<1>8. Len(g) <= Len(said)
  BY <1>1, <1>5, <1>6
<1> QED BY <1>7, <1>8, PrefixIsPointwise

LEMMA EmptyIsPrefix == ASSUME NEW S, NEW s \in Seq(S) PROVE IsPrefix(<<>>, s)
<1>1. <<>> \in Seq(S) /\ Len(<<>>) = 0 /\ Len(s) \in Nat
  BY LenProperties
<1>2. Len(<<>>) <= Len(s) /\ \A i \in 1..Len(<<>>) : <<>>[i] = s[i]
  BY <1>1
<1> DEFINE e == <<>>
<1>3. e \in Seq(S) /\ Len(e) <= Len(s) /\ \A i \in 1..Len(e) : e[i] = s[i]
  BY <1>1, <1>2
<1> HIDE DEF e
<1>4. IsPrefix(e, s)
  BY <1>3, PrefixIsPointwise
<1> QED BY <1>4 DEF e

\* A forwarder that follows and whose stream stays what it was sends in order.
LEMMA StreamStays ==
    ASSUME TypeOK, TypeOK', StreamsInv, UNCHANGED <<buffer, final>>,
           NEW f \in Forwarders, Following(f), Following(f)', source'[f] = source[f],
           Stream(f)' = Stream(f),
           final[source[f]] = None => \A i \in DOMAIN queue'[f] : queue'[f][i] # None
    PROVE  Delivers(f)'
<1>1. source[f] \in Execs /\ buffer[source[f]] \in Seq(Message)
  BY DEF TypeOK, Following
<1>2. ThenSentinels(buffer[source[f]], Stream(f)')
  BY DEF StreamsInv, Delivers
<1>3. /\ got'[f] \in Seq(Message) /\ replay'[f] \in Seq(Message) /\ queue'[f] \in Seq(Sent)
      /\ Stream(f)' = (got'[f] \o replay'[f]) \o queue'[f]
  BY DEF TypeOK, Sent, Stream
<1>4. IsPrefix(got'[f], buffer[source[f]])
  BY <1>1, <1>2, <1>3, InOrder
<1> QED BY <1>2, <1>4 DEF Delivers, ThenSentinels

\* A forwarder that has left keeps what it sent, or lost it with its page.
LEMMA LeftDelivers ==
    ASSUME TypeOK, StreamsInv, UNCHANGED <<buffer, final>>,
           NEW f \in Forwarders, ~Following(f)', source'[f] = source[f],
           got'[f] = got[f] \/ got'[f] = <<>>
    PROVE  Delivers(f)'
<1>1. ASSUME source'[f] # None PROVE IsPrefix(got'[f], buffer'[source'[f]])
  <2>1. buffer[source[f]] \in Seq(Message) /\ buffer'[source'[f]] = buffer[source[f]]
    BY <1>1, Sources DEF TypeOK
  <2>2. CASE got'[f] = got[f]
    BY <1>1, <2>1, <2>2 DEF StreamsInv, Delivers
  <2>3. CASE got'[f] = <<>>
    BY <2>1, <2>3, EmptyIsPrefix
  <2> QED BY <2>2, <2>3
<1> QED BY <1>1 DEF Delivers

LEMMA SubscribeDelivers ==
    ASSUME DeliveryInv, TypeOK', NEW f \in Forwarders, Subscribe(f)
    PROVE  ForwardersInv' /\ StreamsInv'
<1> DEFINE n == NotebookFor(f)  x == registry[n]
<1>1. TypeOK /\ n \in Notebooks
  <2>1. TypeOK
    BY DEF DeliveryInv, IInv
  <2>2. CASE f \in Sockets
    BY <2>1, <2>2, SocketsAssumption DEF NotebookFor, SocketOf
  <2>3. CASE f \in Execs
    <3>1. task[f] # "unused"
      BY <2>1, <2>3 DEF Subscribe, TypeOK
    <3> QED BY <2>1, <2>3, <3>1, NotebookOfExec
  <2> QED BY <2>1, <2>2, <2>3 DEF Forwarders
<1>2. x \in Execs /\ task[x] \in {"running", "done"} /\ x # None
  BY <1>1, DistinctAssumption
     DEF Subscribe, TypeOK, DeliveryInv, IInv, LockInv, RegisteredIsRunning
<1>3. /\ fwd[f] = "polling" /\ fwd' = [fwd EXCEPT ![f] = "replaying"]
      /\ source' = [source EXCEPT ![f] = x]
      /\ replay' = [replay EXCEPT ![f] = buffer[x]]
      /\ subs' = [subs EXCEPT ![x] = @ \cup {f}]
      /\ UNCHANGED <<sock, task, buffer, final, queue, got>>
  BY DEF Subscribe, Snapshot, sockVars, lockVars
<1> HIDE DEF n, x
<1>4. got[f] = <<>> /\ queue[f] = <<>> /\ \A y \in Execs : f \notin subs[y]
  BY <1>3, IdleQueueStays DEF DeliveryInv, ForwardersInv, Placed
<1>5. /\ fwd'[f] = "replaying" /\ source'[f] = x /\ replay'[f] = buffer[x]
      /\ got'[f] = <<>> /\ queue'[f] = <<>>
      /\ \A g \in Forwarders \ {f} : /\ fwd'[g] = fwd[g] /\ source'[g] = source[g]
                                     /\ replay'[g] = replay[g]
  BY <1>1, <1>3, <1>4 DEF TypeOK
<1>6. /\ subs'[x] = subs[x] \cup {f} /\ \A y \in Execs \ {x} : subs'[y] = subs[y]
  <2>1. subs \in [Execs -> SUBSET Forwarders]
    BY <1>1 DEF TypeOK
  <2> QED BY <1>2, <1>3, <2>1
<1>7. Placed(f)'
  <2>1. Following(f)'
    BY <1>5 DEF Following
  <2>2. ASSUME NEW y \in Execs PROVE f \in subs'[y] <=> Following(f)' /\ source'[f] = y
    <3>1. CASE y = x
      BY <1>5, <1>6, <2>1, <3>1
    <3>2. CASE y # x
      BY <1>4, <1>5, <1>6, <3>2
    <3> QED BY <3>1, <3>2
  <2>3. source'[f] # None => task'[source'[f]] \in {"running", "done"}
    BY <1>2, <1>3, <1>5
  <2>4. fwd'[f] \notin {"unused", "polling"} /\ fwd'[f] # "live"
    BY <1>5
  <2>5. ~(f \in Sockets /\ sock'[f] = "new")
    BY <1>3 DEF DeliveryInv, ForwardersInv, Placed
  <2> QED BY <2>2, <2>3, <2>4, <2>5 DEF Placed
<1>8. ForwardersInv'
  <2>1. \A g \in Forwarders \ {f}, y \in Execs : g \in subs'[y] <=> g \in subs[y]
    BY <1>6
  <2>2. \A g \in Forwarders \ {f} : queue'[g] = queue[g] /\ got'[g] = got[g]
    BY <1>3
  <2>3. \A g \in Forwarders : source[g] # None => source[g] \in Execs
    BY <1>1, Sources
  <2>4. \A g \in Forwarders \cap {f} : Placed(g)'
    BY <1>7
  <2> QED BY <1>3, <1>5, <2>1, <2>2, <2>3, <2>4, SomePlaced DEF DeliveryInv
<1>9. Delivers(f)'
  <2>1. buffer[x] \in Seq(Message) /\ buffer'[x] = buffer[x]
    BY <1>1, <1>2, <1>3 DEF TypeOK
  <2>2. Stream(f)' = (<<>> \o buffer[x]) \o <<>>
    BY <1>5 DEF Stream
  <2>3. (<<>> \o buffer[x]) \o <<>> = buffer[x]
    BY <2>1, ConcatEmptySeq
  <2>4. ThenSentinels(buffer[x], Stream(f)')
    BY <2>1, <2>2, <2>3, NothingBehind
  <2>5. IsPrefix(got'[f], buffer[x])
    BY <1>5, <2>1, EmptyIsPrefix
  <2>6. \A i \in DOMAIN queue'[f] : queue'[f][i] # None
    BY <1>5
  <2> QED BY <1>5, <2>1, <2>4, <2>5, <2>6 DEF Delivers, ThenSentinels
<1>10. StreamsInv'
  <2>1. \A g \in Forwarders \ {f} : queue'[g] = queue[g] /\ got'[g] = got[g]
    BY <1>3
  <2>2. \A g \in Forwarders \cap {f} : Delivers(g)'
    BY <1>9
  <2> QED BY <1>3, <1>5, <2>1, <2>2, SomeMove DEF DeliveryInv
<1> QED BY <1>8, <1>10

\* One forwarder moves on, or leaves.
LEMMA OneMoves ==
    ASSUME DeliveryInv, NEW f \in Forwarders, Placed(f)', Delivers(f)',
           UNCHANGED <<sock, task, buffer, final, source>>,
           \A g \in Forwarders \ {f} : /\ fwd'[g] = fwd[g] /\ replay'[g] = replay[g]
                                       /\ queue'[g] = queue[g] /\ got'[g] = got[g],
           \A g \in Forwarders \ {f}, x \in Execs : g \in subs'[x] <=> g \in subs[x]
    PROVE  ForwardersInv' /\ StreamsInv'
<1>1. \A g \in Forwarders : source[g] # None => source[g] \in Execs
  BY Sources DEF DeliveryInv, IInv
<1>2. \A g \in Forwarders \cap {f} : Placed(g)' /\ Delivers(g)'
  OBVIOUS
<1>3. /\ \A g \in Forwarders \ {f} : source'[g] = source[g]
      /\ \A w \in Sockets : sock'[w] = "new" => sock[w] = "new"
      /\ \A x \in Execs : task[x] \in {"running", "done"} => task'[x] = task[x]
  OBVIOUS
<1>4. ForwardersInv'
  BY <1>1, <1>2, <1>3, SomePlaced DEF DeliveryInv
<1>5. StreamsInv'
  BY <1>2, <1>3, SomeMove DEF DeliveryInv
<1> QED BY <1>4, <1>5

LEMMA GiveUpDelivers ==
    ASSUME DeliveryInv, NEW f \in Forwarders, GiveUp(f)
    PROVE  ForwardersInv' /\ StreamsInv'
<1>1. TypeOK /\ ForwardersInv /\ StreamsInv
  BY DEF DeliveryInv, IInv
<1>2. /\ fwd[f] = "polling" /\ fwd' = [fwd EXCEPT ![f] = "timedout"]
      /\ UNCHANGED <<sock, task, buffer, final, subs, source, replay, queue, got>>
  BY DEF GiveUp, sockVars, lockVars, recVars
<1>3. fwd'[f] = "timedout" /\ \A g \in Forwarders \ {f} : fwd'[g] = fwd[g]
  BY <1>1, <1>2 DEF TypeOK
<1>4. ~Following(f)' /\ \A x \in Execs : f \notin subs'[x]
  BY <1>1, <1>2, <1>3, IdleQueueStays DEF Following
<1>5. Placed(f)
  BY <1>1 DEF ForwardersInv
<1>6. Placed(f)'
  BY <1>2, <1>3, <1>4, <1>5 DEF Placed
<1>7. Delivers(f)'
  BY <1>1, <1>2, <1>4, LeftDelivers
<1> QED BY <1>2, <1>3, <1>6, <1>7, OneMoves

LEMMA SendReplayDelivers ==
    ASSUME DeliveryInv, TypeOK', NEW f \in Forwarders, SendReplay(f)
    PROVE  ForwardersInv' /\ StreamsInv'
<1>1. TypeOK /\ ForwardersInv /\ StreamsInv
  BY DEF DeliveryInv, IInv
<1>2. /\ fwd[f] = "replaying" /\ replay[f] # <<>>
      /\ got' = [got EXCEPT ![f] = Append(@, Head(replay[f]))]
      /\ replay' = [replay EXCEPT ![f] = Tail(@)]
      /\ UNCHANGED <<sock, task, buffer, final, subs, fwd, source, queue>>
  BY DEF SendReplay, sockVars, lockVars, recVars
<1>3. /\ got'[f] = Append(got[f], Head(replay[f])) /\ replay'[f] = Tail(replay[f])
      /\ \A g \in Forwarders \ {f} : got'[g] = got[g] /\ replay'[g] = replay[g]
  BY <1>1, <1>2 DEF TypeOK
<1>4. Stream(f)' = Stream(f)
  <2>1. got[f] \in Seq(Message) /\ replay[f] \in Seq(Message)
    BY <1>1, StreamTypes
  <2> DEFINE g == got[f]  r == replay[f]
  <2>2. g \in Seq(Message) /\ r \in Seq(Message) /\ r # <<>>
    BY <1>2, <2>1
  <2>3. got'[f] = Append(g, Head(r)) /\ replay'[f] = Tail(r)
    BY <1>3
  <2> HIDE DEF g, r
  <2>4. Append(g, Head(r)) \o Tail(r) = g \o r
    BY <2>2, HeadMoves
  <2>5. got'[f] \o replay'[f] = g \o r
    BY <2>3, <2>4, Zenon
  <2> QED BY <1>2, <2>5 DEF Stream, g, r
<1>5. Following(f) /\ Following(f)'
  BY <1>2 DEF Following
<1>6. final[source[f]] = None => \A i \in DOMAIN queue'[f] : queue'[f][i] # None
  BY <1>1, <1>2, <1>5 DEF StreamsInv, Delivers
<1>7. Delivers(f)'
  BY <1>1, <1>2, <1>4, <1>5, <1>6, StreamStays
<1>8. Placed(f)'
  BY <1>1, <1>2 DEF ForwardersInv, Placed, Following
<1> QED BY <1>2, <1>3, <1>7, <1>8, OneMoves

LEMMA SendLiveDelivers ==
    ASSUME DeliveryInv, TypeOK', NEW f \in Forwarders, SendLive(f)
    PROVE  ForwardersInv' /\ StreamsInv'
<1>1. TypeOK /\ ForwardersInv /\ StreamsInv
  BY DEF DeliveryInv, IInv
<1>2. /\ fwd[f] = "live" /\ queue[f] # <<>>
      /\ got' = [got EXCEPT ![f] = Append(@, Head(queue[f]))]
      /\ queue' = [queue EXCEPT ![f] = Tail(@)]
      /\ UNCHANGED <<sock, task, buffer, final, subs, fwd, source, replay>>
  BY DEF SendLive, sockVars, lockVars, recVars
<1>3. /\ got'[f] = Append(got[f], Head(queue[f])) /\ queue'[f] = Tail(queue[f])
      /\ \A g \in Forwarders \ {f} : got'[g] = got[g] /\ queue'[g] = queue[g]
  BY <1>1, <1>2 DEF TypeOK
<1>4. Following(f) /\ Following(f)' /\ replay[f] = <<>> /\ replay'[f] = <<>>
  BY <1>1, <1>2 DEF Following, ForwardersInv, Placed
<1>5. got[f] \in Seq(Sent) /\ queue[f] \in Seq(Sent) /\ got'[f] \in Seq(Sent)
  <2>1. got[f] \in Seq(Sent) /\ queue[f] \in Seq(Sent)
    BY <1>1, StreamTypes
  <2>2. got'[f] \in Seq(Message)
    BY DEF TypeOK
  <2> QED BY <2>1, <2>2, SentinelIsNoMessage
<1>6. Stream(f)' = Stream(f)
  <2>1. got[f] \o replay[f] = got[f] /\ got'[f] \o replay'[f] = got'[f]
    BY <1>4, <1>5, ConcatEmptySeq
  <2> DEFINE g == got[f]  q == queue[f]
  <2>2. g \in Seq(Sent) /\ q \in Seq(Sent) /\ q # <<>>
    BY <1>2, <1>5
  <2>3. got'[f] = Append(g, Head(q)) /\ queue'[f] = Tail(q)
    BY <1>3
  <2> HIDE DEF g, q
  <2>4. Append(g, Head(q)) \o Tail(q) = g \o q
    BY <2>2, HeadMoves
  <2>5. got'[f] \o queue'[f] = g \o q
    BY <2>3, <2>4, Zenon
  <2> QED BY <2>1, <2>5 DEF Stream, g, q
<1>7. final[source[f]] = None => \A i \in DOMAIN queue'[f] : queue'[f][i] # None
  <2>1. SUFFICES ASSUME final[source[f]] = None, NEW i \in DOMAIN queue'[f]
                 PROVE  queue'[f][i] # None
    OBVIOUS
  <2>2. \A j \in DOMAIN queue[f] : queue[f][j] # None
    BY <1>1, <1>4, <2>1 DEF StreamsInv, Delivers
  <2>3. /\ queue'[f] \in Seq(Sent) /\ Len(queue'[f]) = Len(queue[f]) - 1
        /\ \A j \in 1..Len(queue'[f]) : queue'[f][j] = queue[f][j + 1]
    <3> DEFINE q == queue[f]
    <3>1. q \in Seq(Sent) /\ q # <<>> /\ queue'[f] = Tail(q)
      BY <1>2, <1>3, <1>5
    <3> HIDE DEF q
    <3>2. /\ Tail(q) \in Seq(Sent) /\ Len(Tail(q)) = Len(q) - 1
          /\ \A j \in 1..Len(Tail(q)) : Tail(q)[j] = q[j + 1]
      BY <3>1, HeadTailProperties
    <3> QED BY <3>1, <3>2 DEF q
  <2>4. /\ i \in 1..Len(queue'[f]) /\ Len(queue[f]) \in Nat
        /\ DOMAIN queue[f] = 1..Len(queue[f])
    BY <1>5, <2>3, LenProperties
  <2>5. i + 1 \in DOMAIN queue[f]
    BY <2>3, <2>4
  <2> QED BY <2>2, <2>3, <2>4, <2>5
<1>8. Delivers(f)'
  BY <1>1, <1>2, <1>4, <1>6, <1>7, StreamStays
<1>9. Placed(f)'
  BY <1>1, <1>2, <1>4 DEF ForwardersInv, Placed, Following
<1> QED BY <1>2, <1>3, <1>8, <1>9, OneMoves

\* A forwarder that returns leaves its record and its queue.
LEMMA ReturnDelivers ==
    ASSUME DeliveryInv, NEW f \in Forwarders, Following(f),
           fwd' = [fwd EXCEPT ![f] = "done"],
           subs' = [subs EXCEPT ![source[f]] = @ \ {f}],
           queue' = [queue EXCEPT ![f] = <<>>],
           UNCHANGED <<sock, task, buffer, final, source, replay, got>>
    PROVE  ForwardersInv' /\ StreamsInv'
<1>1. TypeOK /\ ForwardersInv /\ StreamsInv
  BY DEF DeliveryInv, IInv
<1>2. /\ fwd'[f] = "done" /\ \A g \in Forwarders \ {f} : fwd'[g] = fwd[g]
      /\ \A g \in Forwarders \ {f} : queue'[g] = queue[g]
  BY <1>1 DEF TypeOK
<1>3. /\ source[f] \in Execs /\ subs'[source[f]] = subs[source[f]] \ {f}
      /\ \A y \in Execs \ {source[f]} : subs'[y] = subs[y]
  <2>1. subs \in [Execs -> SUBSET Forwarders] /\ source[f] \in Execs
    BY <1>1 DEF TypeOK, Following
  <2> QED BY <2>1
<1>4. ~Following(f)'
  BY <1>2 DEF Following
<1>5. \A y \in Execs : f \notin subs'[y]
  BY <1>1, <1>3 DEF ForwardersInv, Placed
<1>6. \A g \in Forwarders \ {f}, y \in Execs : g \in subs'[y] <=> g \in subs[y]
  BY <1>3
<1>7. Placed(f)'
  <2>1. source'[f] # None => task'[source'[f]] \in {"running", "done"}
    BY <1>1 DEF ForwardersInv, Placed
  <2>2. ~(f \in Sockets /\ sock'[f] = "new")
    BY <1>1 DEF ForwardersInv, Placed, Following
  <2> QED BY <1>2, <1>4, <1>5, <2>1, <2>2 DEF Placed
<1>8. Delivers(f)'
  BY <1>1, <1>4, LeftDelivers
<1> QED BY <1>2, <1>6, <1>7, <1>8, OneMoves

LEMMA EndReplayDelivers ==
    ASSUME DeliveryInv, TypeOK', NEW f \in Forwarders, EndReplay(f)
    PROVE  ForwardersInv' /\ StreamsInv'
<1>1. TypeOK /\ ForwardersInv /\ StreamsInv
  BY DEF DeliveryInv, IInv
<1>2. /\ fwd[f] = "replaying" /\ replay[f] = <<>>
      /\ UNCHANGED <<sock, task, buffer, final, source, replay, got>>
  BY DEF EndReplay, sockVars, lockVars
<1>3. CASE final[source[f]] # None
  <2>1. /\ fwd' = [fwd EXCEPT ![f] = "done"]
        /\ subs' = [subs EXCEPT ![source[f]] = @ \ {f}]
        /\ queue' = [queue EXCEPT ![f] = <<>>]
    BY <1>3 DEF EndReplay
  <2> QED BY <1>2, <2>1, ReturnDelivers DEF Following
<1>4. CASE final[source[f]] = None
  <2>1. fwd' = [fwd EXCEPT ![f] = "live"] /\ UNCHANGED <<subs, queue>>
    BY <1>4 DEF EndReplay
  <2>2. fwd'[f] = "live" /\ \A g \in Forwarders \ {f} : fwd'[g] = fwd[g]
    BY <1>1, <2>1 DEF TypeOK
  <2>3. Following(f) /\ Following(f)'
    BY <1>2, <2>2 DEF Following
  <2>4. Placed(f)
    BY <1>1 DEF ForwardersInv
  <2>5. Placed(f)'
    <3>1. \A x \in Execs : f \in subs'[x] <=> Following(f)' /\ source'[f] = x
      BY <1>2, <2>1, <2>3, <2>4 DEF Placed
    <3>2. source'[f] # None => task'[source'[f]] \in {"running", "done"}
      BY <1>2, <2>4 DEF Placed
    <3>3. ~(f \in Sockets /\ sock'[f] = "new")
      BY <1>2, <2>4 DEF Placed
    <3>4. replay'[f] = <<>>
      BY <1>2
    <3> QED BY <2>2, <3>1, <3>2, <3>3, <3>4 DEF Placed
  <2>6. Stream(f)' = Stream(f) /\ queue'[f] = queue[f]
    BY <1>2, <2>1 DEF Stream
  <2>7. final[source[f]] = None => \A i \in DOMAIN queue'[f] : queue'[f][i] # None
    BY <1>1, <2>3, <2>6 DEF StreamsInv, Delivers
  <2>8. Delivers(f)'
    BY <1>1, <1>2, <2>3, <2>6, <2>7, StreamStays
  <2>9. /\ \A g \in Forwarders \ {f} : /\ fwd'[g] = fwd[g] /\ replay'[g] = replay[g]
                                       /\ queue'[g] = queue[g] /\ got'[g] = got[g]
        /\ \A g \in Forwarders \ {f}, x \in Execs : g \in subs'[x] <=> g \in subs[x]
    BY <1>2, <2>1, <2>2
  <2> QED BY <1>2, <2>5, <2>8, <2>9, OneMoves
<1> QED BY <1>3, <1>4

LEMMA EndLiveDelivers ==
    ASSUME DeliveryInv, NEW f \in Forwarders, EndLive(f)
    PROVE  ForwardersInv' /\ StreamsInv'
<1>1. /\ Following(f) /\ fwd' = [fwd EXCEPT ![f] = "done"]
      /\ subs' = [subs EXCEPT ![source[f]] = @ \ {f}]
      /\ queue' = [queue EXCEPT ![f] = <<>>]
      /\ UNCHANGED <<sock, task, buffer, final, source, replay, got>>
  BY DEF EndLive, Following, sockVars, lockVars
<1> QED BY <1>1, ReturnDelivers

-----------------------------------------------------------------------------
\* The sockets.

LEMMA CancelDelivers ==
    ASSUME DeliveryInv, NEW w \in Sockets, Disconnect(w) \/ ForceStopped(w)
    PROVE  ForwardersInv' /\ StreamsInv'
<1> DEFINE F == {f \in Forwarders : /\ fwd[f] \in {"polling", "replaying", "live"}
                                    /\ SocketOf(f) = w}
<1>1. TypeOK /\ ForwardersInv /\ StreamsInv
  BY DEF DeliveryInv, IInv
<1>2. /\ CancelForwarders(w) /\ sock' = [sock EXCEPT ![w] = "closed"]
      /\ UNCHANGED <<task, buffer, final, source>>
  BY DEF Disconnect, ForceStopped, lockVars
<1>3. /\ fwd' = [f \in Forwarders |-> IF f \in F THEN "cancelled" ELSE fwd[f]]
      /\ subs' = [x \in Execs |-> subs[x] \ F]
      /\ replay' = [f \in Forwarders |-> IF f \in F THEN <<>> ELSE replay[f]]
      /\ queue' = [f \in Forwarders |-> IF f \in F THEN <<>> ELSE queue[f]]
      /\ got' = [f \in Forwarders |-> IF f \in F THEN <<>> ELSE got[f]]
  BY <1>2 DEF CancelForwarders
<1>4. \A f \in Forwarders \cap F : fwd[f] # "unused"
  OBVIOUS
<1>5. \A v \in Sockets : sock'[v] = "new" => sock[v] = "new"
  BY <1>1, <1>2 DEF TypeOK
<1> HIDE DEF F
<1>6. /\ \A f \in Forwarders \ F : /\ fwd'[f] = fwd[f] /\ source'[f] = source[f]
                                   /\ replay'[f] = replay[f] /\ queue'[f] = queue[f]
                                   /\ got'[f] = got[f]
      /\ \A f \in Forwarders \ F, x \in Execs : f \in subs'[x] <=> f \in subs[x]
  BY <1>2, <1>3
<1>7. ASSUME NEW f \in Forwarders \cap F PROVE Placed(f)' /\ Delivers(f)'
  <2>1. /\ fwd'[f] = "cancelled" /\ got'[f] = <<>> /\ \A x \in Execs : f \notin subs'[x]
        /\ source'[f] = source[f]
    BY <1>2, <1>3
  <2>2. ~Following(f)'
    BY <2>1 DEF Following
  <2>3. Placed(f)
    BY <1>1 DEF ForwardersInv
  <2>4. source'[f] # None => task'[source'[f]] \in {"running", "done"}
    BY <1>2, <2>3 DEF Placed
  <2>5. ~(f \in Sockets /\ sock'[f] = "new")
    BY <1>4, <1>5, <2>3 DEF Placed
  <2>6. Placed(f)'
    BY <2>1, <2>2, <2>4, <2>5 DEF Placed
  <2>7. Delivers(f)'
    BY <1>1, <1>2, <2>1, <2>2, LeftDelivers
  <2> QED BY <2>6, <2>7
<1>8. \A f \in Forwarders : source[f] # None => source[f] \in Execs
  BY <1>1, Sources
<1>9. ForwardersInv'
  BY <1>1, <1>2, <1>5, <1>6, <1>7, <1>8, SomePlaced
<1>10. StreamsInv'
  BY <1>1, <1>2, <1>6, <1>7, SomeMove
<1> QED BY <1>9, <1>10

\* A new forwarder has nothing yet, whatever becomes of it.
LEMMA NewForwarder ==
    ASSUME DeliveryInv, NEW f \in Forwarders, fwd[f] = "unused",
           fwd' \in {[fwd EXCEPT ![f] = "unused"], [fwd EXCEPT ![f] = "polling"]},
           \A w \in Sockets : sock'[w] = "new" => sock[w] = "new" /\ w # f,
           \A x \in Execs : task[x] \in {"running", "done"} => task'[x] = task[x],
           UNCHANGED <<buffer, final, subs, source, replay, queue, got>>
    PROVE  ForwardersInv' /\ StreamsInv'
<1>1. TypeOK /\ ForwardersInv /\ StreamsInv
  BY DEF DeliveryInv, IInv
<1>2. /\ fwd'[f] \in {"unused", "polling"} /\ \A g \in Forwarders \ {f} : fwd'[g] = fwd[g]
  BY <1>1 DEF TypeOK
<1>3. ~Following(f) /\ ~Following(f)'
  BY <1>2 DEF Following
<1>4. Placed(f)
  BY <1>1 DEF ForwardersInv
<1>5. Placed(f)'
  <2>1. \A x \in Execs : f \in subs'[x] <=> Following(f)' /\ source'[f] = x
    BY <1>3, <1>4 DEF Placed
  <2>2. got'[f] = <<>> /\ replay'[f] = <<>> /\ queue'[f] = <<>> /\ fwd'[f] # "live"
    BY <1>2, <1>4 DEF Placed
  <2>3. source'[f] # None => task'[source'[f]] \in {"running", "done"}
    <3>1. source[f] # None => source[f] \in Execs /\ task[source[f]] \in {"running", "done"}
      BY <1>1, <1>4, Sources DEF Placed
    <3> QED BY <3>1
  <2> QED BY <2>1, <2>2, <2>3 DEF Placed
<1>6. Delivers(f)'
  BY <1>1, <1>3, LeftDelivers
<1>7. /\ \A g \in Forwarders \ {f} : /\ fwd'[g] = fwd[g] /\ source'[g] = source[g]
                                     /\ replay'[g] = replay[g] /\ queue'[g] = queue[g]
                                     /\ got'[g] = got[g]
      /\ \A g \in Forwarders \ {f}, x \in Execs : g \in subs'[x] <=> g \in subs[x]
  BY <1>2
<1>8. \A g \in Forwarders : source[g] # None => source[g] \in Execs
  BY <1>1, Sources
<1>9. \A g \in Forwarders \cap {f} : Placed(g)' /\ Delivers(g)'
  BY <1>5, <1>6
<1>10. ForwardersInv'
  BY <1>1, <1>7, <1>8, <1>9, SomePlaced
<1>11. StreamsInv'
  BY <1>1, <1>7, <1>9, SomeMove
<1> QED BY <1>10, <1>11

LEMMA ConnectDelivers ==
    ASSUME DeliveryInv, NEW w \in Sockets, Connect(w)
    PROVE  ForwardersInv' /\ StreamsInv'
<1>1. TypeOK /\ w \in Forwarders
  BY DEF DeliveryInv, IInv, Forwarders
<1>2. /\ sock[w] = "new" /\ sock' = [sock EXCEPT ![w] = "open"]
      /\ fwd' \in {[fwd EXCEPT ![w] = "unused"], [fwd EXCEPT ![w] = "polling"]}
      /\ UNCHANGED <<task, buffer, final, subs, source, replay, queue, got>>
  BY DEF Connect, lockVars, recVars
<1>3. fwd[w] = "unused"
  BY <1>1, <1>2 DEF DeliveryInv, ForwardersInv, Placed
<1>4. \A v \in Sockets : sock'[v] = "new" => sock[v] = "new" /\ v # w
  BY <1>1, <1>2 DEF TypeOK
<1> QED BY <1>1, <1>2, <1>3, <1>4, NewForwarder

LEMMA ExecuteDelivers ==
    ASSUME DeliveryInv, NEW w \in Sockets, NEW x \in Execs, NEW c \in Cells, Execute(w, x, c)
    PROVE  ForwardersInv' /\ StreamsInv'
<1>1. TypeOK /\ x \in Forwarders /\ x \notin Sockets
  BY DistinctAssumption DEF DeliveryInv, IInv, Forwarders
<1>2. /\ task[x] = "unused" /\ task' = [task EXCEPT ![x] = "queued"]
      /\ fwd' = [fwd EXCEPT ![x] = "polling"]
      /\ UNCHANGED <<sock, buffer, final, subs, source, replay, queue, got>>
  BY DEF Execute, recVars
<1>3. fwd[x] = "unused"
  BY <1>1, <1>2 DEF TypeOK
<1>4. \A y \in Execs : task[y] \in {"running", "done"} => task'[y] = task[y]
  BY <1>1, <1>2 DEF TypeOK
<1>5. \A v \in Sockets : sock'[v] = "new" => sock[v] = "new" /\ v # x
  BY <1>1, <1>2
<1> QED BY <1>1, <1>2, <1>3, <1>4, <1>5, NewForwarder

-----------------------------------------------------------------------------

LEMMA DeliveryInit == Init => DeliveryInv
<1> SUFFICES ASSUME Init PROVE ForwardersInv /\ StreamsInv
  BY InvInit DEF DeliveryInv
<1> SUFFICES ASSUME NEW f \in Forwarders PROVE Placed(f) /\ Delivers(f)
  BY DEF ForwardersInv, StreamsInv
<1>1. /\ fwd[f] = "unused" /\ source[f] = None /\ got[f] = <<>> /\ replay[f] = <<>>
      /\ queue[f] = <<>> /\ \A x \in Execs : f \notin subs[x]
  BY DEF Init
<1> QED BY <1>1 DEF Placed, Delivers, Following

LEMMA DeliveryStep == DeliveryInv /\ [Next]_vars => DeliveryInv'
<1> SUFFICES ASSUME DeliveryInv, [Next]_vars PROVE ForwardersInv' /\ StreamsInv'
  BY InvStep DEF DeliveryInv
<1>1. TypeOK /\ IInv /\ TypeOK'
  BY TypeStep DEF DeliveryInv, IInv
<1>2. ASSUME NEW x \in Execs, ExecStep(x) PROVE ForwardersInv' /\ StreamsInv'
  <2>1. CASE Ends(x)
    BY <1>1, <2>1, EndsFinalizes, FinalizeDelivers
  <2>2. CASE Start(x)
    BY <2>2, StartDelivers
  <2>3. CASE RelayError(x) \/ \E k \in {"output", "display"} : Relay(x, k)
    BY <1>1, <2>3, RelayDelivers
  <2> QED BY <1>2, <2>1, <2>2, <2>3 DEF ExecStep
<1>3. ASSUME NEW w \in Sockets, SocketStep(w) PROVE ForwardersInv' /\ StreamsInv'
  BY <1>1, <1>3, ConnectDelivers, ExecuteDelivers, InterruptDelivers, CancelDelivers,
     ForceStopDelivers DEF SocketStep
<1>4. ASSUME NEW f \in Forwarders, ForwarderStep(f) PROVE ForwardersInv' /\ StreamsInv'
  BY <1>1, <1>4, SubscribeDelivers, GiveUpDelivers, SendReplayDelivers, EndReplayDelivers,
     SendLiveDelivers, EndLiveDelivers DEF ForwarderStep
<1>5. CASE UNCHANGED vars
  <2>1. UNCHANGED <<sock, task, buffer, final, subs, fwd, source, replay, queue, got>>
    BY <1>5 DEF vars, sockVars, lockVars, recVars, fwdVars
  <2>2. StreamsInv'
    BY <2>1, StreamsKept DEF DeliveryInv
  <2>3. ForwardersInv'
    BY <1>1, <2>1, ForwardersStay, Sources DEF DeliveryInv
  <2> QED BY <2>2, <2>3
<1> QED BY <1>2, <1>3, <1>4, <1>5 DEF Next

THEOREM DeliveryInvariance == Spec => []DeliveryInv
BY DeliveryInit, DeliveryStep, PTL DEF Spec

\* What a forwarder that follows a run has sent, has still to replay and has queued is
\* what the run has said, with nothing missing, nothing twice and sentinels last.
THEOREM NothingIsLost == Spec => []NothingLostWhileSubscribed
<1>1. DeliveryInv => NothingLostWhileSubscribed
  BY DEF DeliveryInv, StreamsInv, Delivers, NothingLostWhileSubscribed
<1> QED BY <1>1, DeliveryInvariance, PTL

\* What a forwarder has sent, also one that has left, is the beginning of what its run
\* has said.
THEOREM DeliveryIsInOrder == Spec => []DeliveredInOrder
<1>1. DeliveryInv => DeliveredInOrder
  BY DEF DeliveryInv, StreamsInv, Delivers, DeliveredInOrder
<1> QED BY <1>1, DeliveryInvariance, PTL

LEMMA SentinelSeen ==
    ASSUME DeliveryInv, NEW f \in Forwarders, EndLive(f) PROVE got[f] = buffer[source[f]]
<1> DEFINE said == buffer[source[f]]
           g == got[f]
           q == queue[f]
<1>1. TypeOK /\ Following(f) /\ replay[f] = <<>> /\ q # <<>> /\ Head(q) = None
  BY DEF DeliveryInv, IInv, EndLive, Following, ForwardersInv, Placed
<1>2. source[f] \in Execs /\ source[f] # None
  BY <1>1, DistinctAssumption DEF TypeOK, Following
<1>3. said \in Seq(Message) /\ g \in Seq(Message) /\ g \in Seq(Sent) /\ q \in Seq(Sent)
  BY <1>1, <1>2, StreamTypes DEF TypeOK
<1>4. IsPrefix(g, said) /\ ThenSentinels(said, g \o q)
  <2>1. Stream(f) = g \o q
    BY <1>1, <1>3, ConcatEmptySeq DEF Stream
  <2> QED BY <1>1, <1>2, <2>1 DEF DeliveryInv, StreamsInv, Delivers
<1> HIDE DEF said, g, q
<1>5. said \in Seq(Sent) /\ Len(said) \in Nat /\ Len(g) \in Nat
  BY <1>3, SentinelIsNoMessage, LenProperties
<1>6. Len(g) <= Len(said) /\ \A i \in 1..Len(g) : g[i] = said[i]
  BY <1>3, <1>4, PrefixIsPointwise
<1>7. ~(Len(g) < Len(said))
  <2> SUFFICES ASSUME Len(g) < Len(said) PROVE FALSE
    OBVIOUS
  <2>1. Len(g) + 1 \in 1..Len(said)
    BY <1>5
  <2>2. /\ q[1] = None /\ Len(q) \in Nat \ {0}
    BY <1>1, <1>3, HeadTailProperties
  <2>3. (g \o q)[Len(g) + 1] = q[1] /\ g \o q \in Seq(Sent)
    <3>1. /\ g \o q \in Seq(Sent)
          /\ \A i \in 1..(Len(g) + Len(q)) :
                (g \o q)[i] = IF i <= Len(g) THEN g[i] ELSE q[i - Len(g)]
      BY <1>3, ConcatProperties
    <3>2. /\ Len(g) + 1 \in 1..(Len(g) + Len(q)) /\ ~(Len(g) + 1 <= Len(g))
          /\ (Len(g) + 1) - Len(g) = 1
      BY <1>5, <2>2
    <3> QED BY <3>1, <3>2
  <2> DEFINE t == g \o q
  <2>4. t \in Seq(Sent) /\ IsPrefix(said, t) /\ t[Len(g) + 1] = None
    BY <1>4, <2>2, <2>3 DEF ThenSentinels
  <2> HIDE DEF t
  <2>5. said[Len(g) + 1] = None
    BY <1>5, <2>1, <2>4, PrefixIsPointwise
  <2>6. said[Len(g) + 1] \in Message
    BY <1>3, <2>1, ElementOfSeq
  <2> QED BY <2>5, <2>6, SentinelIsNoMessage
<1>8. Len(g) = Len(said)
  BY <1>5, <1>6, <1>7
<1>9. g = said
  BY <1>3, <1>6, <1>8, SeqEqual
<1> QED BY <1>9 DEF g, said

\* A forwarder that leaves on the sentinel has sent all that its run has said: no message
\* can come behind the sentinel, and none before it is skipped.
THEOREM SentinelIsTheEnd == Spec => SentinelMeansComplete
<1>1. DeliveryInv /\ [Next]_vars
        => [\A f \in Forwarders : EndLive(f) => got[f] = buffer[source[f]]]_vars
  BY SentinelSeen
<1> QED BY <1>1, DeliveryInvariance, PTL DEF Spec, SentinelMeansComplete

-----------------------------------------------------------------------------
(***************************************************************************)
(* Execution counts.  The run inside the lock has the latest count of its  *)
(* notebook, and nothing saved of that notebook has it yet.                *)
(***************************************************************************)

CountsInv ==
    \A n \in Notebooks :
        /\ \A c \in Cells : saved[n][c].count <= counts[n]
        /\ holder[n] # None =>
              /\ number[holder[n]] = counts[n]
              /\ \A c \in Cells : saved[n][c].count < counts[n]

LEMMA SavedCounts ==
    ASSUME TypeOK, NEW n \in Notebooks, NEW c \in Cells
    PROVE  saved[n][c].count \in Nat /\ counts[n] \in Nat
<1>1. saved[n][c] \in SavedCell
  BY DEF TypeOK
<1> QED BY <1>1 DEF TypeOK, SavedCell

LEMMA StartCounts == ASSUME IInv, CountsInv, NEW x \in Execs, Start(x) PROVE CountsInv'
<1> DEFINE n == NotebookFor(x)
<1>1. TypeOK /\ n \in Notebooks /\ task[x] = "queued"
  BY NotebookOfExec DEF IInv, Start
<1>2. /\ holder' = [holder EXCEPT ![n] = x] /\ counts' = [counts EXCEPT ![n] = @ + 1]
      /\ number' = [number EXCEPT ![x] = counts[n] + 1] /\ saved' = saved
  BY DEF Start
<1> HIDE DEF n
<1>3. /\ holder'[n] = x /\ counts'[n] = counts[n] + 1 /\ number'[x] = counts[n] + 1
      /\ \A m \in Notebooks \ {n} : holder'[m] = holder[m] /\ counts'[m] = counts[m]
      /\ \A y \in Execs \ {x} : number'[y] = number[y]
  BY <1>1, <1>2 DEF TypeOK
<1> SUFFICES ASSUME NEW m \in Notebooks
             PROVE  /\ \A c \in Cells : saved'[m][c].count <= counts'[m]
                    /\ holder'[m] # None =>
                          /\ number'[holder'[m]] = counts'[m]
                          /\ \A c \in Cells : saved'[m][c].count < counts'[m]
  BY DEF CountsInv
<1>4. \A c \in Cells : /\ saved[m][c].count <= counts[m]
                       /\ saved[m][c].count \in Nat /\ counts[m] \in Nat
  BY <1>1, SavedCounts DEF CountsInv
<1>5. CASE m = n
  BY <1>2, <1>3, <1>4, <1>5
<1>6. CASE m # n
  <2>1. ASSUME holder[m] # None PROVE number'[holder[m]] = number[holder[m]]
    <3>1. holder[m] \in Execs /\ task[holder[m]] = "running"
      BY <1>1, <2>1 DEF TypeOK, IInv, LockInv, HolderRuns
    <3> QED BY <1>1, <1>3, <3>1
  <2> QED BY <1>2, <1>3, <1>4, <1>6, <2>1 DEF CountsInv
<1> QED BY <1>5, <1>6

LEMMA FinalizeCounts ==
    ASSUME IInv, CountsInv, NEW x \in Execs, NEW s \in FinalStates, NEW before,
           Finalize(x, s, before)
    PROVE  /\ CountsInv'
           /\ \A n \in Notebooks, c \in Cells :
                 saved'[n][c] # saved[n][c] => saved'[n][c].count > saved[n][c].count
<1> DEFINE n == NotebookFor(x)
<1>1. TypeOK /\ n \in Notebooks /\ task[x] = "running" /\ cell[x] \in Cells
  BY NotebookOfExec DEF IInv, Finalize
<1>2. /\ holder' = [holder EXCEPT ![n] = None] /\ UNCHANGED <<counts, number>>
      /\ saved' = saved \/ saved' = Persisted(x, s)
  BY DEF Finalize, Released
<1>3. holder[n] = x /\ x # None
  BY <1>1, DistinctAssumption DEF IInv, LockInv, RunningIsRegistered
<1>4. holder'[n] = None /\ \A m \in Notebooks \ {n} : holder'[m] = holder[m]
  BY <1>1, <1>2 DEF TypeOK
<1>5. number[x] = counts[n] /\ \A c \in Cells : saved[n][c].count < counts[n]
  BY <1>1, <1>3 DEF CountsInv
<1>6. ASSUME NEW m \in Notebooks, NEW c \in Cells
      PROVE  \/ saved'[m][c] = saved[m][c]
             \/ m = n /\ saved'[m][c].count = counts[n]
  <2>1. CASE saved' = saved
    BY <2>1
  <2>2. CASE saved' = Persisted(x, s)
    <3> DEFINE r == [state |-> s, count |-> number[x], outputs |-> outputs[x]]
    <3>1. r.count = counts[n]
      BY <1>5
    <3>2. saved' = [saved EXCEPT ![n][cell[x]] = r]
      BY <2>2 DEF Persisted
    <3> HIDE DEF r, n
    <3>3. saved \in [Notebooks -> [Cells -> SavedCell]]
      BY <1>1 DEF TypeOK
    <3>4. CASE m = n /\ c = cell[x]
      <4>1. saved'[m][c] = r
        BY <1>1, <3>2, <3>3, <3>4
      <4> QED BY <3>1, <3>4, <4>1
    <3>5. CASE ~(m = n /\ c = cell[x])
      BY <1>1, <3>2, <3>3, <3>5
    <3> QED BY <3>4, <3>5
  <2> QED BY <1>2, <2>1, <2>2
<1> HIDE DEF n
<1>7. \A m \in Notebooks, c \in Cells : saved[m][c].count \in Nat /\ counts[m] \in Nat
  BY <1>1, SavedCounts
<1>8. \A m \in Notebooks, c \in Cells :
          saved'[m][c] # saved[m][c] => saved'[m][c].count > saved[m][c].count
  BY <1>5, <1>6, <1>7
<1>9. CountsInv'
  <2> SUFFICES ASSUME NEW m \in Notebooks
               PROVE  /\ \A c \in Cells : saved'[m][c].count <= counts'[m]
                      /\ holder'[m] # None =>
                            /\ number'[holder'[m]] = counts'[m]
                            /\ \A c \in Cells : saved'[m][c].count < counts'[m]
    BY DEF CountsInv
  <2>1. CASE m = n
    <3>1. \A c \in Cells : saved'[n][c].count <= counts[n]
      BY <1>5, <1>6, <1>7, <1>1
    <3> QED BY <1>2, <1>4, <2>1, <3>1
  <2>2. CASE m # n
    <3>1. \A c \in Cells : saved'[m][c] = saved[m][c]
      BY <1>6, <2>2
    <3> QED BY <1>2, <1>4, <2>2, <3>1 DEF CountsInv
  <2> QED BY <2>1, <2>2
<1> QED BY <1>8, <1>9

LEMMA CountsStutter ==
    ASSUME CountsInv, UNCHANGED <<holder, counts, number, saved>> PROVE CountsInv'
BY DEF CountsInv

\* Only a run that starts or ends touches the lock, the counts or the file.
LEMMA OtherSteps ==
    ASSUME IInv, [Next]_vars
    PROVE  \/ \E x \in Execs : Start(x)
           \/ \E x \in Execs, s \in FinalStates : \E before : Finalize(x, s, before)
           \/ UNCHANGED <<holder, counts, number, saved>>
<1>1. ASSUME NEW x \in Execs, ExecStep(x)
      PROVE  \/ Start(x)
             \/ \E s \in FinalStates : \E before : Finalize(x, s, before)
             \/ UNCHANGED <<holder, counts, number, saved>>
  <2>1. CASE Ends(x)
    BY <2>1, EndsFinalizes DEF IInv
  <2>2. CASE RelayError(x) \/ \E k \in {"output", "display"} : Relay(x, k)
    BY <2>2 DEF Relay, RelayError, lockVars
  <2> QED BY <1>1, <2>1, <2>2 DEF ExecStep
<1>2. ASSUME NEW w \in Sockets, SocketStep(w) PROVE UNCHANGED <<holder, counts, number, saved>>
  BY <1>2 DEF SocketStep, Connect, Execute, Interrupt, Disconnect, ForceStop, ForceStopped,
              lockVars, recVars
<1>3. ASSUME NEW f \in Forwarders, ForwarderStep(f)
      PROVE  UNCHANGED <<holder, counts, number, saved>>
  BY <1>3 DEF ForwarderStep, Subscribe, GiveUp, SendReplay, EndReplay, SendLive, EndLive,
              lockVars, recVars
<1>4. CASE UNCHANGED vars
  BY <1>4 DEF vars, lockVars, recVars
<1> QED BY <1>1, <1>2, <1>3, <1>4 DEF Next

LEMMA CountsInit == Init => CountsInv
BY DEF Init, CountsInv

LEMMA CountsStep ==
    ASSUME IInv, CountsInv, [Next]_vars
    PROVE  /\ CountsInv'
           /\ \A n \in Notebooks, c \in Cells :
                 saved'[n][c] # saved[n][c] => saved'[n][c].count > saved[n][c].count
<1>1. ASSUME NEW x \in Execs, Start(x)
      PROVE  CountsInv' /\ saved' = saved
  BY <1>1, StartCounts DEF Start
<1> QED BY <1>1, OtherSteps, FinalizeCounts, CountsStutter

THEOREM LatestCount == Spec => [](IInv /\ CountsInv)
<1>1. Init => IInv /\ CountsInv
  BY InvInit, CountsInit
<1>2. IInv /\ CountsInv /\ [Next]_vars => IInv' /\ CountsInv'
  BY InvStep, CountsStep
<1> QED BY <1>1, <1>2, PTL DEF Spec

\* What the notebook file says of a cell is replaced only by what a later run of it left:
\* the count that a run saves is greater than every count saved before.
THEOREM LaterRunsOnly == Spec => SavedNeverRegresses
<1>1. IInv /\ CountsInv /\ [Next]_vars
        => [\A n \in Notebooks, c \in Cells :
               saved'[n][c] # saved[n][c] => saved'[n][c].count > saved[n][c].count]_vars
  BY CountsStep
<1> QED BY <1>1, LatestCount, PTL DEF Spec, SavedNeverRegresses

-----------------------------------------------------------------------------
(***************************************************************************)
(* The manager implements the log.                                         *)
(***************************************************************************)

\* A run that has started has said something.
StartedHasSpoken == \A x \in Execs : task[x] \in {"running", "done"} => buffer[x] # <<>>

\* What each forwarder follows.
on == [f \in Forwarders |-> Follows(f)]

LEMMA LongerHasSpoken ==
    ASSUME NEW s \in Seq(Message), NEW t \in Seq(Message), s # <<>> PROVE s \o t # <<>>
<1>1. Len(s) > 0 /\ Len(s \o t) = Len(s) + Len(t) /\ Len(t) \in Nat /\ Len(s) \in Nat
  BY EmptySeq, LenProperties, ConcatProperties
<1>2. Len(s \o t) # 0
  BY <1>1
<1> QED BY <1>2

\* What a step may do to the log of one run, or of none.
LEMMA LoggedKeepsSpoken ==
    ASSUME TypeOK, StartedHasSpoken, NEW n \in Notebooks, NEW msgs \in Seq(Message),
           buffer' = Logged(n, msgs),
           \A x \in Execs : task'[x] \in {"running", "done"} => task[x] \in {"running", "done"}
    PROVE  StartedHasSpoken'
<1> SUFFICES ASSUME NEW x \in Execs, task'[x] \in {"running", "done"} PROVE buffer'[x] # <<>>
  BY DEF StartedHasSpoken
<1>1. buffer[x] # <<>> /\ buffer \in [Execs -> Seq(Message)]
  BY DEF StartedHasSpoken, TypeOK
<1>2. CASE registry[n] = x /\ registry[n] # None
  <2>1. buffer'[x] = buffer[x] \o msgs
    BY <1>1, <1>2 DEF Logged
  <2> QED BY <1>1, <2>1, LongerHasSpoken
<1>3. CASE ~(registry[n] = x /\ registry[n] # None)
  <2>1. buffer'[x] = buffer[x]
    BY <1>1, <1>3 DEF Logged
  <2> QED BY <1>1, <2>1
<1> QED BY <1>2, <1>3

\* Closed, in the words of the log: the run has a final state.
LEMMA ClosedIsFinal ==
    ASSUME IInv, StartedHasSpoken, NEW x \in Execs PROVE Log!Closed(x) <=> final[x] # None
<1>1. buffer[x] \in Seq(Message)
  BY DEF IInv, TypeOK
<1>2. CASE buffer[x] = <<>>
  <2>1. task[x] \in {"unused", "queued"}
    BY <1>2 DEF IInv, TypeOK, StartedHasSpoken
  <2>2. final[x] = None
    BY <2>1 DEF IInv, LockInv, FreshIsBlank
  <2> QED BY <1>2, <2>2 DEF Log!Closed
<1>3. CASE buffer[x] # <<>>
  <2>1. Len(buffer[x]) \in DOMAIN buffer[x]
    BY <1>1, <1>3, EmptySeq, LenProperties
  <2>2. buffer[x][Len(buffer[x])].kind \in FinalStates <=> final[x] # None
    BY <2>1 DEF IInv, LogInv, TerminalIsLast
  <2> QED BY <1>3, <2>2 DEF Log!Closed
<1> QED BY <1>2, <1>3

LEMMA OnKept ==
    ASSUME UNCHANGED <<fwd, source>> PROVE UNCHANGED on
BY DEF on, Follows, Following

-----------------------------------------------------------------------------
\* Steps of the runs.

LEMMA StartBegins ==
    ASSUME IInv, NEW x \in Execs, Start(x) PROVE Log!LogNext
<1> DEFINE n == NotebookFor(x)
<1>1. n \in Notebooks /\ buffer[x] = <<>>
  BY NotebookOfExec DEF Start, IInv, LockInv, FreshIsBlank
<1>2. /\ holder[n] = None /\ holder' = [holder EXCEPT ![n] = x]
      /\ buffer' = [buffer EXCEPT ![x] = <<Msg(x, "running")>>]
      /\ UNCHANGED <<fwd, source, got>>
  BY DEF Start, LockFree, fwdVars
<1> HIDE DEF n
<1>3. Log!Begin(n, x)
  BY <1>1, <1>2, OnKept DEF Log!Begin, Log!Said, Msg, on
<1> QED BY <1>1, <1>3 DEF Log!LogNext

\* Something that is not a terminal state, said by the run inside the lock.
LEMMA SpokenIsSaid ==
    ASSUME IInv, StartedHasSpoken, NEW x \in Execs, task[x] = "running",
           NEW k \in Kinds \ FinalStates,
           buffer' = Logged(NotebookFor(x), <<Msg(x, k)>>),
           UNCHANGED <<holder, fwd, source, got>>
    PROVE  Log!LogNext \/ UNCHANGED Log!logVars
<1> DEFINE n == NotebookFor(x)
<1>1. n \in Notebooks /\ holder[n] = x /\ x # None
  BY NotebookOfExec, DistinctAssumption DEF IInv, LockInv, RunningIsRegistered
<1>2. UNCHANGED on
  BY OnKept
<1>3. CASE final[x] = None
  <2>1. buffer' = [buffer EXCEPT ![x] = @ \o <<Msg(x, k)>>]
    BY <1>3, RunningLog
  <2>2. ~Log!Closed(x)
    BY <1>3, ClosedIsFinal
  <2>3. buffer[x] \o <<Msg(x, k)>> = Append(buffer[x], Msg(x, k))
    <3>1. buffer[x] \in Seq(Message) /\ Msg(x, k) \in Message
      BY MsgType DEF IInv, TypeOK
    <3> QED BY <3>1, AppendIsConcat
  <2>4. buffer' = [buffer EXCEPT ![x] = Append(@, Msg(x, k))]
    BY <2>1, <2>3
  <2> HIDE DEF n
  <2>5. Log!Say(n, k)
    BY <1>1, <1>2, <2>2, <2>4 DEF Log!Say, Log!Said, Msg, on
  <2> QED BY <1>1, <2>5 DEF Log!LogNext
<1>4. CASE final[x] # None
  <2>1. buffer' = buffer
    BY <1>4, RunningLog
  <2> QED BY <1>2, <2>1 DEF Log!logVars, on
<1> QED BY <1>3, <1>4

LEMMA RelaySays ==
    ASSUME IInv, StartedHasSpoken, NEW x \in Execs,
           RelayError(x) \/ \E k \in {"output", "display"} : Relay(x, k)
    PROVE  Log!LogNext \/ UNCHANGED Log!logVars
<1>1. PICK k \in {"output", "display", "error"} :
          buffer' = Logged(NotebookFor(x), <<Msg(x, k)>>)
  BY DEF Relay, RelayError
<1>2. task[x] = "running" /\ UNCHANGED <<holder, fwd, source, got>>
  BY DEF Relay, RelayError, lockVars
<1>3. k \in Kinds \ FinalStates
  BY DEF Kinds, FinalStates
<1> QED BY <1>1, <1>2, <1>3, SpokenIsSaid

LEMMA InterruptSays ==
    ASSUME IInv, StartedHasSpoken, NEW w \in Sockets, Interrupt(w)
    PROVE  Log!LogNext \/ UNCHANGED Log!logVars
<1> DEFINE n == NotebookOf[w]  x == registry[n]
<1>1. n \in Notebooks /\ x \in Execs /\ final[x] = None
  BY SocketsAssumption DEF Interrupt, IInv, TypeOK
<1>2. task[x] = "running" /\ NotebookFor(x) = n
  BY <1>1, DistinctAssumption DEF IInv, LockInv, RegisteredIsRunning
<1>3. /\ buffer' = Logged(n, <<Msg(x, "stopping")>>)
      /\ UNCHANGED <<holder, fwd, source, got>>
  BY DEF Interrupt, lockVars
<1>4. "stopping" \in Kinds \ FinalStates
  BY DEF Kinds, FinalStates
<1> HIDE DEF n, x
<1> QED BY <1>1, <1>2, <1>3, <1>4, SpokenIsSaid

\* The last words of an open run that is inside the lock.
LEMMA LastWordsClose ==
    ASSUME IInv, StartedHasSpoken, NEW x \in Execs, task[x] = "running", final[x] = None,
           NEW s \in FinalStates, NEW before \in {<<>>, <<Msg(x, "error")>>},
           buffer' = Logged(NotebookFor(x), Append(before, Msg(x, s)))
    PROVE  Log!Close(NotebookFor(x))
<1> DEFINE n == NotebookFor(x)
<1>1. holder[n] = x /\ x # None
  BY DistinctAssumption DEF IInv, LockInv, RunningIsRegistered
<1>2. buffer' = [buffer EXCEPT ![x] = @ \o Append(before, Msg(x, s))]
  BY RunningLog
<1>3. ~Log!Closed(x)
  BY ClosedIsFinal
<1> HIDE DEF n
<1>4. Log!Close(n)
  BY <1>1, <1>2, <1>3 DEF Log!Close, Log!Said, Msg
<1> QED BY <1>4 DEF n

LEMMA ForceStopCuts ==
    ASSUME IInv, StartedHasSpoken, NEW w \in Sockets, ForceStop(w)
    PROVE  Log!LogNext \/ UNCHANGED Log!logVars
<1> DEFINE n == NotebookOf[w]  x == registry[n]
<1>1. n \in Notebooks /\ UNCHANGED <<holder, fwd, source, got>>
  BY SocketsAssumption DEF ForceStop, lockVars
<1>2. UNCHANGED on
  BY <1>1, OnKept
<1>3. CASE x # None /\ final[x] = None
  <2>1. x \in Execs /\ task[x] = "running" /\ NotebookFor(x) = n
    BY <1>1, <1>3 DEF IInv, TypeOK, LockInv, RegisteredIsRunning
  <2>2. <<Msg(x, "error"), Msg(x, "errored")>>
          = Append(<<Msg(x, "error")>>, Msg(x, "errored"))
    <3>1. Msg(x, "error") \in Message /\ Msg(x, "errored") \in Message
      BY <2>1, MsgType DEF Kinds, FinalStates
    <3> QED BY <3>1, AppendToOne
  <2>3. buffer' = Logged(NotebookFor(x), Append(<<Msg(x, "error")>>, Msg(x, "errored")))
    BY <1>3, <2>1, <2>2 DEF ForceStop
  <2>4. "errored" \in FinalStates
    BY DEF FinalStates
  <2> HIDE DEF n, x
  <2>5. Log!Close(n)
    BY <1>3, <2>1, <2>3, <2>4, LastWordsClose
  <2>6. Log!Cut(n)
    BY <1>1, <1>2, <2>5 DEF Log!Cut, on
  <2> QED BY <1>1, <2>6 DEF Log!LogNext
<1>4. CASE ~(x # None /\ final[x] = None)
  <2>1. buffer' = buffer
    BY <1>4 DEF ForceStop
  <2> QED BY <1>1, <1>2, <2>1 DEF Log!logVars, on
<1> QED BY <1>3, <1>4

LEMMA FinalizeFinishes ==
    ASSUME IInv, StartedHasSpoken, NEW x \in Execs, NEW s \in FinalStates,
           NEW before \in {<<>>, <<Msg(x, "error")>>}, Finalize(x, s, before)
    PROVE  Log!LogNext
<1> DEFINE n == NotebookFor(x)
<1>1. /\ task[x] = "running" /\ holder' = [holder EXCEPT ![n] = None]
      /\ buffer' = Logged(n, Append(before, Msg(x, s)))
      /\ UNCHANGED <<fwd, source, got>>
  BY DEF Finalize, Released
<1>2. n \in Notebooks /\ holder[n] = x /\ x # None /\ UNCHANGED on
  BY <1>1, NotebookOfExec, OnKept, DistinctAssumption DEF IInv, LockInv, RunningIsRegistered
<1>3. Log!Close(n) \/ (Log!Closed(x) /\ UNCHANGED buffer)
  <2>1. CASE final[x] = None
    BY <1>1, <2>1, LastWordsClose
  <2>2. CASE final[x] # None
    BY <1>1, <2>2, RunningLog, ClosedIsFinal
  <2> QED BY <2>1, <2>2
<1> HIDE DEF n
<1>4. Log!Finish(n)
  BY <1>1, <1>2, <1>3 DEF Log!Finish, on
<1> QED BY <1>2, <1>4 DEF Log!LogNext

-----------------------------------------------------------------------------
\* Steps of the forwarders and of the sockets.

LEMMA SubscribeJoins ==
    ASSUME IInv, StartedHasSpoken, ForwardersInv, NEW f \in Forwarders,
           NotebookFor(f) \in Notebooks, Subscribe(f)
    PROVE  Log!LogNext
<1> DEFINE n == NotebookFor(f)  x == registry[n]
<1>1. /\ fwd[f] = "polling" /\ x # None /\ fwd' = [fwd EXCEPT ![f] = "replaying"]
      /\ source' = [source EXCEPT ![f] = x]
      /\ UNCHANGED <<holder, buffer, got>>
  BY DEF Subscribe, lockVars
<1>2. TypeOK /\ x \in Execs /\ got[f] = <<>>
  BY <1>1 DEF IInv, TypeOK, ForwardersInv, Placed
<1>3. IF Log!Closed(x) THEN x \in Unsavable ELSE \E m \in Notebooks : holder[m] = x
  BY <1>1, <1>2, ClosedIsFinal DEF IInv, LockInv, RegisteredIsRunning, RunningIsRegistered
<1> HIDE DEF n, x
<1>4. on[f] = None /\ on' = [on EXCEPT ![f] = x]
  BY <1>1, <1>2 DEF on, Follows, Following, TypeOK
<1>5. Log!Join(f, x)
  BY <1>1, <1>2, <1>3, <1>4 DEF Log!Join, on
<1> QED BY <1>2, <1>5 DEF Log!LogNext

\* What is sent next is what comes next in the log.
LEMMA SendSees ==
    ASSUME TypeOK, StreamsInv', NEW f \in Forwarders, Following(f), NEW m \in Message,
           got' = [got EXCEPT ![f] = Append(@, m)],
           UNCHANGED <<holder, buffer, fwd, source>>
    PROVE  Log!LogNext
<1>1. /\ source[f] \in Execs /\ source[f] # None /\ buffer[source[f]] \in Seq(Message)
      /\ got[f] \in Seq(Message)
  BY DistinctAssumption DEF TypeOK, Following
<1> DEFINE said == buffer[source[f]]  g == got[f]
<1>2. IsPrefix(Append(g, m), said)
  <2>1. got'[f] = Append(g, m) /\ source'[f] # None /\ buffer'[source'[f]] = said
    BY <1>1 DEF TypeOK
  <2> QED BY <2>1 DEF StreamsInv, Delivers
<1>3. said \in Seq(Message) /\ g \in Seq(Message)
  BY <1>1
<1> HIDE DEF said, g
<1>4. Len(g) < Len(said) /\ said[Len(g) + 1] = m
  <2> DEFINE a == Append(g, m)
  <2>1. a \in Seq(Message) /\ Len(a) = Len(g) + 1 /\ a[Len(g) + 1] = m /\ Len(g) \in Nat
    BY <1>3, AppendProperties
  <2>2. IsPrefix(a, said)
    BY <1>2
  <2> HIDE DEF a
  <2>3. Len(a) <= Len(said) /\ a[Len(g) + 1] = said[Len(g) + 1]
    BY <1>3, <2>1, <2>2, PrefixIsPointwise
  <2>4. Len(said) \in Nat
    BY <1>3, LenProperties
  <2> QED BY <2>1, <2>3, <2>4
<1>5. on[f] = source[f] /\ UNCHANGED on
  BY OnKept DEF on, Follows
<1>6. Len(got[f]) < Len(buffer[on[f]]) /\ on[f] # None
  BY <1>1, <1>4, <1>5 DEF said, g
<1>7. got' = [got EXCEPT ![f] = Append(@, buffer[on[f]][Len(@) + 1])]
  BY <1>4, <1>5 DEF said, g
<1>8. Log!See(f)
  BY <1>5, <1>6, <1>7 DEF Log!See, on
<1> QED BY <1>8 DEF Log!LogNext

\* A forwarder that returns leaves; one that goes on with its queue does not move.
LEMMA ReturnLeaves ==
    ASSUME TypeOK, NEW f \in Forwarders, fwd' = [fwd EXCEPT ![f] = "done"],
           UNCHANGED <<holder, buffer, source, got>>
    PROVE  Log!LogNext
<1>1. on' = [on EXCEPT ![f] = None]
  BY DEF on, Follows, Following, TypeOK
<1>2. Log!Leave(f)
  BY <1>1 DEF Log!Leave, on
<1> QED BY <1>2 DEF Log!LogNext

LEMMA NobodyMoves ==
    ASSUME UNCHANGED <<holder, buffer, source, got>>,
           \A f \in Forwarders : Following(f)' <=> Following(f)
    PROVE  UNCHANGED Log!logVars
<1>1. UNCHANGED on
  BY DEF on, Follows
<1> QED BY <1>1 DEF Log!logVars, on

LEMMA CancelDrops ==
    ASSUME NEW w \in Sockets, Disconnect(w) \/ ForceStopped(w) PROVE Log!LogNext
<1> DEFINE F == {f \in Forwarders : /\ fwd[f] \in {"polling", "replaying", "live"}
                                    /\ SocketOf(f) = w}
<1>1. CancelForwarders(w) /\ UNCHANGED <<holder, buffer, source>>
  BY DEF Disconnect, ForceStopped, lockVars
<1>2. /\ fwd' = [f \in Forwarders |-> IF f \in F THEN "cancelled" ELSE fwd[f]]
      /\ got' = [f \in Forwarders |-> IF f \in F THEN <<>> ELSE got[f]]
  BY <1>1 DEF CancelForwarders
<1>3. F \in SUBSET Forwarders
  OBVIOUS
<1> HIDE DEF F
<1>4. on' = [f \in Forwarders |-> IF f \in F THEN None ELSE on[f]]
  BY <1>1, <1>2 DEF on, Follows, Following
<1>5. Log!Drop(F)
  BY <1>1, <1>2, <1>4 DEF Log!Drop, on
<1> QED BY <1>3, <1>5 DEF Log!LogNext

-----------------------------------------------------------------------------

LEMMA SpokenInit == Init => StartedHasSpoken
BY DEF Init, StartedHasSpoken

LEMMA StartSpeaks ==
    ASSUME TypeOK, StartedHasSpoken, NEW x \in Execs, Start(x) PROVE StartedHasSpoken'
<1>1. /\ buffer'[x] = <<Msg(x, "running")>>
      /\ \A y \in Execs \ {x} : buffer'[y] = buffer[y] /\ task'[y] = task[y]
  BY DEF Start, TypeOK
<1>2. buffer'[x] # <<>>
  BY <1>1
<1> QED BY <1>1, <1>2 DEF StartedHasSpoken

LEMMA SpokenStays ==
    ASSUME StartedHasSpoken, UNCHANGED buffer,
           \A x \in Execs : task'[x] \in {"running", "done"} => task[x] \in {"running", "done"}
    PROVE  StartedHasSpoken'
BY DEF StartedHasSpoken

\* Every step of a run is a step of the log, or none.
LEMMA RunRefines ==
    ASSUME IInv, StartedHasSpoken, NEW x \in Execs, ExecStep(x)
    PROVE  /\ StartedHasSpoken'
           /\ Log!LogNext \/ UNCHANGED Log!logVars
<1>1. TypeOK
  BY DEF IInv
<1>2. CASE Start(x)
  BY <1>1, <1>2, StartSpeaks, StartBegins
<1>3. CASE Ends(x)
  <2>1. PICK s \in FinalStates, before \in {<<>>, <<Msg(x, "error")>>} : Finalize(x, s, before)
    BY <1>1, <1>3, EndsFinalizes
  <2>2. Log!LogNext
    BY <2>1, FinalizeFinishes
  <2>3. /\ buffer' = Logged(NotebookFor(x), Append(before, Msg(x, s)))
        /\ task[x] = "running" /\ task' = [task EXCEPT ![x] = "done"]
    BY <2>1 DEF Finalize
  <2>4. Append(before, Msg(x, s)) \in Seq(Message)
    <3>1. Msg(x, s) \in Message /\ Msg(x, "error") \in Message
      BY MsgType DEF Kinds
    <3>2. before \in Seq(Message)
      <4>1. CASE before = <<>>
        BY <4>1
      <4>2. CASE before = <<Msg(x, "error")>>
        BY <3>1, <4>2
      <4> QED BY <4>1, <4>2
    <3> QED BY <3>1, <3>2, AppendProperties
  <2>5. \A y \in Execs : task'[y] \in {"running", "done"} => task[y] \in {"running", "done"}
    BY <1>1, <2>3 DEF TypeOK
  <2>6. NotebookFor(x) \in Notebooks
    BY <1>1, <2>3, NotebookOfExec
  <2> HIDE DEF Finalize
  <2>7. StartedHasSpoken'
    BY <1>1, <2>3, <2>4, <2>5, <2>6, LoggedKeepsSpoken
  <2> QED BY <2>2, <2>7
<1>4. CASE RelayError(x) \/ \E k \in {"output", "display"} : Relay(x, k)
  <2>1. Log!LogNext \/ UNCHANGED Log!logVars
    BY <1>4, RelaySays
  <2>2. PICK k \in {"output", "display", "error"} :
            buffer' = Logged(NotebookFor(x), <<Msg(x, k)>>)
    BY <1>4 DEF Relay, RelayError
  <2>3. task[x] = "running" /\ task' = task
    BY <1>4 DEF Relay, RelayError, lockVars
  <2>4. <<Msg(x, k)>> \in Seq(Message) /\ NotebookFor(x) \in Notebooks
    <3>1. Msg(x, k) \in Message
      BY MsgType DEF Kinds
    <3>2. <<Msg(x, k)>> \in Seq(Message)
      BY <3>1
    <3> QED BY <1>1, <2>3, <3>2, NotebookOfExec
  <2>5. StartedHasSpoken'
    BY <1>1, <2>2, <2>3, <2>4, LoggedKeepsSpoken
  <2> QED BY <2>1, <2>5
<1> QED BY <1>2, <1>3, <1>4 DEF ExecStep

LEMMA SocketRefines ==
    ASSUME DeliveryInv, StartedHasSpoken, NEW w \in Sockets, SocketStep(w)
    PROVE  /\ StartedHasSpoken'
           /\ Log!LogNext \/ UNCHANGED Log!logVars
<1>1. TypeOK /\ IInv
  BY DEF DeliveryInv, IInv
<1>2. CASE Connect(w)
  <2>1. /\ sock[w] = "new"
        /\ fwd' \in {[fwd EXCEPT ![w] = "unused"], [fwd EXCEPT ![w] = "polling"]}
        /\ UNCHANGED <<task, holder, buffer, source, got>>
    BY <1>2 DEF Connect, lockVars, recVars
  <2>2. fwd[w] = "unused"
    BY <2>1 DEF DeliveryInv, ForwardersInv, Placed, Forwarders
  <2>3. \A f \in Forwarders : Following(f)' <=> Following(f)
    BY <1>1, <2>1, <2>2 DEF TypeOK, Following
  <2>4. StartedHasSpoken'
    BY <2>1, SpokenStays
  <2> QED BY <2>1, <2>3, <2>4, NobodyMoves
<1>3. ASSUME NEW x \in Execs, NEW c \in Cells, Execute(w, x, c)
      PROVE  StartedHasSpoken' /\ UNCHANGED Log!logVars
  <2>1. /\ task[x] = "unused" /\ task' = [task EXCEPT ![x] = "queued"]
        /\ fwd' = [fwd EXCEPT ![x] = "polling"]
        /\ UNCHANGED <<holder, buffer, source, got>>
    BY <1>3 DEF Execute, recVars
  <2>2. fwd[x] = "unused"
    BY <1>1, <2>1 DEF TypeOK, Forwarders
  <2>3. \A f \in Forwarders : Following(f)' <=> Following(f)
    BY <1>1, <2>1, <2>2 DEF TypeOK, Following
  <2>4. \A y \in Execs : task'[y] \in {"running", "done"} => task[y] \in {"running", "done"}
    BY <1>1, <2>1 DEF TypeOK
  <2>5. StartedHasSpoken'
    BY <2>1, <2>4, SpokenStays
  <2> QED BY <2>1, <2>3, <2>5, NobodyMoves
<1>4. CASE Interrupt(w)
  <2> DEFINE n == NotebookOf[w]  x == registry[n]
  <2>1. n \in Notebooks /\ x \in Execs
    BY <1>1, <1>4, SocketsAssumption DEF Interrupt, TypeOK
  <2>2. buffer' = Logged(n, <<Msg(x, "stopping")>>) /\ task' = task
    BY <1>4 DEF Interrupt, lockVars
  <2>3. <<Msg(x, "stopping")>> \in Seq(Message)
    <3>1. Msg(x, "stopping") \in Message
      BY <2>1, MsgType DEF Kinds
    <3> QED BY <3>1
  <2>4. StartedHasSpoken'
    BY <1>1, <2>1, <2>2, <2>3, LoggedKeepsSpoken
  <2> QED BY <1>1, <1>4, <2>4, InterruptSays
<1>5. CASE Disconnect(w) \/ ForceStopped(w)
  <2>1. UNCHANGED <<buffer, task>>
    BY <1>5 DEF Disconnect, ForceStopped, lockVars
  <2> QED BY <1>5, <2>1, SpokenStays, CancelDrops
<1>6. CASE ForceStop(w)
  <2> DEFINE n == NotebookOf[w]  x == registry[n]
             last == <<Msg(x, "error"), Msg(x, "errored")>>
  <2>1. n \in Notebooks /\ task' = task
    BY <1>6, SocketsAssumption DEF ForceStop, lockVars
  <2>2. ASSUME x # None /\ final[x] = None PROVE StartedHasSpoken'
    <3>1. x \in Execs /\ buffer' = Logged(n, last)
      BY <1>1, <1>6, <2>1, <2>2 DEF ForceStop, TypeOK
    <3>2. last \in Seq(Message)
      <4>1. Msg(x, "error") \in Message /\ Msg(x, "errored") \in Message
        BY <3>1, MsgType DEF Kinds, FinalStates
      <4> QED BY <4>1
    <3> QED BY <1>1, <2>1, <3>1, <3>2, LoggedKeepsSpoken
  <2>3. ASSUME ~(x # None /\ final[x] = None) PROVE StartedHasSpoken'
    <3>1. buffer' = buffer
      BY <1>6, <2>3 DEF ForceStop
    <3> QED BY <2>1, <3>1, SpokenStays
  <2> QED BY <1>1, <1>6, <2>2, <2>3, ForceStopCuts
<1> QED BY <1>2, <1>3, <1>4, <1>5, <1>6 DEF SocketStep

LEMMA ForwarderRefines ==
    ASSUME DeliveryInv, DeliveryInv', StartedHasSpoken, NEW f \in Forwarders, ForwarderStep(f)
    PROVE  /\ StartedHasSpoken'
           /\ Log!LogNext \/ UNCHANGED Log!logVars
<1>1. TypeOK /\ IInv /\ ForwardersInv /\ StreamsInv'
  BY DEF DeliveryInv, IInv
<1>2. UNCHANGED <<task, holder, buffer>>
  BY DEF ForwarderStep, Subscribe, GiveUp, SendReplay, EndReplay, SendLive, EndLive,
         lockVars, recVars
<1>3. StartedHasSpoken'
  BY <1>2, SpokenStays
<1>4. CASE Subscribe(f)
  <2>1. NotebookFor(f) \in Notebooks
    <3>1. CASE f \in Sockets
      BY <3>1, SocketsAssumption DEF NotebookFor, SocketOf
    <3>2. CASE f \in Execs
      <4>1. task[f] # "unused"
        BY <1>1, <1>4, <3>2 DEF Subscribe, TypeOK
      <4> QED BY <1>1, <3>2, <4>1, NotebookOfExec
    <3> QED BY <3>1, <3>2 DEF Forwarders
  <2> QED BY <1>1, <1>3, <1>4, <2>1, SubscribeJoins
<1>5. CASE GiveUp(f)
  <2>1. /\ fwd[f] = "polling" /\ fwd' = [fwd EXCEPT ![f] = "timedout"]
        /\ UNCHANGED <<source, got>>
    BY <1>5 DEF GiveUp
  <2>2. \A g \in Forwarders : Following(g)' <=> Following(g)
    BY <1>1, <2>1 DEF TypeOK, Following
  <2> QED BY <1>2, <1>3, <2>1, <2>2, NobodyMoves
<1>6. CASE SendReplay(f)
  <2>1. /\ Following(f) /\ got' = [got EXCEPT ![f] = Append(@, Head(replay[f]))]
        /\ UNCHANGED <<fwd, source>>
    BY <1>6 DEF SendReplay, Following
  <2>2. Head(replay[f]) \in Message
    <3>1. replay[f] \in Seq(Message) /\ replay[f] # <<>>
      BY <1>1, <1>6 DEF SendReplay, TypeOK
    <3> QED BY <3>1
  <2> QED BY <1>1, <1>2, <1>3, <2>1, <2>2, SendSees
<1>7. CASE EndReplay(f)
  <2>1. UNCHANGED <<source, got>> /\ fwd[f] = "replaying"
    BY <1>7 DEF EndReplay
  <2>2. CASE final[source[f]] # None
    <3>1. fwd' = [fwd EXCEPT ![f] = "done"]
      BY <1>7, <2>2 DEF EndReplay
    <3> QED BY <1>1, <1>2, <1>3, <2>1, <3>1, ReturnLeaves
  <2>3. CASE final[source[f]] = None
    <3>1. fwd' = [fwd EXCEPT ![f] = "live"]
      BY <1>7, <2>3 DEF EndReplay
    <3>2. \A g \in Forwarders : Following(g)' <=> Following(g)
      BY <1>1, <2>1, <3>1 DEF TypeOK, Following
    <3> QED BY <1>2, <1>3, <2>1, <3>2, NobodyMoves
  <2> QED BY <2>2, <2>3
<1>8. CASE SendLive(f)
  <2>1. /\ Following(f) /\ got' = [got EXCEPT ![f] = Append(@, Head(queue[f]))]
        /\ UNCHANGED <<fwd, source>>
    BY <1>8 DEF SendLive, Following
  <2>2. Head(queue[f]) \in Message
    <3>1. queue[f] \in Seq(Sent) /\ queue[f] # <<>> /\ Head(queue[f]) # None
      BY <1>1, <1>8, StreamTypes DEF SendLive
    <3>2. Head(queue[f]) \in Sent
      BY <3>1
    <3> QED BY <3>1, <3>2 DEF Sent
  <2> QED BY <1>1, <1>2, <1>3, <2>1, <2>2, SendSees
<1>9. CASE EndLive(f)
  <2>1. fwd' = [fwd EXCEPT ![f] = "done"] /\ UNCHANGED <<source, got>>
    BY <1>9 DEF EndLive
  <2> QED BY <1>1, <1>2, <1>3, <2>1, ReturnLeaves
<1> QED BY <1>4, <1>5, <1>6, <1>7, <1>8, <1>9 DEF ForwarderStep

LEMMA NextRefines ==
    ASSUME DeliveryInv, DeliveryInv', StartedHasSpoken, [Next]_vars
    PROVE  StartedHasSpoken' /\ [Log!LogNext]_(Log!logVars)
<1>1. IInv
  BY DEF DeliveryInv
<1>2. ASSUME NEW x \in Execs, ExecStep(x)
      PROVE  StartedHasSpoken' /\ [Log!LogNext]_(Log!logVars)
  BY <1>1, <1>2, RunRefines
<1>3. ASSUME NEW w \in Sockets, SocketStep(w)
      PROVE  StartedHasSpoken' /\ [Log!LogNext]_(Log!logVars)
  BY <1>3, SocketRefines
<1>4. ASSUME NEW f \in Forwarders, ForwarderStep(f)
      PROVE  StartedHasSpoken' /\ [Log!LogNext]_(Log!logVars)
  BY <1>4, ForwarderRefines
<1>5. CASE UNCHANGED vars
  <2>1. UNCHANGED <<task, holder, buffer, fwd, source, got>>
    BY <1>5 DEF vars, lockVars, recVars, fwdVars
  <2>2. \A f \in Forwarders : Following(f)' <=> Following(f)
    BY <2>1 DEF Following
  <2> QED BY <2>1, <2>2, SpokenStays, NobodyMoves
<1> QED BY <1>2, <1>3, <1>4, <1>5 DEF Next

LEMMA InitRefines == Init => Log!LogInit
BY DEF Init, Log!LogInit, Follows, Following

\* One run at a time has its say in a notebook; what it says is a log that is closed once
\* and then stays; and every forwarder shows the log of a run from its first message on, in
\* order and without a gap, however it came to follow the run.
THEOREM ManagerImplementsLog == Spec => ImplementsLog
<1>1. Init => DeliveryInv /\ StartedHasSpoken
  BY DeliveryInit, SpokenInit
<1>2. DeliveryInv /\ StartedHasSpoken /\ [Next]_vars
        => DeliveryInv' /\ StartedHasSpoken' /\ [Log!LogNext]_(Log!logVars)
  BY DeliveryStep, NextRefines
<1> QED BY <1>1, <1>2, InitRefines, PTL DEF Spec, ImplementsLog, Log!LogSpec
=============================================================================
