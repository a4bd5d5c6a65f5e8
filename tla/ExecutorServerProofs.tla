------------------------ MODULE ExecutorServerProofs ------------------------
(***************************************************************************)
(* Proofs about ExecutorServer, for any connections, requests, threads of  *)
(* user code and interrupts.                                               *)
(***************************************************************************)
EXTENDS ExecutorServer, TLAPS

\* The main thread outlives all others: its end is the end of the process.
MainOutlives == \A t \in Threads : Live(t) => Live(Main)

\* As long as nothing was mixed, what executes belongs to one connection.
OneConnection ==
    ~mixed => \A x, y \in Execs : Live(x) /\ Live(y) => on[x] = on[y]

\* Between the two assignments to sys.stdout in execute_code.
InCode(x) == at[x] \in {"code"} \cup Handlers

\* Unless a wrap() was left in the wrong order, the streams are those of the code that runs,
\* which remembers the container's own,
StreamsSet ==
    ~mixed /\ ~tangled => \A x \in Execs : InCode(x) => stdout = x /\ oldout[x] = None

\* and they are replaced only while code runs.
StreamsOwned ==
    (~mixed /\ ~tangled /\ Live(Main) /\ stdout # None) =>
        (stdout \in Execs /\ InCode(stdout))

\* In any order, what code prints stays on its connection.
StreamsNear ==
    ~mixed => \A x \in Execs : InCode(x) /\ stdout # None => on[stdout] = on[x]

\* The part of the type invariant that the streams and loops depend on.
Shapes ==
    /\ at \in [Threads -> Places]
    /\ job \in [Conns -> Execs \cup {None}]
    /\ on \in [Execs -> Conns \cup {None}]
    /\ stdout \in Execs \cup {None}
    /\ oldout \in [Execs -> Execs \cup {None}]
    /\ \A x \in Execs : Live(x) => on[x] \in Conns

Core ==
    /\ OneAtATime /\ MainOutlives /\ OneConnection
    /\ StreamsSet /\ StreamsOwned /\ StreamsNear

IInv == TypeOK /\ Core

-----------------------------------------------------------------------------
(***************************************************************************)
(* Types.                                                                  *)
(***************************************************************************)

\* A message of a thread may be added to what a connection has carried.
LEMMA WrittenType ==
    ASSUME sent \in [Conns -> Seq(Message)],
           NEW c \in Conns, NEW t \in Execs \cup Users, NEW k \in Kinds
    PROVE  Written(c, Msg(t, k)) \in [Conns -> Seq(Message)]
<1>1. Msg(t, k) \in Message
  BY DEF Msg, Message
<1>2. Append(sent[c], Msg(t, k)) \in Seq(Message)
  BY <1>1
<1> QED BY <1>2 DEF Written

\* What a running execution passes on goes to some connection.
LEMMA RelaysSomewhere ==
    ASSUME NEW x \in Execs, Relays(x)
    PROVE  \E c \in Conns : sent' = Written(c, Msg(x, "output"))
BY DEF Relays

\* Every step keeps the types.
LEMMA TypeStep == TypeOK /\ [Next]_vars => TypeOK'
<1> USE DEF TypeOK, Threads, wireVars, loopVars, localVars, wrapVars, sharedVars, history
<1>1. ASSUME TypeOK, NEW c \in Conns, Connect(c) PROVE TypeOK'
  BY <1>1, ThreadsAssumption DEF Connect, Live, Places
<1>2. ASSUME TypeOK, AcceptKills PROVE TypeOK'
  BY <1>2 DEF AcceptKills, Live, Live, Places
<1>3. ASSUME TypeOK, NEW c \in Conns, HangUp(c) PROVE TypeOK'
  BY <1>3 DEF HangUp, Live, Places
<1>4. ASSUME TypeOK, NEW c \in Conns, NEW r \in Execs \cup {"interrupt"}, Submit(c, r)
      PROVE TypeOK'
  BY <1>4 DEF Submit, Live, Places
<1>5. ASSUME TypeOK, NEW c \in Conns, ReceiveInterrupt(c) PROVE TypeOK'
  <2>1. CASE Joined(c)
    BY <1>5, <2>1 DEF ReceiveInterrupt, Live
  <2>2. CASE ~Joined(c)
    <3>1. job[c] \in Execs
      BY <1>5, <2>2 DEF Joined
    <3>2. PICK k \in Cascades : /\ at' = [at EXCEPT ![k] = "running"]
                               /\ target' = [target EXCEPT ![k] = job[c]]
      BY <1>5, <2>2 DEF ReceiveInterrupt
    <3>3. at' \in [Threads -> Places] /\ target' \in [Cascades -> Execs \cup {None}]
      BY <1>5, <3>1, <3>2 DEF Places
    <3>4. \A x \in Execs : Live(x)' => on[x] \in Conns
      BY <1>5, <3>2, ThreadsAssumption DEF Live
    <3>5. \A h \in Cascades : at'[h] = "running" => target'[h] \in Execs
      BY <1>5, <3>1, <3>2
    <3>6. inbox' \in [Conns -> Seq(Execs \cup {"interrupt"})]
      BY <1>5 DEF ReceiveInterrupt
    <3>7. UNCHANGED <<peer, sent, loopVars, wrapVars, struck, sharedVars, locker, failed,
                      history>>
      BY <1>5 DEF ReceiveInterrupt
    <3>8. \A x \in Execs : Live(x)' => on'[x] \in Conns
      BY <3>4, <3>7
    <3> QED BY <1>5, <3>3, <3>5, <3>6, <3>7, <3>8
  <2> QED BY <2>1, <2>2
<1>6. ASSUME TypeOK, NEW c \in Conns, ReceiveExecute(c) PROVE TypeOK'
  BY <1>6 DEF ReceiveExecute, Reads, Live, Places
<1>7. ASSUME TypeOK, NEW c \in Conns, LoopEnds(c) PROVE TypeOK'
  BY <1>7 DEF LoopEnds, Live, Places
<1>8. ASSUME TypeOK, NEW c \in Conns, Close(c) PROVE TypeOK'
  BY <1>8 DEF Close, Live, Places
<1>9. ASSUME TypeOK, NEW x \in Execs, Begin(x) PROVE TypeOK'
  <2>1. on[x] \in Conns
    BY <1>9 DEF Begin, Runs, Live
  <2>2. sent' \in [Conns -> Seq(Message)]
    BY <1>9, <2>1, WrittenType DEF Begin, Kinds, Terminals
  <2> QED
    BY <1>9, <2>2, ZenonT(40) DEF Begin, Runs, Over, Live, Places
<1>10. ASSUME TypeOK, NEW x \in Execs, EnterCode(x) PROVE TypeOK'
  <2>1. at' \in [Threads -> Places] /\ \A y \in Execs : Live(y)' => Live(y)
    <3>1. Live(x)
      BY <1>10 DEF EnterCode, Runs, Live
    <3>2. PICK p \in {"code", "ended"} : at' = [at EXCEPT ![x] = p]
      BY <1>10 DEF EnterCode, Over
    <3> QED BY <1>10, <3>1, <3>2 DEF Live, Places
  <2>2. /\ oldout' \in [Execs -> Execs \cup {None}] /\ stdout' \in Execs \cup {None}
    <3>1. \/ oldout' = [oldout EXCEPT ![x] = stdout] /\ stdout' = x
          \/ oldout' = oldout /\ stdout' = stdout
      BY <1>10 DEF EnterCode
    <3>2. oldout \in [Execs -> Execs \cup {None}] /\ stdout \in Execs \cup {None}
      BY <1>10
    <3> HIDE DEF TypeOK
    <3> QED BY <3>1, <3>2
  <2>6. escaped' \subseteq Execs /\ locker' \in Execs \cup {None}
    BY <1>10 DEF EnterCode, Over
  <2>3. baseline' \subseteq Threads /\ current' \in Conns \cup {None}
    BY <1>10 DEF EnterCode, LiveThreads
  <2>4. \A k \in Cascades : at'[k] = "running" => at[k] = "running"
    BY <1>10, ThreadsAssumption DEF EnterCode, Over
  <2>5. UNCHANGED <<wireVars, loopVars, localVars, struck, failed, hit, mixed, tangled>>
    BY <1>10 DEF EnterCode
  <2> QED BY <1>10, <2>1, <2>2, <2>3, <2>4, <2>5, <2>6
<1>11. ASSUME TypeOK, NEW x \in Execs, EnterCommand(x) PROVE TypeOK'
  BY <1>11 DEF EnterCommand, Runs, Live, Places
<1>12. ASSUME TypeOK, NEW x \in Execs, Return(x) PROVE TypeOK'
  BY <1>12 DEF Return, Runs, Restored, Live, Places
<1>13. ASSUME TypeOK, NEW x \in Execs, Throw(x) PROVE TypeOK'
  BY <1>13 DEF Throw, Runs, Live, Places
<1>14. ASSUME TypeOK, NEW x \in Execs, Quit(x) PROVE TypeOK'
  BY <1>14 DEF Quit, Runs, Over, Restored, Live, Places
<1>15. ASSUME TypeOK, NEW x \in Execs, InterruptCode(x) PROVE TypeOK'
  BY <1>15, ZenonT(40) DEF InterruptCode, Live, Places
<1>16. ASSUME TypeOK, NEW x \in Execs, CommandEnds(x) PROVE TypeOK'
  <2>1. on[x] \in Conns /\ Live(x)
    BY <1>16 DEF CommandEnds, Runs, Live
  <2>2. CASE /\ \E k \in {"output", "error"} : sent' = Written(on[x], Msg(x, k))
             /\ \E e \in BOOLEAN : failed' = [failed EXCEPT ![x] = e]
             /\ at' = [at EXCEPT ![x] = "reporting"]
             /\ UNCHANGED locker
    <3>1. sent' \in [Conns -> Seq(Message)]
      <4>1. {"output", "error"} \subseteq Kinds
        BY DEF Kinds
      <4>2. sent \in [Conns -> Seq(Message)]
        BY <1>16
      <4> HIDE DEF TypeOK
      <4> QED BY <2>1, <2>2, <4>1, <4>2, WrittenType
    <3>2. failed' \in [Execs -> BOOLEAN]
      BY <1>16, <2>2
    <3>3. at' \in [Threads -> Places]
      BY <1>16, <2>2 DEF Places
    <3>4. UNCHANGED <<peer, inbox, loopVars, localVars, struck, sharedVars, history>>
      BY <1>16 DEF CommandEnds
    <3> QED BY <1>16, <2>1, <2>2, <3>1, <3>2, <3>3, <3>4 DEF Live
  <2>3. CASE Over(x) /\ UNCHANGED <<sent, failed>>
    BY <1>16, <2>3 DEF CommandEnds, Over, Live, Places
  <2> QED BY <1>16, <2>2, <2>3 DEF CommandEnds
<1>17. ASSUME TypeOK, NEW x \in Execs, Catch(x) PROVE TypeOK'
  <2>1. on[x] \in Conns
    BY <1>17 DEF Catch, Handlers, Live
  <2>2. sent' \in [Conns -> Seq(Message)]
    BY <1>17, <2>1, WrittenType DEF Catch, Kinds, Terminals
  <2> QED
    <3>1. at' \in [Threads -> Places] /\ \A y \in Execs : Live(y)' => Live(y)
      <4>1. Live(x)
        BY <1>17 DEF Catch, Handlers, Live
      <4>2. PICK p \in {"reporting", "ended"} : at' = [at EXCEPT ![x] = p]
        BY <1>17 DEF Catch, Over
      <4> QED BY <1>17, <4>1, <4>2 DEF Live, Places
    <3>2. /\ stdout' \in Execs \cup {None} /\ escaped' \subseteq Execs
          /\ locker' \in Execs \cup {None} /\ failed' \in [Execs -> BOOLEAN]
      BY <1>17 DEF Catch, Over, Restored
    <3>3. \A k \in Cascades : at'[k] = "running" => at[k] = "running"
      BY <1>17, ThreadsAssumption DEF Catch, Over
    <3>4. UNCHANGED <<peer, inbox, loopVars, localVars, struck, baseline, oldout, current,
                      hit, mixed, tangled>>
      BY <1>17 DEF Catch
    <3> QED BY <1>17, <2>2, <3>1, <3>2, <3>3, <3>4
<1>18. ASSUME TypeOK, NEW x \in Execs, Report(x) PROVE TypeOK'
  <2>1. on[x] \in Conns
    BY <1>18 DEF Report, Runs, Live
  <2>2. sent' \in [Conns -> Seq(Message)]
    BY <1>18, <2>1, WrittenType DEF Report, FinalState, Kinds, Terminals
  <2> QED
    BY <1>18, <2>2, ZenonT(40) DEF Report, Runs, Over, FinalState, Live, Places
<1>19. ASSUME TypeOK, NEW x \in Execs, Finish(x) PROVE TypeOK'
  BY <1>19 DEF Finish, Runs, Over, Live, Places
<1>20. ASSUME TypeOK, NEW x \in Execs, InterruptElsewhere(x) PROVE TypeOK'
  <2>1. at' \in [Threads -> Places] /\ \A y \in Execs : Live(y)' => Live(y)
    BY <1>20 DEF InterruptElsewhere, Handlers, Live, Places
  <2>2. /\ stdout' \in Execs \cup {None} /\ locker' \in Execs \cup {None}
        /\ struck' \subseteq Threads
    BY <1>20 DEF InterruptElsewhere, Restored
  <2>3. baseline' \subseteq Threads /\ current' \in Conns \cup {None}
    BY <1>20 DEF InterruptElsewhere, LiveThreads
  <2>4. \A k \in Cascades : at'[k] = "running" => at[k] = "running"
    BY <1>20, ThreadsAssumption DEF InterruptElsewhere
  <2>5. UNCHANGED <<wireVars, loopVars, localVars, oldout, failed, history>>
    BY <1>20 DEF InterruptElsewhere
  <2> QED BY <1>20, <2>1, <2>2, <2>3, <2>4, <2>5
<1>21. ASSUME TypeOK, NEW t \in Execs \cup Users, Prints(t) PROVE TypeOK'
  <2>1. sent' \in [Conns -> Seq(Message)]
    BY <1>21, WrittenType DEF Prints, Kinds
  <2> QED
    BY <1>21, <2>1 DEF Prints, Live
<1>22. ASSUME TypeOK, NEW x \in Execs, Spawn(x) PROVE TypeOK'
  BY <1>22, ThreadsAssumption DEF Spawn, Runs, Live, Places
<1>23. ASSUME TypeOK, NEW x \in Execs, CommandPrints(x) PROVE TypeOK'
  <2>1. PICK c \in Conns : sent' = Written(c, Msg(x, "output"))
    BY <1>23, RelaysSomewhere DEF CommandPrints
  <2>2. sent' \in [Conns -> Seq(Message)]
    BY <1>23, <2>1, WrittenType DEF Kinds
  <2> QED BY <1>23, <2>2 DEF CommandPrints, Relays, Live
<1>24. ASSUME TypeOK, NEW u \in Users, UserEnds(u) PROVE TypeOK'
  BY <1>24 DEF UserEnds, Live, Places
<1>25. ASSUME TypeOK, NEW k \in Cascades, Strike(k) PROVE TypeOK'
  BY <1>25 DEF Strike, Targets, LiveThreads, Live, Places
<1>26. ASSUME TypeOK, NEW k \in Cascades, CascadeEnds(k) PROVE TypeOK'
  BY <1>26 DEF CascadeEnds, Live, Places
<1>27. ASSUME TypeOK, UNCHANGED vars PROVE TypeOK'
  BY <1>27 DEF vars, Live
<1>28. ASSUME TypeOK, NEW x \in Execs, Announce(x) PROVE TypeOK'
  <2>1. PICK c \in Conns : sent' = Written(c, Msg(x, "output"))
    BY <1>28, RelaysSomewhere DEF Announce
  <2>2. sent' \in [Conns -> Seq(Message)]
    BY <1>28, <2>1, WrittenType DEF Kinds
  <2> QED BY <1>28, <2>2 DEF Announce, Relays, Live
<1>29. ASSUME TypeOK, NEW t \in Execs \cup Users, EnterWrap(t) PROVE TypeOK'
  BY <1>29 DEF EnterWrap, UserCode, Live
<1>30. ASSUME TypeOK, NEW t \in Execs \cup Users, LeaveWrap(t) PROVE TypeOK'
  BY <1>30 DEF LeaveWrap, Wrapped, Live
<1> QED
  BY <1>1, <1>2, <1>3, <1>4, <1>5, <1>6, <1>7, <1>8, <1>9, <1>10, <1>11, <1>12, <1>13,
     <1>14, <1>15, <1>16, <1>17, <1>18, <1>19, <1>20, <1>21, <1>22, <1>23, <1>24,
     <1>25, <1>26, <1>27, <1>28, <1>29, <1>30
     DEF Next, ConnStep, LoopStep, ExecStep, CodeEnds, UserStep, CascadeStep

-----------------------------------------------------------------------------
(***************************************************************************)
(* Loops and streams.                                                      *)
(***************************************************************************)

\* Every step keeps the core of the invariant.
LEMMA CoreStep == Shapes /\ Core /\ [Next]_vars => Core'
<1> USE ThreadsAssumption
    DEF Core, OneAtATime, MainOutlives, OneConnection, InCode, Handlers, StreamsSet,
        StreamsOwned, StreamsNear, Shapes, Live, Threads, loopVars, sharedVars, history
<1>1. ASSUME Shapes, Core, NEW c \in Conns, Connect(c) PROVE Core'
  BY <1>1 DEF Connect
<1>2. ASSUME Shapes, Core, AcceptKills PROVE Core'
  BY <1>2 DEF AcceptKills
<1>3. ASSUME Shapes, Core, NEW c \in Conns, HangUp(c) PROVE Core'
  BY <1>3 DEF HangUp
<1>4. ASSUME Shapes, Core, NEW c \in Conns, NEW r \in Execs \cup {"interrupt"}, Submit(c, r)
      PROVE Core'
  BY <1>4 DEF Submit
<1>5. ASSUME Shapes, Core, NEW c \in Conns, ReceiveInterrupt(c) PROVE Core'
  BY <1>5 DEF ReceiveInterrupt, Reads, Joined
<1>6. ASSUME Shapes, Core, NEW c \in Conns, ReceiveExecute(c) PROVE Core'
  <2>1. OneAtATime'
    BY <1>6 DEF ReceiveExecute, Reads, Joined
  <2>2. MainOutlives'
    BY <1>6 DEF ReceiveExecute, Reads, Joined
  <2>3. OneConnection'
    BY <1>6 DEF ReceiveExecute, Reads, Joined
  <2>4. StreamsSet'
    BY <1>6 DEF ReceiveExecute, Reads, Joined
  <2>5. StreamsOwned'
    BY <1>6 DEF ReceiveExecute, Reads, Joined
  <2>6. StreamsNear'
    BY <1>6 DEF ReceiveExecute, Reads, Joined
  <2> QED BY <2>1, <2>2, <2>3, <2>4, <2>5, <2>6
<1>7. ASSUME Shapes, Core, NEW c \in Conns, LoopEnds(c) PROVE Core'
  BY <1>7 DEF LoopEnds
<1>8. ASSUME Shapes, Core, NEW c \in Conns, Close(c) PROVE Core'
  BY <1>8 DEF Close
<1>9. ASSUME Shapes, Core, NEW x \in Execs, Begin(x) PROVE Core'
  BY <1>9 DEF Begin, Runs, Over
<1>10. ASSUME Shapes, Core, NEW x \in Execs, EnterCode(x) PROVE Core'
  BY <1>10 DEF EnterCode, Over, Runs
<1>11. ASSUME Shapes, Core, NEW x \in Execs, EnterCommand(x) PROVE Core'
  BY <1>11 DEF EnterCommand, Runs
<1>12. ASSUME Shapes, Core, NEW x \in Execs, Return(x) PROVE Core'
  BY <1>12 DEF Return, Runs, Restored
<1>13. ASSUME Shapes, Core, NEW x \in Execs, Throw(x) PROVE Core'
  BY <1>13 DEF Throw, Runs
<1>14. ASSUME Shapes, Core, NEW x \in Execs, Quit(x) PROVE Core'
  BY <1>14 DEF Quit, Runs, Over, Restored
<1>15. ASSUME Shapes, Core, NEW x \in Execs, InterruptCode(x) PROVE Core'
  BY <1>15 DEF InterruptCode
<1>16. ASSUME Shapes, Core, NEW x \in Execs, CommandEnds(x) PROVE Core'
  BY <1>16 DEF CommandEnds, Runs, Over
<1>17. ASSUME Shapes, Core, NEW x \in Execs, Catch(x) PROVE Core'
  BY <1>17 DEF Catch, Handlers, Over, Restored
<1>18. ASSUME Shapes, Core, NEW x \in Execs, Report(x) PROVE Core'
  BY <1>18 DEF Report, Runs, Over
<1>19. ASSUME Shapes, Core, NEW x \in Execs, Finish(x) PROVE Core'
  BY <1>19 DEF Finish, Runs, Over
<1>20. ASSUME Shapes, Core, NEW x \in Execs, InterruptElsewhere(x) PROVE Core'
  BY <1>20 DEF InterruptElsewhere, Restored
<1>21. ASSUME Shapes, Core, NEW t \in Execs \cup Users, Prints(t) PROVE Core'
  BY <1>21 DEF Prints
<1>22. ASSUME Shapes, Core, NEW x \in Execs, Spawn(x) PROVE Core'
  BY <1>22 DEF Spawn, Runs
<1>23. ASSUME Shapes, Core, NEW x \in Execs, CommandPrints(x) PROVE Core'
  BY <1>23 DEF CommandPrints, Relays, Runs
<1>24. ASSUME Shapes, Core, NEW u \in Users, UserEnds(u) PROVE Core'
  BY <1>24 DEF UserEnds
<1>25. ASSUME Shapes, Core, NEW k \in Cascades, Strike(k) PROVE Core'
  BY <1>25 DEF Strike
<1>26. ASSUME Shapes, Core, NEW k \in Cascades, CascadeEnds(k) PROVE Core'
  BY <1>26 DEF CascadeEnds
<1>27. ASSUME Shapes, Core, UNCHANGED vars PROVE Core'
  BY <1>27 DEF vars
<1>28. ASSUME Shapes, Core, NEW x \in Execs, Announce(x) PROVE Core'
  BY <1>28 DEF Announce, Relays, Runs
<1>29. ASSUME Shapes, Core, NEW t \in Execs \cup Users, EnterWrap(t) PROVE Core'
  BY <1>29 DEF EnterWrap, UserCode
<1>30. ASSUME Shapes, Core, NEW t \in Execs \cup Users, LeaveWrap(t) PROVE Core'
  <2>1. at' = at /\ on' = on /\ job' = job /\ oldout' = oldout
    BY <1>30 DEF LeaveWrap
  <2>2. ~mixed' => ~mixed /\ (~tangled' => ~tangled /\ stdout' = stdout)
    BY <1>30 DEF LeaveWrap
  <2>3. ASSUME ~mixed', NEW x \in Execs, Live(x), stdout' # None
        PROVE  stdout' = stdout \/ on[stdout'] = on[x]
    BY <1>30, <2>3 DEF LeaveWrap
  <2>4. OneAtATime' /\ MainOutlives' /\ OneConnection'
    BY <1>30, <2>1, <2>2
  <2>5. StreamsSet' /\ StreamsOwned'
    BY <1>30, <2>1, <2>2
  <2>6. StreamsNear'
    BY <1>30, <2>1, <2>2, <2>3
  <2> QED BY <2>4, <2>5, <2>6
<1> QED
  BY <1>1, <1>2, <1>3, <1>4, <1>5, <1>6, <1>7, <1>8, <1>9, <1>10, <1>11, <1>12, <1>13,
     <1>14, <1>15, <1>16, <1>17, <1>18, <1>19, <1>20, <1>21, <1>22, <1>23, <1>24,
     <1>25, <1>26, <1>27, <1>28, <1>29, <1>30
     DEF Next, ConnStep, LoopStep, ExecStep, CodeEnds, UserStep, CascadeStep

-----------------------------------------------------------------------------
(***************************************************************************)
(* Theorems.                                                               *)
(***************************************************************************)

\* The inductive invariant: types, one execution per connection, and whose output
\* streams are set, by execute_code and by whoever leaves a wrap().
THEOREM Invariance == Spec => []IInv
<1>1. Init => IInv
  <2>1. ASSUME Init PROVE TypeOK
    <3>1. at \in [Threads -> Places] /\ \A t \in Threads : Live(t) <=> t = Main
      BY <2>1 DEF Init, Places, Live
    <3>2. /\ inbox \in [Conns -> Seq(Execs \cup {"interrupt"})]
          /\ sent \in [Conns -> Seq(Message)]
      BY <2>1 DEF Init
    <3>3. Main \notin Execs \cup Cascades
      BY ThreadsAssumption
    <3>4. \A k \in Cascades : at[k] # "running"
      BY <2>1 DEF Init, Threads
    <3>5. /\ job \in [Conns -> Execs \cup {None}]
          /\ on \in [Execs -> Conns \cup {None}]
          /\ target \in [Cascades -> Execs \cup {None}]
          /\ oldout \in [Execs -> Execs \cup {None}]
          /\ failed \in [Execs -> BOOLEAN]
          /\ peer \in [Conns -> {"new", "open", "gone"}]
          /\ wrap \in [Execs \cup Users -> {"before", "inside", "after"}]
          /\ found \in [Execs \cup Users -> Execs \cup {None}]
      BY <2>1 DEF Init
    <3>6. /\ struck = {} /\ baseline = {} /\ hit = {} /\ escaped = {}
          /\ mixed = FALSE /\ tangled = FALSE /\ stdout = None /\ current = None /\ locker = None
      BY <2>1 DEF Init
    <3> QED BY <3>1, <3>2, <3>3, <3>4, <3>5, <3>6 DEF TypeOK, Threads
  <2>2. Init => OneAtATime /\ MainOutlives
    BY ThreadsAssumption DEF Init, OneAtATime, MainOutlives, Live, Threads
  <2>3. Init => OneConnection /\ StreamsSet /\ StreamsOwned /\ StreamsNear
    BY ThreadsAssumption DEF Init, OneConnection, StreamsSet, StreamsOwned, StreamsNear,
                             InCode, Handlers, Live, Threads
  <2> QED BY <2>1, <2>2, <2>3 DEF IInv, Core
<1>2. IInv /\ [Next]_vars => IInv'
  <2>1. TypeOK => Shapes
    BY DEF TypeOK, Shapes
  <2> QED BY <2>1, TypeStep, CoreStep DEF IInv
<1> QED BY <1>1, <1>2, PTL DEF Spec

\* Every variable of the executor server keeps its type; a running execution has a
\* connection and a cascade has an execution to interrupt.
THEOREM TypeCorrect == Spec => []TypeOK
<1>1. IInv => TypeOK
  BY DEF IInv
<1> QED BY Invariance, <1>1, PTL

\* _dispatch_msg joins the execution before: executions of a connection never overlap,
\* and exec_thread is the one that runs.
THEOREM ConnectionRunsOne == Spec => []OneAtATime
<1>1. IInv => OneAtATime
  BY DEF IInv, Core
<1> QED BY Invariance, <1>1, PTL

\* However executions end (result, exception, SystemExit, a handler that raises, interrupt
\* at any point), the container's own stdout is left behind, with wrap() used by any number
\* of threads; until two connections execute together, or a thread leaves its wrap() after
\* the streams were replaced under it.
THEOREM StreamsComeBack == Spec => []StdoutRestored
<1>1. IInv => StdoutRestored
  BY DEF IInv, Core, TypeOK, StreamsOwned, InCode, Handlers, StdoutRestored, Live
<1> QED BY Invariance, <1>1, PTL

-----------------------------------------------------------------------------
(***************************************************************************)
(* What connections carry: definitions.                                    *)
(***************************************************************************)

\* A receive loop has a client that connected, and an execution belongs to a connection
\* that was accepted.
Accepted ==
    /\ \A c \in Conns : at[c] # "none" => peer[c] # "new"
    /\ \A x \in Execs : on[x] \in Conns => at[on[x]] # "none"

\* A request waits in one place until its execution starts.
Waiting(c, i, d, j) == inbox[c][i] = inbox[d][j] => c = d /\ i = j

Unread ==
    /\ \A x \in Execs : at[x] = "none" <=> on[x] = None
    /\ \A c \in Conns : \A i \in DOMAIN inbox[c] :
          /\ inbox[c][i] \in Execs => on[inbox[c][i]] = None
          /\ \A d \in Conns : \A j \in DOMAIN inbox[d] : Waiting(c, i, d, j)

\* Between the two ends of the try block of handle_message.
Inside(x) == at[x] \in {"begun", "code", "command", "reporting"} \cup Handlers

\* While nothing was mixed, what is shown goes to the connection of the code that runs, and
\* the locker is that of the execution inside its try block.
Alone ==
    ~mixed => \A x \in Execs :
        /\ InCode(x) => current = on[x]
        /\ Inside(x) => locker = x

StruckWereHit == struck \cap Execs \subseteq hit

\* The threads of user code are not those of executions.
NotUsers == \A x \in Execs : at[x] # "user"

Side == Accepted /\ Unread /\ Alone /\ StruckWereHit /\ NotUsers

Absent(x, s) == \A i \in DOMAIN s : s[i].by # x

\* The last block of s is that of x, and it is open.
Open(x, s) ==
    /\ ~Absent(x, s)
    /\ \A j \in DOMAIN s : s[j].by = x =>
          /\ s[j].kind \notin Terminals
          /\ \A h \in DOMAIN s : h > j /\ s[h].by \in Execs => s[h].by = x

\* The i-th message opens the block of its execution, or goes on with it.
InFrame(s, i) ==
    LET x == s[i].by
        before == {j \in 1..(i - 1) : s[j].by \in Execs}
    IN  x \in Execs =>
          /\ s[i].kind = "running" <=> \A j \in before : s[j].by # x
          /\ \A j \in before : s[j].by = x =>
                /\ s[j].kind \notin Terminals
                /\ \A h \in before : h > j => s[h].by = x

Frames == \A c \in Conns : \A i \in DOMAIN sent[c] : InFrame(sent[c], i)

Owned == \A c \in Conns : \A i \in DOMAIN sent[c] :
            sent[c][i].by \in Execs => on[sent[c][i].by] = c

Blocks ==
    ~mixed =>
      /\ Frames
      /\ Owned
      /\ \A x \in Execs : at[x] = "starting" => Absent(x, sent[on[x]])
      /\ \A x \in Execs : Inside(x) /\ peer[on[x]] = "open" => Open(x, sent[on[x]])

\* EndsAnswered, from the moment the terminal state was sent.
Ends ==
    \A x \in Execs : at[x] \in {"reported", "ended"} /\ Kept(on[x]) =>
        Answered(x) \/ x \in hit \cup escaped \/ mixed

FrameInv == IInv /\ Side /\ Blocks /\ Ends

-----------------------------------------------------------------------------
(***************************************************************************)
(* What connections carry: loops and threads.                              *)
(***************************************************************************)

\* Connect alone opens a connection, and its loop is never forgotten.
LEMMA AcceptedStep == TypeOK /\ Accepted /\ Unread /\ [Next]_vars => Accepted'
<1> USE ThreadsAssumption DEF TypeOK, Accepted, Live, Threads, wireVars, loopVars, history
<1>1. ASSUME TypeOK, Accepted, Unread, NEW c \in Conns, Connect(c) PROVE Accepted'
  BY <1>1 DEF Connect
<1>2. ASSUME TypeOK, Accepted, Unread, AcceptKills PROVE Accepted'
  BY <1>2 DEF AcceptKills
<1>3. ASSUME TypeOK, Accepted, Unread, NEW c \in Conns, HangUp(c) PROVE Accepted'
  BY <1>3 DEF HangUp
<1>4. ASSUME TypeOK, Accepted, Unread, NEW c \in Conns, NEW r \in Execs \cup {"interrupt"},
             Submit(c, r)
      PROVE Accepted'
  BY <1>4 DEF Submit
<1>5. ASSUME TypeOK, Accepted, Unread, NEW c \in Conns, ReceiveInterrupt(c) PROVE Accepted'
  BY <1>5 DEF ReceiveInterrupt, Reads
<1>6. ASSUME TypeOK, Accepted, Unread, NEW c \in Conns, ReceiveExecute(c) PROVE Accepted'
  BY <1>6 DEF ReceiveExecute, Reads
<1>7. ASSUME TypeOK, Accepted, Unread, NEW c \in Conns, LoopEnds(c) PROVE Accepted'
  BY <1>7 DEF LoopEnds
<1>8. ASSUME TypeOK, Accepted, Unread, NEW c \in Conns, Close(c) PROVE Accepted'
  BY <1>8 DEF Close
<1>9. ASSUME TypeOK, Accepted, Unread, NEW x \in Execs, Begin(x) PROVE Accepted'
  BY <1>9 DEF Begin, Runs, Over
<1>10. ASSUME TypeOK, Accepted, Unread, NEW x \in Execs, EnterCode(x) PROVE Accepted'
  BY <1>10 DEF EnterCode, Over, Runs
<1>11. ASSUME TypeOK, Accepted, Unread, NEW x \in Execs, EnterCommand(x) PROVE Accepted'
  BY <1>11 DEF EnterCommand, Runs
<1>12. ASSUME TypeOK, Accepted, Unread, NEW x \in Execs, Return(x) PROVE Accepted'
  BY <1>12 DEF Return, Runs
<1>13. ASSUME TypeOK, Accepted, Unread, NEW x \in Execs, Throw(x) PROVE Accepted'
  BY <1>13 DEF Throw, Runs
<1>14. ASSUME TypeOK, Accepted, Unread, NEW x \in Execs, Quit(x) PROVE Accepted'
  BY <1>14 DEF Quit, Runs, Over
<1>15. ASSUME TypeOK, Accepted, Unread, NEW x \in Execs, InterruptCode(x) PROVE Accepted'
  BY <1>15 DEF InterruptCode
<1>16. ASSUME TypeOK, Accepted, Unread, NEW x \in Execs, CommandEnds(x) PROVE Accepted'
  BY <1>16 DEF CommandEnds, Runs, Over
<1>17. ASSUME TypeOK, Accepted, Unread, NEW x \in Execs, Catch(x) PROVE Accepted'
  BY <1>17 DEF Catch, Handlers, Over
<1>18. ASSUME TypeOK, Accepted, Unread, NEW x \in Execs, Report(x) PROVE Accepted'
  BY <1>18 DEF Report, Runs, Over
<1>19. ASSUME TypeOK, Accepted, Unread, NEW x \in Execs, Finish(x) PROVE Accepted'
  BY <1>19 DEF Finish, Runs, Over
<1>20. ASSUME TypeOK, Accepted, Unread, NEW x \in Execs, InterruptElsewhere(x)
       PROVE Accepted'
  BY <1>20 DEF InterruptElsewhere
<1>21. ASSUME TypeOK, Accepted, Unread, NEW t \in Execs \cup Users, Prints(t)
       PROVE Accepted'
  BY <1>21 DEF Prints
<1>22. ASSUME TypeOK, Accepted, Unread, NEW x \in Execs, Spawn(x) PROVE Accepted'
  BY <1>22 DEF Spawn, Runs
<1>23. ASSUME TypeOK, Accepted, Unread, NEW x \in Execs, CommandPrints(x) PROVE Accepted'
  BY <1>23 DEF CommandPrints, Relays
<1>24. ASSUME TypeOK, Accepted, Unread, NEW u \in Users, UserEnds(u) PROVE Accepted'
  BY <1>24 DEF UserEnds
<1>25. ASSUME TypeOK, Accepted, Unread, NEW k \in Cascades, Strike(k) PROVE Accepted'
  BY <1>25 DEF Strike
<1>26. ASSUME TypeOK, Accepted, Unread, NEW k \in Cascades, CascadeEnds(k) PROVE Accepted'
  BY <1>26 DEF CascadeEnds
<1>27. ASSUME TypeOK, Accepted, Unread, UNCHANGED vars PROVE Accepted'
  BY <1>27 DEF vars
<1>28. ASSUME TypeOK, Accepted, Unread, NEW x \in Execs, Announce(x) PROVE Accepted'
  BY <1>28 DEF Announce, Relays, Runs
<1>29. ASSUME TypeOK, Accepted, Unread, NEW t \in Execs \cup Users, EnterWrap(t)
       PROVE Accepted'
  BY <1>29 DEF EnterWrap, UserCode
<1>30. ASSUME TypeOK, Accepted, Unread, NEW t \in Execs \cup Users, LeaveWrap(t)
       PROVE Accepted'
  BY <1>30 DEF LeaveWrap, Wrapped
<1> QED
  BY <1>1, <1>2, <1>3, <1>4, <1>5, <1>6, <1>7, <1>8, <1>9, <1>10, <1>11, <1>12, <1>13,
     <1>14, <1>15, <1>16, <1>17, <1>18, <1>19, <1>20, <1>21, <1>22, <1>23, <1>24, <1>25,
        <1>26, <1>27, <1>28, <1>29, <1>30
     DEF Next, ConnStep, LoopStep, ExecStep, CodeEnds, UserStep, CascadeStep

\* A request is taken out of its inbox when its execution starts, and a client sends it once.
LEMMA UnreadStep == TypeOK /\ Unread /\ [Next]_vars => Unread'
<1> USE ThreadsAssumption DEF TypeOK, Unread, Waiting, Live, Threads, wireVars, loopVars,
   history
<1>1. ASSUME TypeOK, Unread, NEW c \in Conns, Connect(c) PROVE Unread'
  BY <1>1 DEF Connect
<1>2. ASSUME TypeOK, Unread, AcceptKills PROVE Unread'
  BY <1>2 DEF AcceptKills
<1>3. ASSUME TypeOK, Unread, NEW c \in Conns, HangUp(c) PROVE Unread'
  BY <1>3 DEF HangUp
<1>4. ASSUME TypeOK, Unread, NEW c \in Conns, NEW r \in Execs \cup {"interrupt"},
             Submit(c, r)
      PROVE Unread'
  BY <1>4 DEF Submit
<1>5. ASSUME TypeOK, Unread, NEW c \in Conns, ReceiveInterrupt(c) PROVE Unread'
  BY <1>5, SMTT(30) DEF ReceiveInterrupt, Reads
<1>6. ASSUME TypeOK, Unread, NEW c \in Conns, ReceiveExecute(c) PROVE Unread'
  BY <1>6, SMTT(30) DEF ReceiveExecute, Reads
<1>7. ASSUME TypeOK, Unread, NEW c \in Conns, LoopEnds(c) PROVE Unread'
  BY <1>7 DEF LoopEnds
<1>8. ASSUME TypeOK, Unread, NEW c \in Conns, Close(c) PROVE Unread'
  BY <1>8 DEF Close
<1>9. ASSUME TypeOK, Unread, NEW x \in Execs, Begin(x) PROVE Unread'
  BY <1>9 DEF Begin, Runs, Over
<1>10. ASSUME TypeOK, Unread, NEW x \in Execs, EnterCode(x) PROVE Unread'
  BY <1>10 DEF EnterCode, Over, Runs
<1>11. ASSUME TypeOK, Unread, NEW x \in Execs, EnterCommand(x) PROVE Unread'
  BY <1>11 DEF EnterCommand, Runs
<1>12. ASSUME TypeOK, Unread, NEW x \in Execs, Return(x) PROVE Unread'
  BY <1>12 DEF Return, Runs
<1>13. ASSUME TypeOK, Unread, NEW x \in Execs, Throw(x) PROVE Unread'
  BY <1>13 DEF Throw, Runs
<1>14. ASSUME TypeOK, Unread, NEW x \in Execs, Quit(x) PROVE Unread'
  BY <1>14 DEF Quit, Runs, Over
<1>15. ASSUME TypeOK, Unread, NEW x \in Execs, InterruptCode(x) PROVE Unread'
  BY <1>15 DEF InterruptCode
<1>16. ASSUME TypeOK, Unread, NEW x \in Execs, CommandEnds(x) PROVE Unread'
  BY <1>16 DEF CommandEnds, Runs, Over
<1>17. ASSUME TypeOK, Unread, NEW x \in Execs, Catch(x) PROVE Unread'
  BY <1>17 DEF Catch, Handlers, Over
<1>18. ASSUME TypeOK, Unread, NEW x \in Execs, Report(x) PROVE Unread'
  BY <1>18 DEF Report, Runs, Over
<1>19. ASSUME TypeOK, Unread, NEW x \in Execs, Finish(x) PROVE Unread'
  BY <1>19 DEF Finish, Runs, Over
<1>20. ASSUME TypeOK, Unread, NEW x \in Execs, InterruptElsewhere(x) PROVE Unread'
  <2>1. /\ \A y \in Execs : at'[y] = "none" <=> at[y] = "none"
        /\ on' = on /\ inbox' = inbox
    BY <1>20 DEF InterruptElsewhere, Handlers
  <2> QED BY <1>20, <2>1
<1>21. ASSUME TypeOK, Unread, NEW t \in Execs \cup Users, Prints(t) PROVE Unread'
  BY <1>21 DEF Prints
<1>22. ASSUME TypeOK, Unread, NEW x \in Execs, Spawn(x) PROVE Unread'
  BY <1>22 DEF Spawn, Runs
<1>23. ASSUME TypeOK, Unread, NEW x \in Execs, CommandPrints(x) PROVE Unread'
  BY <1>23 DEF CommandPrints, Relays
<1>24. ASSUME TypeOK, Unread, NEW u \in Users, UserEnds(u) PROVE Unread'
  BY <1>24 DEF UserEnds
<1>25. ASSUME TypeOK, Unread, NEW k \in Cascades, Strike(k) PROVE Unread'
  BY <1>25 DEF Strike
<1>26. ASSUME TypeOK, Unread, NEW k \in Cascades, CascadeEnds(k) PROVE Unread'
  BY <1>26 DEF CascadeEnds
<1>27. ASSUME TypeOK, Unread, UNCHANGED vars PROVE Unread'
  BY <1>27 DEF vars
<1>28. ASSUME TypeOK, Unread, NEW x \in Execs, Announce(x) PROVE Unread'
  BY <1>28 DEF Announce, Relays, Runs
<1>29. ASSUME TypeOK, Unread, NEW t \in Execs \cup Users, EnterWrap(t) PROVE Unread'
  BY <1>29 DEF EnterWrap, UserCode
<1>30. ASSUME TypeOK, Unread, NEW t \in Execs \cup Users, LeaveWrap(t) PROVE Unread'
  BY <1>30 DEF LeaveWrap, Wrapped
<1> QED
  BY <1>1, <1>2, <1>3, <1>4, <1>5, <1>6, <1>7, <1>8, <1>9, <1>10, <1>11, <1>12, <1>13,
     <1>14, <1>15, <1>16, <1>17, <1>18, <1>19, <1>20, <1>21, <1>22, <1>23, <1>24, <1>25,
        <1>26, <1>27, <1>28, <1>29, <1>30
     DEF Next, ConnStep, LoopStep, ExecStep, CodeEnds, UserStep, CascadeStep

\* With one execution at a time, nobody else sets the connection or drops the locker.
LEMMA AloneStep == Shapes /\ Core /\ Alone /\ [Next]_vars => Alone'
<1> USE ThreadsAssumption
    DEF Core, OneAtATime, OneConnection, InCode, Handlers, Inside, Shapes, Alone, Live, Threads,
        loopVars, sharedVars, history
<1>1. ASSUME Shapes, Core, Alone, NEW c \in Conns, Connect(c) PROVE Alone'
  BY <1>1 DEF Connect
<1>2. ASSUME Shapes, Core, Alone, AcceptKills PROVE Alone'
  BY <1>2 DEF AcceptKills
<1>3. ASSUME Shapes, Core, Alone, NEW c \in Conns, HangUp(c) PROVE Alone'
  BY <1>3 DEF HangUp
<1>4. ASSUME Shapes, Core, Alone, NEW c \in Conns, NEW r \in Execs \cup {"interrupt"},
             Submit(c, r)
      PROVE Alone'
  BY <1>4 DEF Submit
<1>5. ASSUME Shapes, Core, Alone, NEW c \in Conns, ReceiveInterrupt(c) PROVE Alone'
  BY <1>5 DEF ReceiveInterrupt, Reads
<1>6. ASSUME Shapes, Core, Alone, NEW c \in Conns, ReceiveExecute(c) PROVE Alone'
  BY <1>6 DEF ReceiveExecute, Reads
<1>7. ASSUME Shapes, Core, Alone, NEW c \in Conns, LoopEnds(c) PROVE Alone'
  BY <1>7 DEF LoopEnds
<1>8. ASSUME Shapes, Core, Alone, NEW c \in Conns, Close(c) PROVE Alone'
  BY <1>8 DEF Close
<1>9. ASSUME Shapes, Core, Alone, NEW x \in Execs, Begin(x) PROVE Alone'
  BY <1>9 DEF Begin, Runs, Over
<1>10. ASSUME Shapes, Core, Alone, NEW x \in Execs, EnterCode(x) PROVE Alone'
  BY <1>10 DEF EnterCode, Over, Runs
<1>11. ASSUME Shapes, Core, Alone, NEW x \in Execs, EnterCommand(x) PROVE Alone'
  BY <1>11 DEF EnterCommand, Runs
<1>12. ASSUME Shapes, Core, Alone, NEW x \in Execs, Return(x) PROVE Alone'
  BY <1>12 DEF Return, Runs
<1>13. ASSUME Shapes, Core, Alone, NEW x \in Execs, Throw(x) PROVE Alone'
  BY <1>13 DEF Throw, Runs
<1>14. ASSUME Shapes, Core, Alone, NEW x \in Execs, Quit(x) PROVE Alone'
  BY <1>14 DEF Quit, Runs, Over
<1>15. ASSUME Shapes, Core, Alone, NEW x \in Execs, InterruptCode(x) PROVE Alone'
  BY <1>15 DEF InterruptCode
<1>16. ASSUME Shapes, Core, Alone, NEW x \in Execs, CommandEnds(x) PROVE Alone'
  BY <1>16 DEF CommandEnds, Runs, Over
<1>17. ASSUME Shapes, Core, Alone, NEW x \in Execs, Catch(x) PROVE Alone'
  BY <1>17 DEF Catch, Handlers, Over
<1>18. ASSUME Shapes, Core, Alone, NEW x \in Execs, Report(x) PROVE Alone'
  BY <1>18 DEF Report, Runs, Over
<1>19. ASSUME Shapes, Core, Alone, NEW x \in Execs, Finish(x) PROVE Alone'
  BY <1>19 DEF Finish, Runs, Over
<1>20. ASSUME Shapes, Core, Alone, NEW x \in Execs, InterruptElsewhere(x) PROVE Alone'
  BY <1>20 DEF InterruptElsewhere
<1>21. ASSUME Shapes, Core, Alone, NEW t \in Execs \cup Users, Prints(t) PROVE Alone'
  BY <1>21 DEF Prints
<1>22. ASSUME Shapes, Core, Alone, NEW x \in Execs, Spawn(x) PROVE Alone'
  BY <1>22 DEF Spawn, Runs
<1>23. ASSUME Shapes, Core, Alone, NEW x \in Execs, CommandPrints(x) PROVE Alone'
  BY <1>23 DEF CommandPrints, Relays
<1>24. ASSUME Shapes, Core, Alone, NEW u \in Users, UserEnds(u) PROVE Alone'
  BY <1>24 DEF UserEnds
<1>25. ASSUME Shapes, Core, Alone, NEW k \in Cascades, Strike(k) PROVE Alone'
  BY <1>25 DEF Strike
<1>26. ASSUME Shapes, Core, Alone, NEW k \in Cascades, CascadeEnds(k) PROVE Alone'
  BY <1>26 DEF CascadeEnds
<1>27. ASSUME Shapes, Core, Alone, UNCHANGED vars PROVE Alone'
  BY <1>27 DEF vars
<1>28. ASSUME Shapes, Core, Alone, NEW x \in Execs, Announce(x) PROVE Alone'
  BY <1>28 DEF Announce, Relays, Runs
<1>29. ASSUME Shapes, Core, Alone, NEW t \in Execs \cup Users, EnterWrap(t) PROVE Alone'
  BY <1>29 DEF EnterWrap, UserCode
<1>30. ASSUME Shapes, Core, Alone, NEW t \in Execs \cup Users, LeaveWrap(t) PROVE Alone'
  BY <1>30 DEF LeaveWrap, Wrapped
<1> QED
  BY <1>1, <1>2, <1>3, <1>4, <1>5, <1>6, <1>7, <1>8, <1>9, <1>10, <1>11, <1>12, <1>13,
     <1>14, <1>15, <1>16, <1>17, <1>18, <1>19, <1>20, <1>21, <1>22, <1>23, <1>24, <1>25,
        <1>26, <1>27, <1>28, <1>29, <1>30
     DEF Next, ConnStep, LoopStep, ExecStep, CodeEnds, UserStep, CascadeStep

\* A cascade that posts the exception notes whom it hit.
LEMMA StruckStep == StruckWereHit /\ [Next]_vars => StruckWereHit'
<1> USE ThreadsAssumption DEF StruckWereHit, history
<1>1. ASSUME StruckWereHit, NEW c \in Conns, Connect(c) PROVE StruckWereHit'
  BY <1>1 DEF Connect
<1>2. ASSUME StruckWereHit, AcceptKills PROVE StruckWereHit'
  BY <1>2 DEF AcceptKills
<1>3. ASSUME StruckWereHit, NEW c \in Conns, HangUp(c) PROVE StruckWereHit'
  BY <1>3 DEF HangUp
<1>4. ASSUME StruckWereHit, NEW c \in Conns, NEW r \in Execs \cup {"interrupt"},
             Submit(c, r)
      PROVE StruckWereHit'
  BY <1>4 DEF Submit
<1>5. ASSUME StruckWereHit, NEW c \in Conns, ReceiveInterrupt(c) PROVE StruckWereHit'
  BY <1>5 DEF ReceiveInterrupt, Reads
<1>6. ASSUME StruckWereHit, NEW c \in Conns, ReceiveExecute(c) PROVE StruckWereHit'
  BY <1>6 DEF ReceiveExecute, Reads
<1>7. ASSUME StruckWereHit, NEW c \in Conns, LoopEnds(c) PROVE StruckWereHit'
  BY <1>7 DEF LoopEnds
<1>8. ASSUME StruckWereHit, NEW c \in Conns, Close(c) PROVE StruckWereHit'
  BY <1>8 DEF Close
<1>9. ASSUME StruckWereHit, NEW x \in Execs, Begin(x) PROVE StruckWereHit'
  BY <1>9 DEF Begin, Runs, Over
<1>10. ASSUME StruckWereHit, NEW x \in Execs, EnterCode(x) PROVE StruckWereHit'
  BY <1>10 DEF EnterCode, Over, Runs
<1>11. ASSUME StruckWereHit, NEW x \in Execs, EnterCommand(x) PROVE StruckWereHit'
  BY <1>11 DEF EnterCommand, Runs
<1>12. ASSUME StruckWereHit, NEW x \in Execs, Return(x) PROVE StruckWereHit'
  BY <1>12 DEF Return, Runs
<1>13. ASSUME StruckWereHit, NEW x \in Execs, Throw(x) PROVE StruckWereHit'
  BY <1>13 DEF Throw, Runs
<1>14. ASSUME StruckWereHit, NEW x \in Execs, Quit(x) PROVE StruckWereHit'
  BY <1>14 DEF Quit, Runs, Over
<1>15. ASSUME StruckWereHit, NEW x \in Execs, InterruptCode(x) PROVE StruckWereHit'
  BY <1>15 DEF InterruptCode
<1>16. ASSUME StruckWereHit, NEW x \in Execs, CommandEnds(x) PROVE StruckWereHit'
  BY <1>16 DEF CommandEnds, Runs, Over
<1>17. ASSUME StruckWereHit, NEW x \in Execs, Catch(x) PROVE StruckWereHit'
  BY <1>17 DEF Catch, Handlers, Over
<1>18. ASSUME StruckWereHit, NEW x \in Execs, Report(x) PROVE StruckWereHit'
  BY <1>18 DEF Report, Runs, Over
<1>19. ASSUME StruckWereHit, NEW x \in Execs, Finish(x) PROVE StruckWereHit'
  BY <1>19 DEF Finish, Runs, Over
<1>20. ASSUME StruckWereHit, NEW x \in Execs, InterruptElsewhere(x) PROVE StruckWereHit'
  BY <1>20 DEF InterruptElsewhere
<1>21. ASSUME StruckWereHit, NEW t \in Execs \cup Users, Prints(t) PROVE StruckWereHit'
  BY <1>21 DEF Prints
<1>22. ASSUME StruckWereHit, NEW x \in Execs, Spawn(x) PROVE StruckWereHit'
  BY <1>22 DEF Spawn, Runs
<1>23. ASSUME StruckWereHit, NEW x \in Execs, CommandPrints(x) PROVE StruckWereHit'
  BY <1>23 DEF CommandPrints, Relays
<1>24. ASSUME StruckWereHit, NEW u \in Users, UserEnds(u) PROVE StruckWereHit'
  BY <1>24 DEF UserEnds
<1>25. ASSUME StruckWereHit, NEW k \in Cascades, Strike(k) PROVE StruckWereHit'
  BY <1>25 DEF Strike
<1>26. ASSUME StruckWereHit, NEW k \in Cascades, CascadeEnds(k) PROVE StruckWereHit'
  BY <1>26 DEF CascadeEnds
<1>27. ASSUME StruckWereHit, UNCHANGED vars PROVE StruckWereHit'
  BY <1>27 DEF vars
<1>28. ASSUME StruckWereHit, NEW x \in Execs, Announce(x) PROVE StruckWereHit'
  BY <1>28 DEF Announce, Relays, Runs
<1>29. ASSUME StruckWereHit, NEW t \in Execs \cup Users, EnterWrap(t) PROVE StruckWereHit'
  BY <1>29 DEF EnterWrap, UserCode
<1>30. ASSUME StruckWereHit, NEW t \in Execs \cup Users, LeaveWrap(t) PROVE StruckWereHit'
  BY <1>30 DEF LeaveWrap, Wrapped
<1> QED
  BY <1>1, <1>2, <1>3, <1>4, <1>5, <1>6, <1>7, <1>8, <1>9, <1>10, <1>11, <1>12, <1>13,
     <1>14, <1>15, <1>16, <1>17, <1>18, <1>19, <1>20, <1>21, <1>22, <1>23, <1>24, <1>25,
        <1>26, <1>27, <1>28, <1>29, <1>30
     DEF Next, ConnStep, LoopStep, ExecStep, CodeEnds, UserStep, CascadeStep

\* Only a user thread that was spawned is at "user".
LEMMA NotUsersStep == TypeOK /\ NotUsers /\ [Next]_vars => NotUsers'
<1> USE ThreadsAssumption DEF TypeOK, NotUsers, Live, Threads
<1>1. ASSUME TypeOK, NotUsers, NEW c \in Conns, Connect(c) PROVE NotUsers'
  BY <1>1 DEF Connect
<1>2. ASSUME TypeOK, NotUsers, AcceptKills PROVE NotUsers'
  BY <1>2 DEF AcceptKills
<1>3. ASSUME TypeOK, NotUsers, NEW c \in Conns, HangUp(c) PROVE NotUsers'
  BY <1>3 DEF HangUp
<1>4. ASSUME TypeOK, NotUsers, NEW c \in Conns, NEW r \in Execs \cup {"interrupt"},
             Submit(c, r)
      PROVE NotUsers'
  BY <1>4 DEF Submit
<1>5. ASSUME TypeOK, NotUsers, NEW c \in Conns, ReceiveInterrupt(c) PROVE NotUsers'
  BY <1>5 DEF ReceiveInterrupt, Reads
<1>6. ASSUME TypeOK, NotUsers, NEW c \in Conns, ReceiveExecute(c) PROVE NotUsers'
  BY <1>6 DEF ReceiveExecute, Reads
<1>7. ASSUME TypeOK, NotUsers, NEW c \in Conns, LoopEnds(c) PROVE NotUsers'
  BY <1>7 DEF LoopEnds
<1>8. ASSUME TypeOK, NotUsers, NEW c \in Conns, Close(c) PROVE NotUsers'
  BY <1>8 DEF Close
<1>9. ASSUME TypeOK, NotUsers, NEW x \in Execs, Begin(x) PROVE NotUsers'
  BY <1>9 DEF Begin, Runs, Over
<1>10. ASSUME TypeOK, NotUsers, NEW x \in Execs, EnterCode(x) PROVE NotUsers'
  BY <1>10 DEF EnterCode, Over, Runs
<1>11. ASSUME TypeOK, NotUsers, NEW x \in Execs, EnterCommand(x) PROVE NotUsers'
  BY <1>11 DEF EnterCommand, Runs
<1>12. ASSUME TypeOK, NotUsers, NEW x \in Execs, Return(x) PROVE NotUsers'
  BY <1>12 DEF Return, Runs
<1>13. ASSUME TypeOK, NotUsers, NEW x \in Execs, Throw(x) PROVE NotUsers'
  BY <1>13 DEF Throw, Runs
<1>14. ASSUME TypeOK, NotUsers, NEW x \in Execs, Quit(x) PROVE NotUsers'
  BY <1>14 DEF Quit, Runs, Over
<1>15. ASSUME TypeOK, NotUsers, NEW x \in Execs, InterruptCode(x) PROVE NotUsers'
  BY <1>15 DEF InterruptCode
<1>16. ASSUME TypeOK, NotUsers, NEW x \in Execs, CommandEnds(x) PROVE NotUsers'
  BY <1>16 DEF CommandEnds, Runs, Over
<1>17. ASSUME TypeOK, NotUsers, NEW x \in Execs, Catch(x) PROVE NotUsers'
  BY <1>17 DEF Catch, Handlers, Over
<1>18. ASSUME TypeOK, NotUsers, NEW x \in Execs, Report(x) PROVE NotUsers'
  BY <1>18 DEF Report, Runs, Over
<1>19. ASSUME TypeOK, NotUsers, NEW x \in Execs, Finish(x) PROVE NotUsers'
  BY <1>19 DEF Finish, Runs, Over
<1>20. ASSUME TypeOK, NotUsers, NEW x \in Execs, InterruptElsewhere(x) PROVE NotUsers'
  BY <1>20 DEF InterruptElsewhere
<1>21. ASSUME TypeOK, NotUsers, NEW t \in Execs \cup Users, Prints(t) PROVE NotUsers'
  BY <1>21 DEF Prints
<1>22. ASSUME TypeOK, NotUsers, NEW x \in Execs, Spawn(x) PROVE NotUsers'
  BY <1>22 DEF Spawn, Runs
<1>23. ASSUME TypeOK, NotUsers, NEW x \in Execs, CommandPrints(x) PROVE NotUsers'
  BY <1>23 DEF CommandPrints, Relays
<1>24. ASSUME TypeOK, NotUsers, NEW u \in Users, UserEnds(u) PROVE NotUsers'
  BY <1>24 DEF UserEnds
<1>25. ASSUME TypeOK, NotUsers, NEW k \in Cascades, Strike(k) PROVE NotUsers'
  BY <1>25 DEF Strike
<1>26. ASSUME TypeOK, NotUsers, NEW k \in Cascades, CascadeEnds(k) PROVE NotUsers'
  BY <1>26 DEF CascadeEnds
<1>27. ASSUME TypeOK, NotUsers, UNCHANGED vars PROVE NotUsers'
  BY <1>27 DEF vars
<1>28. ASSUME TypeOK, NotUsers, NEW x \in Execs, Announce(x) PROVE NotUsers'
  BY <1>28 DEF Announce, Relays, Runs
<1>29. ASSUME TypeOK, NotUsers, NEW t \in Execs \cup Users, EnterWrap(t) PROVE NotUsers'
  BY <1>29 DEF EnterWrap, UserCode
<1>30. ASSUME TypeOK, NotUsers, NEW t \in Execs \cup Users, LeaveWrap(t) PROVE NotUsers'
  BY <1>30 DEF LeaveWrap, Wrapped
<1> QED
  BY <1>1, <1>2, <1>3, <1>4, <1>5, <1>6, <1>7, <1>8, <1>9, <1>10, <1>11, <1>12, <1>13,
     <1>14, <1>15, <1>16, <1>17, <1>18, <1>19, <1>20, <1>21, <1>22, <1>23, <1>24, <1>25,
        <1>26, <1>27, <1>28, <1>29, <1>30
     DEF Next, ConnStep, LoopStep, ExecStep, CodeEnds, UserStep, CascadeStep

-----------------------------------------------------------------------------
(***************************************************************************)
(* What connections carry: blocks.                                         *)
(***************************************************************************)

\* A frame is kept by a message that opens the block of an execution not heard yet, or goes
\* on with the open block at the end.
LEMMA FrameAppend ==
    ASSUME NEW s \in Seq(Message), NEW m \in Message,
           \A i \in DOMAIN s : InFrame(s, i),
           m.by \in Execs => IF m.kind = "running" THEN Absent(m.by, s) ELSE Open(m.by, s)
    PROVE  \A i \in DOMAIN Append(s, m) : InFrame(Append(s, m), i)
<1> DEFINE t == Append(s, m)
<1>1. /\ DOMAIN s = 1..Len(s) /\ DOMAIN t = 1..(Len(s) + 1) /\ Len(s) \in Nat
      /\ t[Len(s) + 1] = m /\ \A i \in 1..Len(s) : t[i] = s[i]
  OBVIOUS
<1> HIDE DEF t
<1> SUFFICES ASSUME NEW i \in DOMAIN t PROVE InFrame(t, i)
  BY DEF t
<1>2. CASE i \in DOMAIN s
  <2>1. \A j \in 1..(i - 1) : t[j] = s[j]
    BY <1>1, <1>2
  <2>2. t[i] = s[i] /\ InFrame(s, i)
    BY <1>1, <1>2
  <2>3. {j \in 1..(i - 1) : t[j].by \in Execs} = {j \in 1..(i - 1) : s[j].by \in Execs}
    BY <2>1
  <2>4. \A j \in {j \in 1..(i - 1) : s[j].by \in Execs} : t[j] = s[j]
    BY <2>1
  <2> QED BY <2>2, <2>3, <2>4, ZenonT(40) DEF InFrame
<1>3. CASE i = Len(s) + 1
  <2>1. t[i] = m /\ 1..(i - 1) = DOMAIN s /\ \A j \in DOMAIN s : t[j] = s[j]
    BY <1>1, <1>3
  <2> DEFINE before == {j \in 1..(i - 1) : t[j].by \in Execs}
  <2> SUFFICES ASSUME m.by \in Execs
               PROVE  /\ m.kind = "running" <=> \A j \in before : t[j].by # m.by
                      /\ \A j \in before : t[j].by = m.by =>
                            /\ t[j].kind \notin Terminals
                            /\ \A h \in before : h > j => t[h].by = m.by
    BY <2>1 DEF InFrame
  <2>2. before = {j \in DOMAIN s : s[j].by \in Execs} /\ \A j \in before : t[j] = s[j]
    BY <2>1
  <2> HIDE DEF before
  <2>3. CASE m.kind = "running"
    <3>1. \A j \in before : t[j].by # m.by
      BY <2>2, <2>3 DEF Absent
    <3> QED BY <2>3, <3>1
  <2>4. CASE m.kind # "running"
    <3>1. PICK j \in DOMAIN s : s[j].by = m.by
      BY <2>4 DEF Open, Absent
    <3>2. j \in before /\ t[j].by = m.by
      BY <2>2, <3>1
    <3>3. \A g \in before : t[g].by = m.by =>
              /\ t[g].kind \notin Terminals
              /\ \A h \in before : h > g => t[h].by = m.by
      BY <2>2, <2>4 DEF Open
    <3> QED BY <2>4, <3>2, <3>3
  <2> QED BY <2>3, <2>4
<1> QED BY <1>1, <1>2, <1>3

\* A block is open after a message that opens it, and stays open while its execution alone
\* goes on with it.
LEMMA OpenAppend ==
    ASSUME NEW s \in Seq(Message), NEW m \in Message, NEW x \in Execs,
           m.by \in Execs => m.by = x,
           m.by = x => m.kind \notin Terminals,
           Open(x, s) \/ (Absent(x, s) /\ m.by = x)
    PROVE  Open(x, Append(s, m))
<1> DEFINE t == Append(s, m)
<1>1. /\ DOMAIN s = 1..Len(s) /\ DOMAIN t = 1..(Len(s) + 1) /\ Len(s) \in Nat
      /\ t[Len(s) + 1] = m /\ \A i \in 1..Len(s) : t[i] = s[i]
  OBVIOUS
<1> HIDE DEF t
<1>2. ~Absent(x, t)
  BY <1>1 DEF Absent, Open
<1>3. \A j \in DOMAIN t : t[j].by = x =>
          /\ t[j].kind \notin Terminals
          /\ \A h \in DOMAIN t : h > j /\ t[h].by \in Execs => t[h].by = x
  BY <1>1 DEF Absent, Open
<1> QED BY <1>2, <1>3 DEF Open, t

\* A message of another execution does not bring one.
LEMMA AbsentAppend ==
    ASSUME NEW s \in Seq(Message), NEW m \in Message, NEW x, m.by # x, Absent(x, s)
    PROVE  Absent(x, Append(s, m))
<1>1. /\ DOMAIN Append(s, m) = 1..(Len(s) + 1) /\ DOMAIN s = 1..Len(s) /\ Len(s) \in Nat
      /\ Append(s, m)[Len(s) + 1] = m /\ \A i \in 1..Len(s) : Append(s, m)[i] = s[i]
  OBVIOUS
<1> QED BY <1>1 DEF Absent

\* No execution starts, and none comes inside while its connection is there.
NobodyEnters ==
    \A x \in Execs :
        /\ at'[x] = "starting" => at[x] = "starting"
        /\ Inside(x)' /\ peer'[on[x]] = "open" => Inside(x) /\ peer[on[x]] = "open"

\* A step that writes nothing and brings nobody inside keeps the blocks.
LEMMA SilentBlocks ==
    ASSUME TypeOK, Blocks, UNCHANGED <<sent, on>>, mixed => mixed', NobodyEnters
    PROVE  Blocks'
<1> SUFFICES ASSUME ~mixed, ~mixed' PROVE Blocks'
  BY DEF Blocks
<1>1. Frames'
  BY DEF Frames, Blocks
<1>2. Owned'
  BY DEF Owned, Blocks
<1>3. \A x \in Execs : at'[x] = "starting" => Absent(x, sent'[on'[x]])
  BY DEF Blocks, NobodyEnters
<1>4. \A x \in Execs : Inside(x)' /\ peer'[on'[x]] = "open" => Open(x, sent'[on'[x]])
  BY DEF Blocks, NobodyEnters
<1> QED BY <1>1, <1>2, <1>3, <1>4 DEF Blocks

\* An execution inside its try block, or one that starts, writes in its own block.
LEMMA SpokenBlocks ==
    ASSUME TypeOK, Core, Blocks, UNCHANGED <<on, peer, mixed>>,
           NEW x \in Execs, NEW k \in Kinds,
           sent' = Written(on[x], Msg(x, k)),
           IF k = "running" THEN at[x] = "starting" ELSE Inside(x),
           \A y \in Execs \ {x} : at'[y] = at[y],
           at'[x] # "starting",
           Inside(x)' => k \notin Terminals
    PROVE  Blocks'
<1> DEFINE c == on[x]
           m == Msg(x, k)
           s == sent[c]
<1> SUFFICES ASSUME ~mixed PROVE Blocks'
  BY DEF Blocks
<1>1. /\ c \in Conns /\ s \in Seq(Message) /\ m \in Message /\ m.by = x /\ m.kind = k
      /\ Live(x)
  BY DEF TypeOK, Live, Inside, Handlers, Msg, Message
<1>2. \A y \in Execs \ {x} : Live(y) => on[y] # c
  BY <1>1 DEF Core, OneAtATime
<1>3. /\ Frames /\ Owned
      /\ \A y \in Execs : at[y] = "starting" => Absent(y, sent[on[y]])
      /\ \A y \in Execs : Inside(y) /\ peer[on[y]] = "open" => Open(y, sent[on[y]])
  BY DEF Blocks
<1>4. \A d \in Conns \ {c} : sent'[d] = sent[d]
  BY <1>1 DEF Written, TypeOK
<1>5. CASE peer[c] # "open"
  <2>1. sent' = sent
    BY <1>5 DEF Written
  <2>2. NobodyEnters
    BY <1>5 DEF NobodyEnters, Inside, Handlers
  <2> QED BY <2>1, <2>2, SilentBlocks
<1>6. CASE peer[c] = "open"
  <2>1. sent'[c] = Append(s, m)
    BY <1>1, <1>6 DEF Written, TypeOK
  <2>2. IF k = "running" THEN Absent(x, s) ELSE Open(x, s)
    BY <1>3, <1>6
  <2> HIDE DEF c, m, s
  <2>3. Frames'
    <3>1. \A i \in DOMAIN s : InFrame(s, i)
      BY <1>1, <1>3 DEF Frames, s
    <3>2. \A i \in DOMAIN sent'[c] : InFrame(sent'[c], i)
      BY <1>1, <2>1, <2>2, <3>1, FrameAppend
    <3>3. \A d \in Conns : \A i \in DOMAIN sent'[d] : InFrame(sent'[d], i)
      BY <1>3, <1>4, <3>2 DEF Frames
    <3> QED BY <3>3 DEF Frames
  <2>4. Owned'
    <3>1. \A i \in DOMAIN Append(s, m) : Append(s, m)[i].by \in Execs => on[Append(s, m)[i].by] = c
      <4>1. \A i \in DOMAIN s : s[i].by \in Execs => on[s[i].by] = c
        BY <1>1, <1>3 DEF Owned, s
      <4>2. on[m.by] = c
        BY <1>1 DEF c
      <4>3. /\ DOMAIN Append(s, m) = 1..(Len(s) + 1) /\ DOMAIN s = 1..Len(s) /\ Len(s) \in Nat
            /\ Append(s, m)[Len(s) + 1] = m /\ \A i \in 1..Len(s) : Append(s, m)[i] = s[i]
        BY <1>1
      <4> QED BY <4>1, <4>2, <4>3
    <3>2. \A d \in Conns : \A i \in DOMAIN sent'[d] :
              sent'[d][i].by \in Execs => on[sent'[d][i].by] = d
      BY <1>3, <1>4, <2>1, <3>1 DEF Owned
    <3> QED BY <3>2 DEF Owned
  <2>5. \A y \in Execs : at'[y] = "starting" => Absent(y, sent'[on'[y]])
    <3> SUFFICES ASSUME NEW y \in Execs, at'[y] = "starting" PROVE Absent(y, sent'[on[y]])
      OBVIOUS
    <3>1. y # x /\ Live(y) /\ at[y] = "starting"
      BY DEF Live
    <3>2. on[y] # c /\ on[y] \in Conns
      BY <3>1, <1>2 DEF TypeOK
    <3> QED BY <3>1, <3>2, <1>3, <1>4
  <2>6. \A y \in Execs : Inside(y)' /\ peer'[on'[y]] = "open" => Open(y, sent'[on'[y]])
    <3> SUFFICES ASSUME NEW y \in Execs, Inside(y)', peer[on[y]] = "open"
                 PROVE  Open(y, sent'[on[y]])
      OBVIOUS
    <3>1. CASE y = x
      <4>1. Open(x, Append(s, m))
        BY <1>1, <2>2, <3>1, OpenAppend
      <4> QED BY <2>1, <3>1, <4>1 DEF c
    <3>2. CASE y # x
      <4>1. Inside(y) /\ Live(y)
        BY <3>2 DEF Live, Inside, Handlers
      <4>2. on[y] # c /\ on[y] \in Conns
        BY <3>2, <4>1, <1>2 DEF TypeOK
      <4> QED BY <4>1, <4>2, <1>3, <1>4
    <3> QED BY <3>1, <3>2
  <2> QED BY <2>3, <2>4, <2>5, <2>6 DEF Blocks
<1> QED BY <1>5, <1>6

\* A thread that was left behind may write anywhere.
LEMMA StrayBlocks ==
    ASSUME TypeOK, Blocks, UNCHANGED <<at, on, peer, mixed>>,
           NEW c \in Conns, NEW u \in Users, NEW k \in Kinds,
           sent' = Written(c, Msg(u, k))
    PROVE  Blocks'
<1> DEFINE m == Msg(u, k)
           s == sent[c]
<1> SUFFICES ASSUME ~mixed PROVE Blocks'
  BY DEF Blocks
<1>1. /\ s \in Seq(Message) /\ m \in Message /\ m.by = u /\ u \notin Execs
  BY ThreadsAssumption DEF TypeOK, Msg, Message
<1>2. /\ Frames /\ Owned
      /\ \A y \in Execs : at[y] = "starting" => Absent(y, sent[on[y]])
      /\ \A y \in Execs : Inside(y) /\ peer[on[y]] = "open" => Open(y, sent[on[y]])
  BY DEF Blocks
<1>3. \A d \in Conns : sent'[d] = sent[d] \/ (d = c /\ sent'[d] = Append(s, m))
  BY DEF Written, TypeOK
<1> HIDE DEF m, s
<1>4. Frames'
  <2>1. \A i \in DOMAIN s : InFrame(s, i)
    BY <1>2 DEF Frames, s
  <2>2. \A i \in DOMAIN Append(s, m) : InFrame(Append(s, m), i)
    BY <1>1, <2>1, FrameAppend
  <2>3. \A d \in Conns : \A i \in DOMAIN sent'[d] : InFrame(sent'[d], i)
    BY <1>2, <1>3, <2>2 DEF Frames
  <2> QED BY <2>3 DEF Frames
<1>5. Owned'
  <2>1. \A i \in DOMAIN Append(s, m) : Append(s, m)[i].by \in Execs => on[Append(s, m)[i].by] = c
    <3>1. \A i \in DOMAIN s : s[i].by \in Execs => on[s[i].by] = c
      BY <1>1, <1>2 DEF Owned, s
    <3>2. /\ DOMAIN Append(s, m) = 1..(Len(s) + 1) /\ DOMAIN s = 1..Len(s) /\ Len(s) \in Nat
          /\ Append(s, m)[Len(s) + 1] = m /\ \A i \in 1..Len(s) : Append(s, m)[i] = s[i]
      BY <1>1
    <3> QED BY <1>1, <3>1, <3>2
  <2>2. \A d \in Conns : \A i \in DOMAIN sent'[d] :
            sent'[d][i].by \in Execs => on[sent'[d][i].by] = d
    BY <1>2, <1>3, <2>1 DEF Owned
  <2> QED BY <2>2 DEF Owned
<1>6. \A y \in Execs : at'[y] = "starting" => Absent(y, sent'[on'[y]])
  <2> SUFFICES ASSUME NEW y \in Execs, at[y] = "starting" PROVE Absent(y, sent'[on[y]])
    OBVIOUS
  <2>1. on[y] \in Conns /\ m.by # y /\ Absent(y, sent[on[y]])
    BY <1>1, <1>2 DEF TypeOK, Live
  <2>2. Absent(y, s) => Absent(y, Append(s, m))
    BY <1>1, <2>1, AbsentAppend
  <2> QED BY <1>3, <2>1, <2>2 DEF s
<1>7. \A y \in Execs : Inside(y)' /\ peer'[on'[y]] = "open" => Open(y, sent'[on'[y]])
  <2> SUFFICES ASSUME NEW y \in Execs, Inside(y), peer[on[y]] = "open" PROVE Open(y, sent'[on[y]])
    BY DEF Inside, Handlers
  <2>1. on[y] \in Conns /\ m.by # y /\ Open(y, sent[on[y]])
    BY <1>1, <1>2 DEF TypeOK, Live, Inside, Handlers
  <2>2. Open(y, s) => Open(y, Append(s, m))
    BY <1>1, <2>1, OpenAppend
  <2> QED BY <1>3, <2>1, <2>2 DEF s
<1> QED BY <1>4, <1>5, <1>6, <1>7 DEF Blocks

\* So does one that passes on what it has, through its own locker.
LEMMA RelaysBlocks ==
    ASSUME TypeOK, Core, Alone, Blocks, NEW x \in Execs, Relays(x),
           Inside(x), at[x] # "starting"
    PROVE  Blocks'
<1> SUFFICES ASSUME ~mixed PROVE Blocks'
  BY DEF Relays, Blocks, history
<1>1. locker = x
  BY DEF Alone
<1>2. sent' = Written(on[x], Msg(x, "output"))
  BY <1>1 DEF Relays
<1>3. UNCHANGED <<at, on, peer, mixed>>
  BY DEF Relays, loopVars, history
<1>4. "output" \in Kinds /\ "output" \notin Terminals
  BY DEF Kinds, Terminals
<1> QED BY <1>2, <1>3, <1>4, SpokenBlocks

\* Every step keeps the blocks.
LEMMA BlocksStep ==
    ASSUME TypeOK, Core, Accepted, Unread, Alone, NotUsers, Blocks, [Next]_vars
    PROVE  Blocks'
<1> DEFINE P == TypeOK /\ Core /\ Accepted /\ Unread /\ Alone /\ NotUsers /\ Blocks
<1>1. ASSUME P, NEW c \in Conns, Connect(c) PROVE Blocks'
  <2>1. NobodyEnters
    BY <1>1, ThreadsAssumption
       DEF Connect, NobodyEnters, Inside, Handlers, Live, TypeOK, Threads, Accepted,
       wireVars, loopVars, history
  <2>2. sent' = sent /\ on' = on /\ mixed' = mixed
    BY <1>1 DEF Connect, wireVars, loopVars, history
  <2> QED BY <1>1, <2>1, <2>2, SilentBlocks
<1>2. ASSUME P, AcceptKills PROVE Blocks'
  <2>1. NobodyEnters
    BY <1>2, ThreadsAssumption
       DEF AcceptKills, NobodyEnters, Inside, Handlers, Live, TypeOK, Threads, Accepted,
       wireVars, loopVars, history
  <2>2. sent' = sent /\ on' = on /\ mixed' = mixed
    BY <1>2 DEF AcceptKills, wireVars, loopVars, history
  <2> QED BY <1>2, <2>1, <2>2, SilentBlocks
<1>3. ASSUME P, NEW c \in Conns, HangUp(c) PROVE Blocks'
  <2>1. NobodyEnters
    BY <1>3, ThreadsAssumption
       DEF HangUp, NobodyEnters, Inside, Handlers, Live, TypeOK, Threads, Accepted,
       wireVars, loopVars, history
  <2>2. sent' = sent /\ on' = on /\ mixed' = mixed
    BY <1>3 DEF HangUp, wireVars, loopVars, history
  <2> QED BY <1>3, <2>1, <2>2, SilentBlocks
<1>4. ASSUME P, NEW c \in Conns, NEW r \in Execs \cup {"interrupt"}, Submit(c, r)
      PROVE Blocks'
  <2>1. NobodyEnters
    BY <1>4, ThreadsAssumption
       DEF Submit, NobodyEnters, Inside, Handlers, Live, TypeOK, Threads, Accepted,
       wireVars, loopVars, history
  <2>2. sent' = sent /\ on' = on /\ mixed' = mixed
    BY <1>4 DEF Submit, wireVars, loopVars, history
  <2> QED BY <1>4, <2>1, <2>2, SilentBlocks
<1>5. ASSUME P, NEW c \in Conns, ReceiveInterrupt(c) PROVE Blocks'
  <2>1. NobodyEnters
    BY <1>5, ThreadsAssumption
       DEF ReceiveInterrupt, Reads, NobodyEnters, Inside, Handlers, Live, TypeOK, Threads, Accepted,
       wireVars, loopVars, history
  <2>2. sent' = sent /\ on' = on /\ mixed' = mixed
    BY <1>5 DEF ReceiveInterrupt, Reads, wireVars, loopVars, history
  <2> QED BY <1>5, <2>1, <2>2, SilentBlocks
<1>6. ASSUME P, NEW c \in Conns, ReceiveExecute(c) PROVE Blocks'
  <2> DEFINE x == Head(inbox[c])
  <2> SUFFICES ASSUME ~mixed, ~mixed' PROVE Blocks'
    BY <1>6 DEF ReceiveExecute, Blocks
  <2>1. /\ x \in Execs /\ at' = [at EXCEPT ![x] = "starting"] /\ on' = [on EXCEPT ![x] = c]
        /\ sent' = sent /\ peer' = peer
    BY <1>6 DEF ReceiveExecute
  <2>2. on[x] = None /\ None \notin Conns
    <3>1. inbox[c] # <<>> /\ inbox[c] \in Seq(Execs \cup {"interrupt"})
      BY <1>6 DEF ReceiveExecute, TypeOK
    <3>2. 1 \in DOMAIN inbox[c] /\ x = inbox[c][1]
      BY <3>1
    <3> QED BY <1>6, <2>1, <3>2, ThreadsAssumption DEF Unread
  <2> HIDE DEF x
  <2>3. /\ at'[x] = "starting" /\ on'[x] = c
        /\ \A y \in Execs \ {x} : at'[y] = at[y] /\ on'[y] = on[y]
    BY <1>6, <2>1 DEF TypeOK, Threads
  <2>4. /\ Frames /\ Owned
        /\ \A y \in Execs : at[y] = "starting" => Absent(y, sent[on[y]])
        /\ \A y \in Execs : Inside(y) /\ peer[on[y]] = "open" => Open(y, sent[on[y]])
    BY <1>6 DEF Blocks
  <2>5. \A d \in Conns : Absent(x, sent[d])
    BY <2>1, <2>2, <2>4 DEF Owned, Absent
  <2>6. Frames'
    BY <2>1, <2>4 DEF Frames
  <2>7. Owned'
    BY <2>1, <2>3, <2>4, <2>5 DEF Owned, Absent
  <2>8. \A y \in Execs : at'[y] = "starting" => Absent(y, sent'[on'[y]])
    BY <2>1, <2>3, <2>4, <2>5
  <2>9. \A y \in Execs : Inside(y)' /\ peer'[on'[y]] = "open" => Open(y, sent'[on'[y]])
    BY <2>1, <2>3, <2>4 DEF Inside, Handlers
  <2> QED BY <2>6, <2>7, <2>8, <2>9 DEF Blocks
<1>7. ASSUME P, NEW c \in Conns, LoopEnds(c) PROVE Blocks'
  <2>1. NobodyEnters
    BY <1>7, ThreadsAssumption
       DEF LoopEnds, NobodyEnters, Inside, Handlers, Live, TypeOK, Threads, Accepted,
       wireVars, loopVars, history
  <2>2. sent' = sent /\ on' = on /\ mixed' = mixed
    BY <1>7 DEF LoopEnds, wireVars, loopVars, history
  <2> QED BY <1>7, <2>1, <2>2, SilentBlocks
<1>8. ASSUME P, NEW c \in Conns, Close(c) PROVE Blocks'
  <2>1. NobodyEnters
    BY <1>8, ThreadsAssumption
       DEF Close, NobodyEnters, Inside, Handlers, Live, TypeOK, Threads, Accepted,
       wireVars, loopVars, history
  <2>2. sent' = sent /\ on' = on /\ mixed' = mixed
    BY <1>8 DEF Close, wireVars, loopVars, history
  <2> QED BY <1>8, <2>1, <2>2, SilentBlocks
<1>9. ASSUME P, NEW x \in Execs, Begin(x) PROVE Blocks'
  <2>0. UNCHANGED <<on, peer, mixed>> /\ "running" \in Kinds /\ x \in Threads
    BY <1>9 DEF Begin, loopVars, history, Kinds, Terminals, FinalState, Threads
  <2>1. CASE sent' = Written(on[x], Msg(x, "running"))
    <3>1. IF "running" = "running" THEN at[x] = "starting" ELSE Inside(x)
      BY <1>9 DEF Begin, Runs, Inside, Handlers, FinalState
    <3>2. /\ \A y \in Execs \ {x} : at'[y] = at[y]
          /\ at'[x] # "starting" /\ (Inside(x)' => "running" \notin Terminals)
      <4>1. PICK p \in {"begun", "ended"} : at' = [at EXCEPT ![x] = p]
        BY <1>9 DEF Begin, Over
      <4>2. at'[x] = p /\ \A y \in Execs \ {x} : at'[y] = at[y]
        BY <1>9, <2>0, <4>1 DEF TypeOK
      <4>3. p # "starting" /\ (p \in {"reporting", "begun"} => "running" \notin Terminals)
        BY DEF Terminals
      <4> QED BY <4>2, <4>3 DEF Inside, Handlers
    <3> QED BY <1>9, <2>0, <2>1, <3>1, <3>2, SpokenBlocks
  <2>2. CASE Over(x) /\ sent' = sent
    <3>1. NobodyEnters
      BY <1>9, <2>0, <2>2 DEF Over, NobodyEnters, Inside, Handlers, TypeOK
    <3> QED BY <1>9, <2>0, <2>2, <3>1, SilentBlocks
  <2> QED BY <1>9, <2>1, <2>2 DEF Begin
<1>10. ASSUME P, NEW x \in Execs, EnterCode(x) PROVE Blocks'
  <2>1. NobodyEnters
    BY <1>10, ThreadsAssumption
       DEF EnterCode, Over, Runs, NobodyEnters, Inside, Handlers, Live, TypeOK, Threads, Accepted,
       wireVars, loopVars, history
  <2>2. sent' = sent /\ on' = on /\ mixed' = mixed
    BY <1>10 DEF EnterCode, Over, Runs, wireVars, loopVars, history
  <2> QED BY <1>10, <2>1, <2>2, SilentBlocks
<1>11. ASSUME P, NEW x \in Execs, EnterCommand(x) PROVE Blocks'
  <2>1. NobodyEnters
    BY <1>11, ThreadsAssumption
       DEF EnterCommand, Runs, NobodyEnters, Inside, Handlers, Live, TypeOK, Threads, Accepted,
       wireVars, loopVars, history
  <2>2. sent' = sent /\ on' = on /\ mixed' = mixed
    BY <1>11 DEF EnterCommand, Runs, wireVars, loopVars, history
  <2> QED BY <1>11, <2>1, <2>2, SilentBlocks
<1>12. ASSUME P, NEW x \in Execs, Return(x) PROVE Blocks'
  <2>1. NobodyEnters
    BY <1>12, ThreadsAssumption
       DEF Return, Runs, NobodyEnters, Inside, Handlers, Live, TypeOK, Threads, Accepted,
       wireVars, loopVars, history
  <2>2. sent' = sent /\ on' = on /\ mixed' = mixed
    BY <1>12 DEF Return, Runs, wireVars, loopVars, history
  <2> QED BY <1>12, <2>1, <2>2, SilentBlocks
<1>13. ASSUME P, NEW x \in Execs, Throw(x) PROVE Blocks'
  <2>1. NobodyEnters
    BY <1>13, ThreadsAssumption
       DEF Throw, Runs, NobodyEnters, Inside, Handlers, Live, TypeOK, Threads, Accepted,
       wireVars, loopVars, history
  <2>2. sent' = sent /\ on' = on /\ mixed' = mixed
    BY <1>13 DEF Throw, Runs, wireVars, loopVars, history
  <2> QED BY <1>13, <2>1, <2>2, SilentBlocks
<1>14. ASSUME P, NEW x \in Execs, Quit(x) PROVE Blocks'
  <2>1. NobodyEnters
    BY <1>14, ThreadsAssumption
       DEF Quit, Runs, Over, NobodyEnters, Inside, Handlers, Live, TypeOK, Threads, Accepted,
       wireVars, loopVars, history
  <2>2. sent' = sent /\ on' = on /\ mixed' = mixed
    BY <1>14 DEF Quit, Runs, Over, wireVars, loopVars, history
  <2> QED BY <1>14, <2>1, <2>2, SilentBlocks
<1>15. ASSUME P, NEW x \in Execs, InterruptCode(x) PROVE Blocks'
  <2>1. NobodyEnters
    BY <1>15, ThreadsAssumption
       DEF InterruptCode, NobodyEnters, Inside, Handlers, Live, TypeOK, Threads, Accepted,
       wireVars, loopVars, history
  <2>2. sent' = sent /\ on' = on /\ mixed' = mixed
    BY <1>15 DEF InterruptCode, wireVars, loopVars, history
  <2> QED BY <1>15, <2>1, <2>2, SilentBlocks
<1>16. ASSUME P, NEW x \in Execs, CommandEnds(x) PROVE Blocks'
  <2>0. UNCHANGED <<on, peer, mixed>> /\ x \in Threads
    BY <1>16 DEF CommandEnds, loopVars, history, Threads
  <2>1. ASSUME NEW k \in {"output", "error"}, sent' = Written(on[x], Msg(x, k)),
               at' = [at EXCEPT ![x] = "reporting"]
        PROVE  Blocks'
    <3>1. Inside(x) /\ k # "running" /\ k \in Kinds /\ k \notin Terminals
      BY <1>16 DEF CommandEnds, Runs, Inside, Handlers, Kinds, Terminals
    <3>2. (\A y \in Execs \ {x} : at'[y] = at[y]) /\ at'[x] # "starting"
      BY <1>16, <2>0, <2>1 DEF TypeOK
    <3> QED BY <1>16, <2>0, <2>1, <3>1, <3>2, SpokenBlocks
  <2>2. CASE Over(x) /\ sent' = sent
    <3>1. NobodyEnters
      BY <1>16, <2>0, <2>2 DEF Over, NobodyEnters, Inside, Handlers, TypeOK
    <3> QED BY <1>16, <2>0, <2>2, <3>1, SilentBlocks
  <2> QED BY <1>16, <2>1, <2>2 DEF CommandEnds
<1>17. ASSUME P, NEW x \in Execs, Catch(x) PROVE Blocks'
  <2>0. UNCHANGED <<on, peer, mixed>> /\ "error" \in Kinds /\ x \in Threads
    BY <1>17 DEF Catch, loopVars, history, Kinds, Terminals, FinalState, Threads
  <2>1. CASE sent' = Written(on[x], Msg(x, "error"))
    <3>1. IF "error" = "running" THEN at[x] = "starting" ELSE Inside(x)
      BY <1>17 DEF Catch, Handlers, Inside
    <3>2. /\ \A y \in Execs \ {x} : at'[y] = at[y]
          /\ at'[x] # "starting" /\ (Inside(x)' => "error" \notin Terminals)
      <4>1. PICK p \in {"reporting", "ended"} : at' = [at EXCEPT ![x] = p]
        BY <1>17 DEF Catch, Over
      <4>2. at'[x] = p /\ \A y \in Execs \ {x} : at'[y] = at[y]
        BY <1>17, <2>0, <4>1 DEF TypeOK
      <4>3. p # "starting" /\ (p \in {"reporting", "begun"} => "error" \notin Terminals)
        BY DEF Terminals
      <4> QED BY <4>2, <4>3 DEF Inside, Handlers
    <3> QED BY <1>17, <2>0, <2>1, <3>1, <3>2, SpokenBlocks
  <2>2. CASE Over(x) /\ sent' = sent
    <3>1. NobodyEnters
      BY <1>17, <2>0, <2>2 DEF Over, NobodyEnters, Inside, Handlers, TypeOK
    <3> QED BY <1>17, <2>0, <2>2, <3>1, SilentBlocks
  <2> QED BY <1>17, <2>1, <2>2 DEF Catch
<1>18. ASSUME P, NEW x \in Execs, Report(x) PROVE Blocks'
  <2>0. UNCHANGED <<on, peer, mixed>> /\ FinalState(x) \in Kinds /\ x \in Threads
    BY <1>18 DEF Report, loopVars, history, Kinds, Terminals, FinalState, Threads
  <2>1. CASE sent' = Written(on[x], Msg(x, FinalState(x)))
    <3>1. IF FinalState(x) = "running" THEN at[x] = "starting" ELSE Inside(x)
      BY <1>18 DEF Report, Runs, Inside, Handlers, FinalState
    <3>2. /\ \A y \in Execs \ {x} : at'[y] = at[y]
          /\ at'[x] # "starting" /\ (Inside(x)' => FinalState(x) \notin Terminals)
      <4>1. PICK p \in {"reported", "ended"} : at' = [at EXCEPT ![x] = p]
        BY <1>18 DEF Report, Over
      <4>2. at'[x] = p /\ \A y \in Execs \ {x} : at'[y] = at[y]
        BY <1>18, <2>0, <4>1 DEF TypeOK
      <4>3. p # "starting" /\ (p \in {"reporting", "begun"} => FinalState(x) \notin Terminals)
        BY DEF Terminals
      <4> QED BY <4>2, <4>3 DEF Inside, Handlers
    <3> QED BY <1>18, <2>0, <2>1, <3>1, <3>2, SpokenBlocks
  <2>2. CASE Over(x) /\ sent' = sent
    <3>1. NobodyEnters
      BY <1>18, <2>0, <2>2 DEF Over, NobodyEnters, Inside, Handlers, TypeOK
    <3> QED BY <1>18, <2>0, <2>2, <3>1, SilentBlocks
  <2> QED BY <1>18, <2>1, <2>2 DEF Report
<1>19. ASSUME P, NEW x \in Execs, Finish(x) PROVE Blocks'
  <2>1. NobodyEnters
    BY <1>19, ThreadsAssumption
       DEF Finish, Runs, Over, NobodyEnters, Inside, Handlers, Live, TypeOK, Threads, Accepted,
       wireVars, loopVars, history
  <2>2. sent' = sent /\ on' = on /\ mixed' = mixed
    BY <1>19 DEF Finish, Runs, Over, wireVars, loopVars, history
  <2> QED BY <1>19, <2>1, <2>2, SilentBlocks
<1>20. ASSUME P, NEW x \in Execs, InterruptElsewhere(x) PROVE Blocks'
  <2>1. NobodyEnters
    BY <1>20, ThreadsAssumption
       DEF InterruptElsewhere, NobodyEnters, Inside, Handlers, Live, TypeOK, Threads, Accepted,
       wireVars, loopVars, history
  <2>2. sent' = sent /\ on' = on /\ mixed' = mixed
    BY <1>20 DEF InterruptElsewhere, wireVars, loopVars, history
  <2> QED BY <1>20, <2>1, <2>2, SilentBlocks
<1>21. ASSUME P, NEW t \in Execs \cup Users, Prints(t) PROVE Blocks'
  <2> SUFFICES ASSUME ~mixed PROVE Blocks'
    BY <1>21 DEF Prints, Blocks, history
  <2>1. /\ UNCHANGED <<at, on, peer, mixed>> /\ at[t] \in {"code", "user"}
    BY <1>21 DEF Prints, UserCode, loopVars, history
  <2>2. PICK c \in {current} \cup IF stdout = None THEN {}
                                  ELSE {on[y] : y \in {stdout, locker} \ {None}} :
            c \in Conns /\ sent' = Written(c, Msg(t, "output"))
    BY <1>21 DEF Prints
  <2>3. "output" \in Kinds /\ "output" \notin Terminals
    BY DEF Kinds, Terminals
  <2>4. CASE t \in Users
    BY <1>21, <2>1, <2>2, <2>3, <2>4, StrayBlocks
  <2>5. CASE t \in Execs
    <3>1. Live(t)
      BY <2>1 DEF Live
    <3>2. at[t] = "code"
      BY <1>21, <2>1, <2>5 DEF NotUsers
    <3>3. Inside(t) /\ InCode(t) /\ at[t] # "starting"
      BY <3>2 DEF Inside, Handlers, InCode
    <3>4. c = on[t]
      BY <1>21, <2>2, <2>5, <3>3 DEF Core, StreamsNear, Alone
    <3> QED BY <1>21, <2>1, <2>2, <2>3, <2>5, <3>3, <3>4, SpokenBlocks DEF Inside, Handlers
  <2> QED BY <2>4, <2>5
<1>22. ASSUME P, NEW x \in Execs, Spawn(x) PROVE Blocks'
  <2>1. NobodyEnters
    BY <1>22, ThreadsAssumption
       DEF Spawn, Runs, NobodyEnters, Inside, Handlers, Live, TypeOK, Threads, Accepted,
       wireVars, loopVars, history
  <2>2. sent' = sent /\ on' = on /\ mixed' = mixed
    BY <1>22 DEF Spawn, Runs, wireVars, loopVars, history
  <2> QED BY <1>22, <2>1, <2>2, SilentBlocks
<1>23. ASSUME P, NEW x \in Execs, CommandPrints(x) PROVE Blocks'
  <2>1. Inside(x) /\ at[x] # "starting"
    BY <1>23 DEF CommandPrints, Runs, Inside, Handlers
  <2> QED BY <1>23, <2>1, RelaysBlocks DEF CommandPrints
<1>24. ASSUME P, NEW u \in Users, UserEnds(u) PROVE Blocks'
  <2>1. NobodyEnters
    BY <1>24, ThreadsAssumption
       DEF UserEnds, NobodyEnters, Inside, Handlers, Live, TypeOK, Threads, Accepted,
       wireVars, loopVars, history
  <2>2. sent' = sent /\ on' = on /\ mixed' = mixed
    BY <1>24 DEF UserEnds, wireVars, loopVars, history
  <2> QED BY <1>24, <2>1, <2>2, SilentBlocks
<1>25. ASSUME P, NEW k \in Cascades, Strike(k) PROVE Blocks'
  <2>1. NobodyEnters
    BY <1>25, ThreadsAssumption
       DEF Strike, NobodyEnters, Inside, Handlers, Live, TypeOK, Threads, Accepted,
       wireVars, loopVars, history
  <2>2. sent' = sent /\ on' = on /\ mixed' = mixed
    BY <1>25 DEF Strike, wireVars, loopVars, history
  <2> QED BY <1>25, <2>1, <2>2, SilentBlocks
<1>26. ASSUME P, NEW k \in Cascades, CascadeEnds(k) PROVE Blocks'
  <2>1. NobodyEnters
    BY <1>26, ThreadsAssumption
       DEF CascadeEnds, NobodyEnters, Inside, Handlers, Live, TypeOK, Threads, Accepted,
       wireVars, loopVars, history
  <2>2. sent' = sent /\ on' = on /\ mixed' = mixed
    BY <1>26 DEF CascadeEnds, wireVars, loopVars, history
  <2> QED BY <1>26, <2>1, <2>2, SilentBlocks
<1>27. ASSUME P, UNCHANGED vars PROVE Blocks'
  <2>1. NobodyEnters
    BY <1>27, ThreadsAssumption
       DEF vars, NobodyEnters, Inside, Handlers, Live, TypeOK, Threads, Accepted,
       wireVars, loopVars, history
  <2>2. sent' = sent /\ on' = on /\ mixed' = mixed
    BY <1>27 DEF vars, wireVars, loopVars, history
  <2> QED BY <1>27, <2>1, <2>2, SilentBlocks
<1>28. ASSUME P, NEW x \in Execs, Announce(x) PROVE Blocks'
  <2>1. Inside(x) /\ at[x] # "starting"
    BY <1>28 DEF Announce, Runs, Inside, Handlers
  <2> QED BY <1>28, <2>1, RelaysBlocks DEF Announce
<1>29. ASSUME P, NEW t \in Execs \cup Users, EnterWrap(t) PROVE Blocks'
  <2>1. NobodyEnters
    BY <1>29 DEF EnterWrap, UserCode, NobodyEnters, Inside, Handlers, loopVars, wireVars
  <2>2. sent' = sent /\ on' = on /\ (mixed => mixed')
    BY <1>29 DEF EnterWrap, UserCode, wireVars, loopVars, history
  <2> QED BY <1>29, <2>1, <2>2, SilentBlocks
<1>30. ASSUME P, NEW t \in Execs \cup Users, LeaveWrap(t) PROVE Blocks'
  <2>1. NobodyEnters
    BY <1>30 DEF LeaveWrap, Wrapped, NobodyEnters, Inside, Handlers, loopVars, wireVars
  <2>2. sent' = sent /\ on' = on
    BY <1>30 DEF LeaveWrap, wireVars, loopVars
  <2>3. mixed => mixed'
    BY <1>30, Zenon DEF LeaveWrap
  <2> QED BY <1>30, <2>1, <2>2, <2>3, SilentBlocks
<1> QED
  BY <1>1, <1>2, <1>3, <1>4, <1>5, <1>6, <1>7, <1>8, <1>9, <1>10, <1>11, <1>12, <1>13,
     <1>14, <1>15, <1>16, <1>17, <1>18, <1>19, <1>20, <1>21, <1>22, <1>23, <1>24, <1>25,
        <1>26, <1>27, <1>28, <1>29, <1>30
     DEF Next, ConnStep, LoopStep, ExecStep, CodeEnds, UserStep, CascadeStep

-----------------------------------------------------------------------------
(***************************************************************************)
(* What connections carry: ends.                                           *)
(***************************************************************************)

\* What was written stays written, and an execution stays with its connection.
Grows ==
    /\ \A c \in Conns : sent'[c] = sent[c] \/ \E m \in Message : sent'[c] = Append(sent[c], m)
    /\ \A x \in Execs : on[x] # None => on'[x] = on[x]

\* send_message appends.
LEMMA WrittenGrows ==
    ASSUME TypeOK, NEW c \in Conns, NEW t \in Execs \cup Users, NEW k \in Kinds,
           sent' = Written(c, Msg(t, k))
    PROVE  \A d \in Conns :
              sent'[d] = sent[d] \/ \E m \in Message : sent'[d] = Append(sent[d], m)
<1>1. Msg(t, k) \in Message
  BY DEF Msg, Message
<1>2. \A d \in Conns : sent'[d] = sent[d] \/ sent'[d] = Append(sent[d], Msg(t, k))
  BY DEF Written, TypeOK
<1> QED BY <1>1, <1>2

\* No step takes back what was written or moves an execution to another connection.
LEMMA GrowsStep == TypeOK /\ Unread /\ [Next]_vars => Grows
<1> DEFINE P == TypeOK /\ Unread
<1>1. ASSUME P, NEW c \in Conns, Connect(c) PROVE Grows
  BY <1>1 DEF Connect, Grows, wireVars, loopVars
<1>2. ASSUME P, AcceptKills PROVE Grows
  BY <1>2 DEF AcceptKills, Grows, wireVars, loopVars
<1>3. ASSUME P, NEW c \in Conns, HangUp(c) PROVE Grows
  BY <1>3 DEF HangUp, Grows, wireVars, loopVars
<1>4. ASSUME P, NEW c \in Conns, NEW r \in Execs \cup {"interrupt"}, Submit(c, r)
      PROVE Grows
  BY <1>4 DEF Submit, Grows, wireVars, loopVars
<1>5. ASSUME P, NEW c \in Conns, ReceiveInterrupt(c) PROVE Grows
  BY <1>5 DEF ReceiveInterrupt, Reads, Grows, wireVars, loopVars
<1>6. ASSUME P, NEW c \in Conns, ReceiveExecute(c) PROVE Grows
  <2> DEFINE x == Head(inbox[c])
  <2>1. x \in Execs /\ on' = [on EXCEPT ![x] = c] /\ sent' = sent
    BY <1>6 DEF ReceiveExecute
  <2>2. on[x] = None
    <3>1. inbox[c] # <<>> /\ inbox[c] \in Seq(Execs \cup {"interrupt"})
      BY <1>6 DEF ReceiveExecute, TypeOK
    <3>2. 1 \in DOMAIN inbox[c] /\ x = inbox[c][1]
      BY <3>1
    <3> QED BY <1>6, <2>1, <3>2 DEF Unread
  <2> HIDE DEF x
  <2> QED BY <1>6, <2>1, <2>2 DEF Grows, TypeOK
<1>7. ASSUME P, NEW c \in Conns, LoopEnds(c) PROVE Grows
  BY <1>7 DEF LoopEnds, Grows, wireVars, loopVars
<1>8. ASSUME P, NEW c \in Conns, Close(c) PROVE Grows
  BY <1>8 DEF Close, Grows, wireVars, loopVars
<1>9. ASSUME P, NEW x \in Execs, Begin(x) PROVE Grows
  <2>1. on[x] \in Conns /\ on' = on
    BY <1>9 DEF Begin, Runs, Live, TypeOK, loopVars
  <2>2. sent' = sent \/ \E k \in Kinds : sent' = Written(on[x], Msg(x, k))
    BY <1>9 DEF Begin, Kinds, Terminals, FinalState
  <2> QED BY <1>9, <2>1, <2>2, WrittenGrows DEF Grows
<1>10. ASSUME P, NEW x \in Execs, EnterCode(x) PROVE Grows
  BY <1>10 DEF EnterCode, Over, Runs, Grows, wireVars, loopVars
<1>11. ASSUME P, NEW x \in Execs, EnterCommand(x) PROVE Grows
  BY <1>11 DEF EnterCommand, Runs, Grows, wireVars, loopVars
<1>12. ASSUME P, NEW x \in Execs, Return(x) PROVE Grows
  BY <1>12 DEF Return, Runs, Grows, wireVars, loopVars
<1>13. ASSUME P, NEW x \in Execs, Throw(x) PROVE Grows
  BY <1>13 DEF Throw, Runs, Grows, wireVars, loopVars
<1>14. ASSUME P, NEW x \in Execs, Quit(x) PROVE Grows
  BY <1>14 DEF Quit, Runs, Over, Grows, wireVars, loopVars
<1>15. ASSUME P, NEW x \in Execs, InterruptCode(x) PROVE Grows
  BY <1>15 DEF InterruptCode, Grows, wireVars, loopVars
<1>16. ASSUME P, NEW x \in Execs, CommandEnds(x) PROVE Grows
  <2>1. on[x] \in Conns /\ on' = on
    BY <1>16 DEF CommandEnds, Runs, Live, TypeOK, loopVars
  <2>2. sent' = sent \/ \E k \in Kinds : sent' = Written(on[x], Msg(x, k))
    BY <1>16 DEF CommandEnds, Kinds, Terminals, FinalState
  <2> QED BY <1>16, <2>1, <2>2, WrittenGrows DEF Grows
<1>17. ASSUME P, NEW x \in Execs, Catch(x) PROVE Grows
  <2>1. on[x] \in Conns /\ on' = on
    BY <1>17 DEF Catch, Handlers, Live, TypeOK, loopVars
  <2>2. sent' = sent \/ \E k \in Kinds : sent' = Written(on[x], Msg(x, k))
    BY <1>17 DEF Catch, Kinds, Terminals, FinalState
  <2> QED BY <1>17, <2>1, <2>2, WrittenGrows DEF Grows
<1>18. ASSUME P, NEW x \in Execs, Report(x) PROVE Grows
  <2>1. on[x] \in Conns /\ on' = on
    BY <1>18 DEF Report, Runs, Live, TypeOK, loopVars
  <2>2. sent' = sent \/ \E k \in Kinds : sent' = Written(on[x], Msg(x, k))
    BY <1>18 DEF Report, Kinds, Terminals, FinalState
  <2> QED BY <1>18, <2>1, <2>2, WrittenGrows DEF Grows
<1>19. ASSUME P, NEW x \in Execs, Finish(x) PROVE Grows
  BY <1>19 DEF Finish, Runs, Over, Grows, wireVars, loopVars
<1>20. ASSUME P, NEW x \in Execs, InterruptElsewhere(x) PROVE Grows
  BY <1>20 DEF InterruptElsewhere, Grows, wireVars, loopVars
<1>21. ASSUME P, NEW t \in Execs \cup Users, Prints(t) PROVE Grows
  <2>1. on' = on /\ "output" \in Kinds
    BY <1>21 DEF Prints, Kinds, loopVars
  <2>2. \E c \in Conns : sent' = Written(c, Msg(t, "output"))
    BY <1>21 DEF Prints
  <2> QED BY <1>21, <2>1, <2>2, WrittenGrows DEF Grows
<1>22. ASSUME P, NEW x \in Execs, Spawn(x) PROVE Grows
  BY <1>22 DEF Spawn, Runs, Grows, wireVars, loopVars
<1>23. ASSUME P, NEW x \in Execs, CommandPrints(x) PROVE Grows
  <2>1. on' = on /\ "output" \in Kinds
    BY <1>23 DEF CommandPrints, Relays, Kinds, loopVars
  <2>2. \E c \in Conns : sent' = Written(c, Msg(x, "output"))
    BY <1>23, RelaysSomewhere DEF CommandPrints
  <2> QED BY <1>23, <2>1, <2>2, WrittenGrows DEF Grows
<1>24. ASSUME P, NEW u \in Users, UserEnds(u) PROVE Grows
  BY <1>24 DEF UserEnds, Grows, wireVars, loopVars
<1>25. ASSUME P, NEW k \in Cascades, Strike(k) PROVE Grows
  BY <1>25 DEF Strike, Grows, wireVars, loopVars
<1>26. ASSUME P, NEW k \in Cascades, CascadeEnds(k) PROVE Grows
  BY <1>26 DEF CascadeEnds, Grows, wireVars, loopVars
<1>27. ASSUME P, UNCHANGED vars PROVE Grows
  BY <1>27 DEF vars, Grows, wireVars, loopVars
<1>28. ASSUME P, NEW x \in Execs, Announce(x) PROVE Grows
  <2>1. on' = on /\ "output" \in Kinds
    BY <1>28 DEF Announce, Relays, Kinds, loopVars
  <2>2. \E c \in Conns : sent' = Written(c, Msg(x, "output"))
    BY <1>28, RelaysSomewhere DEF Announce
  <2> QED BY <1>28, <2>1, <2>2, WrittenGrows DEF Grows
<1>29. ASSUME P, NEW t \in Execs \cup Users, EnterWrap(t) PROVE Grows
  BY <1>29 DEF EnterWrap, UserCode, Grows, wireVars, loopVars
<1>30. ASSUME P, NEW t \in Execs \cup Users, LeaveWrap(t) PROVE Grows
  BY <1>30 DEF LeaveWrap, Wrapped, Grows, wireVars, loopVars
<1> QED
  BY <1>1, <1>2, <1>3, <1>4, <1>5, <1>6, <1>7, <1>8, <1>9, <1>10, <1>11, <1>12, <1>13,
     <1>14, <1>15, <1>16, <1>17, <1>18, <1>19, <1>20, <1>21, <1>22, <1>23, <1>24, <1>25,
        <1>26, <1>27, <1>28, <1>29, <1>30
     DEF Next, ConnStep, LoopStep, ExecStep, CodeEnds, UserStep, CascadeStep

\* An answer is not taken back.
LEMMA AnsweredStays ==
    ASSUME TypeOK, Grows, NEW x \in Execs, on[x] \in Conns, Answered(x)
    PROVE  Answered(x)'
<1> DEFINE s == sent[on[x]]
           t == sent'[on[x]]
<1>1. on'[x] = on[x] /\ s \in Seq(Message)
  BY ThreadsAssumption DEF Grows, TypeOK
<1>2. t = s \/ \E m \in Message : t = Append(s, m)
  BY DEF Grows
<1>3. \E i \in DOMAIN s : Of(x, s[i]) /\ s[i].kind \in Terminals
  BY DEF Answered
<1> HIDE DEF s, t
<1>4. DOMAIN s \subseteq DOMAIN t /\ \A i \in DOMAIN s : t[i] = s[i]
  BY <1>1, <1>2
<1>5. \E i \in DOMAIN t : Of(x, t[i]) /\ t[i].kind \in Terminals
  <2>1. PICK i \in DOMAIN s : Of(x, s[i]) /\ s[i].kind \in Terminals
    BY <1>3
  <2>2. t[i] = s[i] /\ i \in DOMAIN t
    BY <1>4
  <2>3. Of(x, t[i]) /\ t[i].kind \in Terminals
    BY <2>1, <2>2
  <2> QED BY <2>2, <2>3
<1> QED BY <1>1, <1>5 DEF Answered, t

\* An execution whose connection is kept is over, or has reported, since before this step;
\* or it reports, was interrupted or was ended by an exception that nothing caught.
Settles(x) ==
    at'[x] \in {"reported", "ended"} /\ Kept(on[x])' =>
        \/ at[x] \in {"reported", "ended"} /\ Kept(on[x])
        \/ Answered(x)' \/ x \in hit' \cup escaped' \/ mixed'

\* How an execution comes to its end: Report with the locker in place, an exception that
\* execute_code lets through, an interrupt, or with its connection.
LEMMA SettlesStep ==
    TypeOK /\ Side /\ [Next]_vars => \A x \in Execs : Settles(x)
<1> DEFINE P == TypeOK /\ Side
<1> SUFFICES ASSUME NEW y \in Execs PROVE P /\ [Next]_vars => Settles(y)
  OBVIOUS
<1>1. ASSUME P, NEW c \in Conns, Connect(c) PROVE Settles(y)
  BY <1>1, ThreadsAssumption
     DEF Connect, Settles, Side, Accepted, Unread, StruckWereHit, Kept, Works, Breaks, Live,
        Threads,
         TypeOK, wireVars, loopVars, history
<1>2. ASSUME P, AcceptKills PROVE Settles(y)
  BY <1>2, ThreadsAssumption
     DEF AcceptKills, Settles, Side, Accepted, Unread, StruckWereHit, Kept, Works, Breaks,
        Live, Threads,
         TypeOK, wireVars, loopVars, history
<1>3. ASSUME P, NEW c \in Conns, HangUp(c) PROVE Settles(y)
  BY <1>3, ThreadsAssumption
     DEF HangUp, Settles, Side, Accepted, Unread, StruckWereHit, Kept, Works, Breaks, Live,
        Threads,
         TypeOK, wireVars, loopVars, history
<1>4. ASSUME P, NEW c \in Conns, NEW r \in Execs \cup {"interrupt"}, Submit(c, r)
      PROVE Settles(y)
  BY <1>4, ThreadsAssumption
     DEF Submit, Settles, Side, Accepted, Unread, StruckWereHit, Kept, Works, Breaks, Live,
        Threads,
         TypeOK, wireVars, loopVars, history
<1>5. ASSUME P, NEW c \in Conns, ReceiveInterrupt(c) PROVE Settles(y)
  BY <1>5, ThreadsAssumption
     DEF ReceiveInterrupt, Reads, Settles, Side, Accepted, Unread, StruckWereHit, Kept,
        Works, Breaks, Live, Threads,
         TypeOK, wireVars, loopVars, history
<1>6. ASSUME P, NEW c \in Conns, ReceiveExecute(c) PROVE Settles(y)
  BY <1>6, ThreadsAssumption
     DEF ReceiveExecute, Reads, Settles, Side, Accepted, Unread, StruckWereHit, Kept, Works,
        Breaks, Live, Threads,
         TypeOK, wireVars, loopVars, history
<1>7. ASSUME P, NEW c \in Conns, LoopEnds(c) PROVE Settles(y)
  BY <1>7, ThreadsAssumption
     DEF LoopEnds, Settles, Side, Accepted, Unread, StruckWereHit, Kept, Works, Breaks,
        Live, Threads,
         TypeOK, wireVars, loopVars, history
<1>8. ASSUME P, NEW c \in Conns, Close(c) PROVE Settles(y)
  BY <1>8, ThreadsAssumption
     DEF Close, Settles, Side, Accepted, Unread, StruckWereHit, Kept, Works, Breaks, Live,
        Threads,
         TypeOK, wireVars, loopVars, history
<1>9. ASSUME P, NEW x \in Execs, Begin(x) PROVE Settles(y)
  BY <1>9, ThreadsAssumption
     DEF Begin, Runs, Over, Settles, Side, Accepted, Unread, StruckWereHit, Kept, Works,
        Breaks, Live, Threads,
         TypeOK, wireVars, loopVars, history
<1>10. ASSUME P, NEW x \in Execs, EnterCode(x) PROVE Settles(y)
  BY <1>10, ThreadsAssumption
     DEF EnterCode, Over, Runs, Settles, Side, Accepted, Unread, StruckWereHit, Kept, Works,
        Breaks, Live, Threads,
         TypeOK, wireVars, loopVars, history
<1>11. ASSUME P, NEW x \in Execs, EnterCommand(x) PROVE Settles(y)
  BY <1>11, ThreadsAssumption
     DEF EnterCommand, Runs, Settles, Side, Accepted, Unread, StruckWereHit, Kept, Works,
        Breaks, Live, Threads,
         TypeOK, wireVars, loopVars, history
<1>12. ASSUME P, NEW x \in Execs, Return(x) PROVE Settles(y)
  BY <1>12, ThreadsAssumption
     DEF Return, Runs, Settles, Side, Accepted, Unread, StruckWereHit, Kept, Works, Breaks,
        Live, Threads,
         TypeOK, wireVars, loopVars, history
<1>13. ASSUME P, NEW x \in Execs, Throw(x) PROVE Settles(y)
  BY <1>13, ThreadsAssumption
     DEF Throw, Runs, Settles, Side, Accepted, Unread, StruckWereHit, Kept, Works, Breaks,
        Live, Threads,
         TypeOK, wireVars, loopVars, history
<1>14. ASSUME P, NEW x \in Execs, Quit(x) PROVE Settles(y)
  BY <1>14, ThreadsAssumption
     DEF Quit, Runs, Over, Settles, Side, Accepted, Unread, StruckWereHit, Kept, Works,
        Breaks, Live, Threads,
         TypeOK, wireVars, loopVars, history
<1>15. ASSUME P, NEW x \in Execs, InterruptCode(x) PROVE Settles(y)
  BY <1>15, ThreadsAssumption
     DEF InterruptCode, Settles, Side, Accepted, Unread, StruckWereHit, Kept, Works, Breaks,
        Live, Threads,
         TypeOK, wireVars, loopVars, history
<1>16. ASSUME P, NEW x \in Execs, CommandEnds(x) PROVE Settles(y)
  <2>1. /\ UNCHANGED <<on, peer, hit, escaped, mixed>>
        /\ \A z \in Threads \ {x} : at'[z] = at[z]
    BY <1>16 DEF CommandEnds, Over, TypeOK, loopVars, history
  <2>2. at[x] = "command" /\ at'[x] \in {"reporting", "ended"}
    BY <1>16 DEF CommandEnds, Runs, Over, TypeOK, Threads
  <2>3. at'[x] = "ended" => Breaks(on[x])
    BY <1>16, <2>2 DEF CommandEnds, TypeOK, Threads
  <2>4. at[y] # "none" => on[y] \in Conns /\ on[y] \in Threads /\ on[y] # x
    BY <1>16, ThreadsAssumption DEF Side, Unread, TypeOK, Threads
  <2>5. y = x => Settles(y)
    BY <2>1, <2>2, <2>3, <2>4 DEF Settles, Kept, Works, Breaks
  <2>6. y # x => Settles(y)
    BY <2>1, <2>4 DEF Settles, Kept, Works, Threads
  <2> QED BY <2>5, <2>6
<1>17. ASSUME P, NEW x \in Execs, Catch(x) PROVE Settles(y)
  BY <1>17, ThreadsAssumption
     DEF Catch, Handlers, Over, Settles, Side, Accepted, Unread, StruckWereHit, Kept, Works,
        Breaks, Live, Threads,
         TypeOK, wireVars, loopVars, history
<1>18. ASSUME P, NEW x \in Execs, Report(x) PROVE Settles(y)
  <2>1. /\ UNCHANGED <<on, peer, hit, escaped, mixed>> /\ on[x] \in Conns /\ on[y] \in Conns \cup {None}
        /\ x \in Threads /\ y \in Threads
    BY <1>18 DEF Report, Runs, Live, TypeOK, loopVars, history, Threads
  <2>2. PICK p \in {"reported", "ended"} : at' = [at EXCEPT ![x] = p]
    BY <1>18 DEF Report, Over
  <2>3. at'[x] = p /\ \A z \in Threads \ {x} : at'[z] = at[z]
    BY <1>18, <2>1, <2>2 DEF TypeOK
  <2>4. CASE y # x
    <3>1. at'[y] = at[y]
      BY <2>1, <2>3, <2>4
    <3>2. CASE at[y] = "none"
      BY <3>1, <3>2 DEF Settles
    <3>3. CASE at[y] # "none"
      <4>1. on[y] \in Conns /\ on[y] \in Threads /\ on[y] # x
        BY <1>18, <2>1, <3>3, ThreadsAssumption DEF Side, Unread, Threads
      <4>2. at'[on[y]] = at[on[y]] /\ peer' = peer
        BY <1>18, <2>1, <2>3, <4>1
      <4>3. Kept(on[y])' => Kept(on[y])
        BY <2>1, <4>2 DEF Kept, Works
      <4> QED BY <3>1, <4>3 DEF Settles
    <3> QED BY <3>2, <3>3
  <2>5. CASE y = x /\ ~mixed /\ Kept(on[x])
    <3>1. locker # None /\ locker = x /\ ~Breaks(on[x])
      <4>1. x # None
        BY ThreadsAssumption
      <4>2. Inside(x)
        BY <1>18 DEF Report, Runs, Inside, Handlers
      <4> QED BY <1>18, <2>5, <4>1, <4>2 DEF Side, Alone, Kept, Works, Breaks
    <3>2. sent' = Written(on[x], Msg(x, FinalState(x)))
      BY <1>18, <3>1 DEF Report
    <3>3. sent'[on[x]] = Append(sent[on[x]], Msg(x, FinalState(x))) /\ sent[on[x]] \in Seq(Message)
      BY <1>18, <2>1, <2>5, <3>2 DEF Written, Kept, TypeOK
    <3>4. LET i == Len(sent[on[x]]) + 1
          IN  i \in DOMAIN sent'[on[x]] /\ sent'[on[x]][i] = Msg(x, FinalState(x))
      <4>1. Msg(x, FinalState(x)) \in Message
        BY DEF Msg, Message, FinalState, Kinds, Terminals
      <4> QED BY <3>3, <4>1
    <3>5. Of(x, Msg(x, FinalState(x))) /\ Msg(x, FinalState(x)).kind \in Terminals
      BY DEF Of, Msg, FinalState, Terminals
    <3>6. Answered(x)'
      BY <2>1, <3>4, <3>5 DEF Answered
    <3> QED BY <2>5, <3>6 DEF Settles
  <2>6. CASE y = x /\ ~Kept(on[x])
    <3>1. ~Kept(on[x])'
      BY <1>18, <2>1, <2>3, <2>6, ThreadsAssumption DEF Kept, Works, Threads
    <3> QED BY <2>1, <2>6, <3>1 DEF Settles
  <2> QED BY <2>1, <2>4, <2>5, <2>6 DEF Settles
<1>19. ASSUME P, NEW x \in Execs, Finish(x) PROVE Settles(y)
  BY <1>19, ThreadsAssumption
     DEF Finish, Runs, Over, Settles, Side, Accepted, Unread, StruckWereHit, Kept, Works,
        Breaks, Live, Threads,
         TypeOK, wireVars, loopVars, history
<1>20. ASSUME P, NEW x \in Execs, InterruptElsewhere(x) PROVE Settles(y)
  BY <1>20, ThreadsAssumption
     DEF InterruptElsewhere, Settles, Side, Accepted, Unread, StruckWereHit, Kept, Works,
        Breaks, Live, Threads,
         TypeOK, wireVars, loopVars, history
<1>21. ASSUME P, NEW t \in Execs \cup Users, Prints(t) PROVE Settles(y)
  BY <1>21, ThreadsAssumption
     DEF Prints, Settles, Side, Accepted, Unread, StruckWereHit, Kept, Works, Breaks, Live,
        Threads,
         TypeOK, wireVars, loopVars, history
<1>22. ASSUME P, NEW x \in Execs, Spawn(x) PROVE Settles(y)
  BY <1>22, ThreadsAssumption
     DEF Spawn, Runs, Settles, Side, Accepted, Unread, StruckWereHit, Kept, Works, Breaks,
        Live, Threads,
         TypeOK, wireVars, loopVars, history
<1>23. ASSUME P, NEW x \in Execs, CommandPrints(x) PROVE Settles(y)
  BY <1>23, ThreadsAssumption
     DEF CommandPrints, Relays, Settles, Side, Accepted, Unread, StruckWereHit, Kept, Works, Breaks,
        Live, Threads,
         TypeOK, wireVars, loopVars, history
<1>24. ASSUME P, NEW u \in Users, UserEnds(u) PROVE Settles(y)
  BY <1>24, ThreadsAssumption
     DEF UserEnds, Settles, Side, Accepted, Unread, StruckWereHit, Kept, Works, Breaks,
        Live, Threads,
         TypeOK, wireVars, loopVars, history
<1>25. ASSUME P, NEW k \in Cascades, Strike(k) PROVE Settles(y)
  BY <1>25, ThreadsAssumption
     DEF Strike, Settles, Side, Accepted, Unread, StruckWereHit, Kept, Works, Breaks, Live,
        Threads,
         TypeOK, wireVars, loopVars, history
<1>26. ASSUME P, NEW k \in Cascades, CascadeEnds(k) PROVE Settles(y)
  BY <1>26, ThreadsAssumption
     DEF CascadeEnds, Settles, Side, Accepted, Unread, StruckWereHit, Kept, Works, Breaks,
        Live, Threads,
         TypeOK, wireVars, loopVars, history
<1>27. ASSUME P, UNCHANGED vars PROVE Settles(y)
  BY <1>27, ThreadsAssumption
     DEF vars, Settles, Side, Accepted, Unread, StruckWereHit, Kept, Works, Breaks, Live,
        Threads,
         TypeOK, wireVars, loopVars, history
<1>28. ASSUME P, NEW x \in Execs, Announce(x) PROVE Settles(y)
  BY <1>28, ThreadsAssumption
     DEF Announce, Relays, Runs, Settles, Side, Accepted, Unread, StruckWereHit, Kept, Works, Breaks, Live,
         Threads, TypeOK, wireVars, loopVars, history
<1>29. ASSUME P, NEW t \in Execs \cup Users, EnterWrap(t) PROVE Settles(y)
  BY <1>29, ThreadsAssumption
     DEF EnterWrap, UserCode, Settles, Side, Accepted, Unread, StruckWereHit, Kept, Works, Breaks, Live,
         Threads, TypeOK, wireVars, loopVars, history
<1>30. ASSUME P, NEW t \in Execs \cup Users, LeaveWrap(t) PROVE Settles(y)
  BY <1>30, ThreadsAssumption
     DEF LeaveWrap, Wrapped, Settles, Side, Accepted, Unread, StruckWereHit, Kept, Works, Breaks, Live,
         Threads, TypeOK, wireVars, loopVars, history
<1> QED
  BY <1>1, <1>2, <1>3, <1>4, <1>5, <1>6, <1>7, <1>8, <1>9, <1>10, <1>11, <1>12, <1>13,
     <1>14, <1>15, <1>16, <1>17, <1>18, <1>19, <1>20, <1>21, <1>22, <1>23, <1>24, <1>25,
        <1>26, <1>27, <1>28, <1>29, <1>30
     DEF Next, ConnStep, LoopStep, ExecStep, CodeEnds, UserStep, CascadeStep

\* History only grows.
LEMMA HistoryStep ==
    [Next]_vars => hit \subseteq hit' /\ escaped \subseteq escaped' /\ (mixed => mixed')
<1> DEFINE Q == hit \subseteq hit' /\ escaped \subseteq escaped' /\ (mixed => mixed')
<1>1. ASSUME NEW c \in Conns, Connect(c) PROVE Q
  BY <1>1 DEF Connect, history
<1>2. ASSUME AcceptKills PROVE Q
  BY <1>2 DEF AcceptKills, history
<1>3. ASSUME NEW c \in Conns, HangUp(c) PROVE Q
  BY <1>3 DEF HangUp, history
<1>4. ASSUME NEW c \in Conns, NEW r \in Execs \cup {"interrupt"}, Submit(c, r) PROVE Q
  BY <1>4 DEF Submit, history
<1>5. ASSUME NEW c \in Conns, ReceiveInterrupt(c) PROVE Q
  BY <1>5 DEF ReceiveInterrupt, Reads, history
<1>6. ASSUME NEW c \in Conns, ReceiveExecute(c) PROVE Q
  BY <1>6 DEF ReceiveExecute, Reads, history
<1>7. ASSUME NEW c \in Conns, LoopEnds(c) PROVE Q
  BY <1>7 DEF LoopEnds, history
<1>8. ASSUME NEW c \in Conns, Close(c) PROVE Q
  BY <1>8 DEF Close, history
<1>9. ASSUME NEW x \in Execs, Begin(x) PROVE Q
  BY <1>9 DEF Begin, Runs, Over, history
<1>10. ASSUME NEW x \in Execs, EnterCode(x) PROVE Q
  BY <1>10 DEF EnterCode, Over, Runs, history
<1>11. ASSUME NEW x \in Execs, EnterCommand(x) PROVE Q
  BY <1>11 DEF EnterCommand, Runs, history
<1>12. ASSUME NEW x \in Execs, Return(x) PROVE Q
  BY <1>12 DEF Return, Runs, history
<1>13. ASSUME NEW x \in Execs, Throw(x) PROVE Q
  BY <1>13 DEF Throw, Runs, history
<1>14. ASSUME NEW x \in Execs, Quit(x) PROVE Q
  BY <1>14 DEF Quit, Runs, Over, history
<1>15. ASSUME NEW x \in Execs, InterruptCode(x) PROVE Q
  BY <1>15 DEF InterruptCode, history
<1>16. ASSUME NEW x \in Execs, CommandEnds(x) PROVE Q
  BY <1>16 DEF CommandEnds, Runs, Over, history
<1>17. ASSUME NEW x \in Execs, Catch(x) PROVE Q
  BY <1>17 DEF Catch, Handlers, Over, history
<1>18. ASSUME NEW x \in Execs, Report(x) PROVE Q
  BY <1>18 DEF Report, Runs, Over, history
<1>19. ASSUME NEW x \in Execs, Finish(x) PROVE Q
  BY <1>19 DEF Finish, Runs, Over, history
<1>20. ASSUME NEW x \in Execs, InterruptElsewhere(x) PROVE Q
  BY <1>20 DEF InterruptElsewhere, history
<1>21. ASSUME NEW t \in Execs \cup Users, Prints(t) PROVE Q
  BY <1>21 DEF Prints, history
<1>22. ASSUME NEW x \in Execs, Spawn(x) PROVE Q
  BY <1>22 DEF Spawn, Runs, history
<1>23. ASSUME NEW x \in Execs, CommandPrints(x) PROVE Q
  BY <1>23 DEF CommandPrints, Relays, history
<1>24. ASSUME NEW u \in Users, UserEnds(u) PROVE Q
  BY <1>24 DEF UserEnds, history
<1>25. ASSUME NEW k \in Cascades, Strike(k) PROVE Q
  BY <1>25 DEF Strike, history
<1>26. ASSUME NEW k \in Cascades, CascadeEnds(k) PROVE Q
  BY <1>26 DEF CascadeEnds, history
<1>27. ASSUME UNCHANGED vars PROVE Q
  BY <1>27 DEF vars, history
<1>28. ASSUME NEW x \in Execs, Announce(x) PROVE Q
  BY <1>28 DEF Announce, Relays, Runs, history
<1>29. ASSUME NEW t \in Execs \cup Users, EnterWrap(t) PROVE Q
  BY <1>29 DEF EnterWrap, UserCode, history
<1>30. ASSUME NEW t \in Execs \cup Users, LeaveWrap(t) PROVE Q
  <2>1. hit \subseteq hit' /\ escaped \subseteq escaped'
    BY <1>30 DEF LeaveWrap
  <2>2. mixed => mixed'
    BY <1>30, Zenon DEF LeaveWrap
  <2> QED BY <2>1, <2>2
<1> QED
  BY <1>1, <1>2, <1>3, <1>4, <1>5, <1>6, <1>7, <1>8, <1>9, <1>10, <1>11, <1>12, <1>13,
     <1>14, <1>15, <1>16, <1>17, <1>18, <1>19, <1>20, <1>21, <1>22, <1>23, <1>24, <1>25,
        <1>26, <1>27, <1>28, <1>29, <1>30
     DEF Next, ConnStep, LoopStep, ExecStep, CodeEnds, UserStep, CascadeStep

\* Every step keeps the answers.
LEMMA EndsStep == TypeOK /\ Side /\ Ends /\ [Next]_vars => Ends'
<1> SUFFICES ASSUME TypeOK, Side, Ends, [Next]_vars, NEW x \in Execs,
                    at'[x] \in {"reported", "ended"}, Kept(on[x])'
             PROVE  Answered(x)' \/ x \in hit' \cup escaped' \/ mixed'
  BY DEF Ends
<1>1. Grows /\ Settles(x)
  BY GrowsStep, SettlesStep DEF Side
<1>2. hit \subseteq hit' /\ escaped \subseteq escaped' /\ (mixed => mixed')
  BY HistoryStep
<1>3. CASE at[x] \in {"reported", "ended"} /\ Kept(on[x])
  <2>1. on[x] \in Conns
    BY <1>3 DEF Side, Unread, TypeOK, Threads
  <2>2. Answered(x) => Answered(x)'
    BY <1>1, <2>1, AnsweredStays
  <2> QED BY <1>2, <1>3, <2>2 DEF Ends
<1> QED BY <1>1, <1>3 DEF Settles

-----------------------------------------------------------------------------
(***************************************************************************)
(* Theorems about what connections carry.                                  *)
(***************************************************************************)

\* The inductive invariant of what connections carry.
THEOREM FramingInvariance == Spec => []FrameInv
<1>1. Init => Side /\ Blocks /\ Ends
  <2> USE ThreadsAssumption DEF Init, Threads
  <2>1. Init => Accepted /\ Unread /\ Alone /\ StruckWereHit /\ NotUsers
    BY DEF Accepted, Unread, Waiting, Alone, InCode, Inside, Handlers, StruckWereHit, NotUsers
  <2>2. Init => Blocks
    BY DEF Blocks, Frames, Owned, Absent, Inside, Handlers, InFrame
  <2>3. Init => Ends
    BY DEF Ends
  <2> QED BY <2>1, <2>2, <2>3 DEF Side
<1>2. FrameInv /\ [Next]_vars => (Side /\ Blocks /\ Ends)'
  <2>1. TypeOK => Shapes
    BY DEF TypeOK, Shapes
  <2> QED BY <2>1, AcceptedStep, UnreadStep, AloneStep, StruckStep, NotUsersStep,
             BlocksStep, EndsStep DEF FrameInv, Side, IInv
<1>3. Spec => [](Side /\ Blocks /\ Ends)
  <2>1. IInv /\ Side /\ Blocks /\ Ends => FrameInv
    BY DEF FrameInv
  <2> QED BY <1>1, <1>2, <2>1, Invariance, PTL DEF Spec
<1> QED BY <1>3, Invariance, PTL DEF FrameInv

\* What a connection carries is one block per execution, for any number of requests,
\* interrupts and threads left behind, until two connections execute together.
THEOREM BlocksAreFramed == Spec => []Framed
<1>1. FrameInv => Framed
  <2> SUFFICES ASSUME Frames, Owned PROVE Framed
    BY DEF FrameInv, Blocks, Framed
  <2> SUFFICES ASSUME NEW c \in Conns, NEW i \in DOMAIN sent[c], sent[c][i].by \in Execs
               PROVE  /\ on[sent[c][i].by] = c
                      /\ InFrame(sent[c], i)
    BY ZenonT(40) DEF Framed, InFrame, Of
  <2> QED BY DEF Frames, Owned
<1> QED BY FramingInvariance, <1>1, PTL

\* An execution that is over has sent its terminal state, unless its connection is gone, it
\* was interrupted, an exception that execute_code lets through ended it, or two
\* connections executed together.
THEOREM EveryEndIsAnswered == Spec => []EndsAnswered
<1>1. FrameInv => EndsAnswered
  BY DEF FrameInv, Ends, EndsAnswered
<1> QED BY FramingInvariance, <1>1, PTL
=============================================================================
