------------------------- MODULE SharedResourceProofs -------------------------
(***************************************************************************)
(* Proofs about what the WebSockets of an environment share: the executor  *)
(* client and its count (ExecutorPool) and the task that polls statistics  *)
(* (ResourceBroadcaster), for any numbers of environments, sockets,        *)
(* executions, clients and tasks.  The inductive invariant of the pool is  *)
(* the conjunction of its safety properties: each needs the others.        *)
(***************************************************************************)
EXTENDS ExecutorPool, ResourceBroadcaster, FiniteSetTheorems, TLAPS

IInv ==
    /\ TypeOK
    /\ DomainsAgree
    /\ ActiveIsConnected
    /\ NoReferenceLeak
    /\ ExactUntilDisturbed
    /\ InFlightKeptUntilDisturbed
    /\ OneClientUntilDisturbed

-----------------------------------------------------------------------------
(***************************************************************************)
(* Holders.                                                                *)
(***************************************************************************)

\* The holders of an environment can be counted, and counting reacts to one holder
\* that comes or goes as it should.
LEMMA HoldersCount ==
    ASSUME NEW e \in Envs
    PROVE  /\ IsFiniteSet(Holders(e))
           /\ Cardinality(Holders(e)) \in Nat
           /\ Cardinality(Holders(e)) = 0 <=> Holders(e) = {}
           /\ \A h : h \notin Holders(e) =>
                 Cardinality(Holders(e) \cup {h}) = Cardinality(Holders(e)) + 1
           /\ \A h \in Holders(e) :
                 /\ Cardinality(Holders(e) \ {h}) = Cardinality(Holders(e)) - 1
                 /\ Cardinality(Holders(e)) > 0
<1>1. IsFiniteSet(Sockets \cup Execs)
  BY FiniteAssumption, FS_Union
<1>2. Holders(e) \in SUBSET (Sockets \cup Execs)
  BY DEF Holders
<1>3. IsFiniteSet(Holders(e))
  BY <1>1, <1>2, FS_Subset
<1>4. /\ Cardinality(Holders(e)) \in Nat
      /\ Cardinality(Holders(e)) = 0 <=> Holders(e) = {}
  BY <1>3, FS_CardinalityType, FS_EmptySet
<1>5. \A h : h \notin Holders(e) =>
          Cardinality(Holders(e) \cup {h}) = Cardinality(Holders(e)) + 1
  BY <1>3, FS_AddElement
<1>6. ASSUME NEW h \in Holders(e)
      PROVE  /\ Cardinality(Holders(e) \ {h}) = Cardinality(Holders(e)) - 1
             /\ Cardinality(Holders(e)) > 0
  <2>1. Cardinality(Holders(e) \ {h}) = Cardinality(Holders(e)) - 1
    BY <1>3, FS_RemoveElement
  <2>2. Cardinality(Holders(e)) # 0
    BY <1>4
  <2> QED BY <2>1, <2>2, <1>4
<1> QED BY <1>3, <1>4, <1>5, <1>6

\* Where the only one of two different holders would be counted.
LEMMA TwoHolders ==
    ASSUME NEW e \in Envs, NEW g \in Holders(e), NEW h \in Holders(e), g # h
    PROVE  Cardinality(Holders(e)) > 1
<1>1. IsFiniteSet(Holders(e)) /\ Cardinality(Holders(e)) \in Nat
  BY HoldersCount
<1>2. IsFiniteSet(Holders(e) \ {h})
  BY <1>1, FS_RemoveElement
<1>3. Cardinality(Holders(e) \ {h}) = Cardinality(Holders(e)) - 1
  BY HoldersCount
<1>4. Cardinality(Holders(e) \ {h}) \in Nat /\ Cardinality(Holders(e) \ {h}) # 0
  BY <1>2, FS_CardinalityType, FS_EmptySet
<1> QED BY <1>1, <1>3, <1>4

-----------------------------------------------------------------------------
(***************************************************************************)
(* Type correctness.                                                       *)
(***************************************************************************)

\* Release keeps the types of what it changes.
LEMMA ReleaseTypes ==
    ASSUME TypeOK, NEW e \in Envs, Release(e)
    PROVE  /\ active' \in [Envs -> Clients \cup {None}]
           /\ refs' \in [Envs -> Nat]
           /\ client' \in [Clients -> {"unused", "connected", "closing", "closed"}]
BY DEF TypeOK, Release, Dropped

\* Every action keeps the types.
LEMMA TypeStep == TypeOK /\ [Next]_vars => TypeOK'
<1> SUFFICES ASSUME TypeOK, [Next]_vars PROVE TypeOK'
  OBVIOUS
<1> USE EnvAssumption
<1>1. ASSUME NEW w \in Sockets, SetupReuse(w) PROVE TypeOK'
  BY <1>1 DEF TypeOK, SetupReuse, Acquired, SocketHolds
<1>2. ASSUME NEW w \in Sockets, SetupBegin(w) PROVE TypeOK'
  BY <1>2 DEF TypeOK, SetupBegin, SocketHolds
<1>3. ASSUME NEW w \in Sockets, SetupFail(w) PROVE TypeOK'
  BY <1>3 DEF TypeOK, SetupFail, SocketHolds
<1>4. ASSUME NEW w \in Sockets, NEW c \in Clients, SetupEnd(w, c) PROVE TypeOK'
  BY <1>4 DEF TypeOK, SetupEnd, SocketHolds
<1>5. ASSUME NEW w \in Sockets, NEW x \in Execs, Execute(w, x) PROVE TypeOK'
  BY <1>5 DEF TypeOK, Execute, Acquired, SocketHolds
<1>6. ASSUME NEW w \in Sockets, Leave(w) PROVE TypeOK'
  BY <1>6, ReleaseTypes DEF TypeOK, Leave, SocketHolds
<1>7. ASSUME NEW w \in Sockets, ForceStop(w) PROVE TypeOK'
  BY <1>7 DEF TypeOK, ForceStop, SocketHolds
<1>8. ASSUME NEW w \in Sockets, DiscardExecutor(w) PROVE TypeOK'
  BY <1>8 DEF TypeOK, DiscardExecutor, Dropped, SocketHolds
<1>9. ASSUME NEW w \in Sockets, ForceStopLeave(w) PROVE TypeOK'
  BY <1>9, ReleaseTypes DEF TypeOK, ForceStopLeave, SocketHolds
<1>10. ASSUME NEW x \in Execs, ExecDone(x) PROVE TypeOK'
  <2>1. env[x] \in Envs
    BY <1>10 DEF TypeOK, ExecDone
  <2> QED BY <1>10, <2>1, ReleaseTypes DEF TypeOK, ExecDone, SocketHolds
<1>11. ASSUME NEW c \in Clients, Disconnected(c) PROVE TypeOK'
  BY <1>11 DEF TypeOK, Disconnected, SocketHolds
<1>12. CASE UNCHANGED vars
  BY <1>12 DEF TypeOK, vars, SocketHolds
<1> QED BY <1>1, <1>2, <1>3, <1>4, <1>5, <1>6, <1>7, <1>8, <1>9, <1>10, <1>11, <1>12
        DEF Next

\* Every variable keeps its type, and a created execution has an environment and a
\* client.
THEOREM TypeCorrect == Spec => []TypeOK
<1>1. Init => TypeOK
  BY DEF Init, TypeOK
<1> QED BY <1>1, TypeStep, PTL DEF Spec

-----------------------------------------------------------------------------
(***************************************************************************)
(* The inductive invariant.                                                *)
(***************************************************************************)

\* What an action does to the holders: one comes, one goes, or none does.
Comes(h, e0) == \A e \in Envs : Holders(e)' = IF e = e0 THEN Holders(e) \cup {h}
                                              ELSE Holders(e)
Goes(h, e0) == \A e \in Envs : Holders(e)' = IF e = e0 THEN Holders(e) \ {h}
                                             ELSE Holders(e)
Stays == \A e \in Envs : Holders(e)' = Holders(e)

\* A new holder that takes a reference of a client in use keeps the count right.
LEMMA AcquireKeeps ==
    ASSUME IInv, NEW e0 \in Envs, NEW h, h \notin Holders(e0), Comes(h, e0),
           active[e0] # None, refs' = Acquired(e0),
           UNCHANGED <<active, client, serves, exact>>
    PROVE  /\ DomainsAgree' /\ ActiveIsConnected' /\ NoReferenceLeak'
           /\ ExactUntilDisturbed' /\ OneClientUntilDisturbed'
<1>1. \A e \in Envs : refs[e] \in Nat /\ Cardinality(Holders(e)) \in Nat
  BY HoldersCount DEF IInv, TypeOK
<1>2. \A e \in Envs : refs'[e] = IF e = e0 THEN refs[e] + 1 ELSE refs[e]
  BY DEF Acquired, IInv, TypeOK
<1>3. \A e \in Envs : Cardinality(Holders(e)') = IF e = e0 THEN Cardinality(Holders(e)) + 1
                                                ELSE Cardinality(Holders(e))
  BY HoldersCount DEF Comes
<1>4. DomainsAgree'
  BY <1>1, <1>2 DEF DomainsAgree, IInv
<1>5. NoReferenceLeak'
  BY <1>1, <1>2, <1>3 DEF NoReferenceLeak, IInv
<1>6. ExactUntilDisturbed'
  BY <1>1, <1>2, <1>3 DEF ExactUntilDisturbed, IInv
<1>7. ActiveIsConnected' /\ OneClientUntilDisturbed'
  BY DEF ActiveIsConnected, OneClientUntilDisturbed, IInv
<1> QED BY <1>4, <1>5, <1>6, <1>7

\* A holder that goes and releases its reference keeps the count right; and while
\* the count was exact, the client stays if anybody else holds the environment.
LEMMA ReleaseKeeps ==
    ASSUME IInv, NEW e0 \in Envs, NEW h \in Holders(e0), Goes(h, e0),
           Release(e0), UNCHANGED <<serves, exact>>
    PROVE  /\ DomainsAgree' /\ ActiveIsConnected' /\ NoReferenceLeak'
           /\ ExactUntilDisturbed' /\ OneClientUntilDisturbed'
           /\ \A e \in Envs \ {e0} : active'[e] = active[e]
           /\ \A g \in Holders(e0) : g # h /\ exact[e0] => active'[e0] = active[e0]
<1>1. \A e \in Envs : refs[e] \in Nat /\ Cardinality(Holders(e)) \in Nat
  BY HoldersCount DEF IInv, TypeOK
<1>2. \A e \in Envs : Cardinality(Holders(e)') = IF e = e0 THEN Cardinality(Holders(e)) - 1
                                                ELSE Cardinality(Holders(e))
  BY HoldersCount DEF Goes
<1>3. Cardinality(Holders(e0)) > 0
  BY HoldersCount
<1>4. ActiveIsConnected /\ OneClientUntilDisturbed /\ TypeOK /\ DomainsAgree
      /\ NoReferenceLeak /\ ExactUntilDisturbed
  BY DEF IInv
<1>5. CASE refs[e0] <= 1
  <2>1. /\ refs' = [refs EXCEPT ![e0] = 0]
        /\ active' = [active EXCEPT ![e0] = None]
        /\ client' = Dropped(active[e0])
    BY <1>5 DEF Release
  <2>2. \A e \in Envs : /\ refs'[e] = IF e = e0 THEN 0 ELSE refs[e]
                        /\ active'[e] = IF e = e0 THEN None ELSE active[e]
    BY <2>1, <1>4 DEF TypeOK
  <2>3. \A c \in Clients : client'[c] = IF c = active[e0] THEN "closing" ELSE client[c]
    BY <2>1, <1>4, DistinctAssumption DEF TypeOK, Dropped
  <2>4. DomainsAgree'
    BY <2>2, <1>4 DEF DomainsAgree
  <2>5. ActiveIsConnected'
    <3> SUFFICES ASSUME NEW e \in Envs, active'[e] # None
                 PROVE  client'[active'[e]] = "connected" /\ serves'[active'[e]] = e
      BY DEF ActiveIsConnected
    <3>1. e # e0 /\ active'[e] = active[e] /\ active[e] \in Clients
      BY <2>2, <1>4 DEF TypeOK
    <3>2. client[active[e]] = "connected" /\ serves[active[e]] = e
      BY <3>1, <1>4 DEF ActiveIsConnected
    <3>3. active[e0] # active[e]
      BY <3>1, <3>2, <1>4 DEF ActiveIsConnected
    <3> QED BY <3>1, <3>2, <3>3, <2>3
  <2>6. NoReferenceLeak'
    BY <2>2, <1>1, <1>2, <1>3, <1>4 DEF NoReferenceLeak
  <2>7. ExactUntilDisturbed'
    BY <2>2, <1>1, <1>2, <1>3, <1>4, <1>5 DEF ExactUntilDisturbed
  <2>8. OneClientUntilDisturbed'
    <3> SUFFICES ASSUME NEW c \in Clients, client'[c] = "connected", exact[serves[c]]
                 PROVE  active'[serves[c]] = c
      BY DEF OneClientUntilDisturbed
    <3>1. c # active[e0] /\ client[c] = "connected"
      BY <2>3
    <3>2. active[serves[c]] = c
      BY <3>1, <1>4 DEF OneClientUntilDisturbed
    <3>3. serves[c] # e0
      BY <3>1, <3>2
    <3> QED BY <3>2, <3>3, <2>1, <1>4 DEF TypeOK
  <2>9. ASSUME NEW g \in Holders(e0), g # h, exact[e0] PROVE FALSE
    <3>1. Cardinality(Holders(e0)) > 1
      BY <2>9, TwoHolders
    <3> QED BY <3>1, <2>9, <1>1, <1>4, <1>5 DEF ExactUntilDisturbed
  <2> QED BY <2>2, <2>4, <2>5, <2>6, <2>7, <2>8, <2>9
<1>6. CASE ~(refs[e0] <= 1)
  <2>1. refs' = [refs EXCEPT ![e0] = @ - 1] /\ UNCHANGED <<active, client>>
    BY <1>6 DEF Release
  <2>2. \A e \in Envs : refs'[e] = IF e = e0 THEN refs[e] - 1 ELSE refs[e]
    BY <2>1, <1>4 DEF TypeOK
  <2>3. DomainsAgree'
    BY <2>1, <2>2, <1>1, <1>4, <1>6 DEF DomainsAgree
  <2>4. ActiveIsConnected' /\ OneClientUntilDisturbed'
    BY <2>1, <1>4 DEF ActiveIsConnected, OneClientUntilDisturbed
  <2>5. NoReferenceLeak'
    BY <2>2, <1>1, <1>2, <1>3, <1>4 DEF NoReferenceLeak
  <2>6. ExactUntilDisturbed'
    BY <2>2, <1>1, <1>2, <1>3, <1>4 DEF ExactUntilDisturbed
  <2> QED BY <2>1, <2>3, <2>4, <2>5, <2>6
<1> QED BY <1>5, <1>6

\* A step that moves no holder and leaves the counts and the dictionary alone.
LEMMA QuietKeeps ==
    ASSUME IInv, Stays, UNCHANGED <<active, refs, client, serves, exact>>
    PROVE  /\ DomainsAgree' /\ ActiveIsConnected' /\ NoReferenceLeak'
           /\ ExactUntilDisturbed' /\ OneClientUntilDisturbed'
BY DEF IInv, Stays, DomainsAgree, ActiveIsConnected, NoReferenceLeak,
       ExactUntilDisturbed, OneClientUntilDisturbed

LEMMA SetupReuseKeeps == ASSUME IInv, NEW w \in Sockets, SetupReuse(w), TypeOK' PROVE IInv'
<1> USE EnvAssumption, DistinctAssumption
<1>1. w \notin Holders(EnvOf[w])
  BY DEF SetupReuse, Holders, SocketHolds
<1>2. Comes(w, EnvOf[w])
  BY DEF IInv, TypeOK, SetupReuse, Comes, Holders, SocketHolds
<1>3. InFlightKeptUntilDisturbed'
  BY DEF IInv, InFlightKeptUntilDisturbed, SetupReuse
<1> QED BY <1>1, <1>2, <1>3, AcquireKeeps DEF SetupReuse, IInv

LEMMA QuietSocketKeeps ==
    ASSUME IInv, NEW w \in Sockets, SetupBegin(w) \/ SetupFail(w) \/ ForceStop(w), TypeOK'
    PROVE  IInv'
<1>1. Stays
  BY DEF IInv, TypeOK, SetupBegin, SetupFail, ForceStop, Stays, Holders, SocketHolds
<1>2. InFlightKeptUntilDisturbed'
  BY DEF IInv, InFlightKeptUntilDisturbed, SetupBegin, SetupFail, ForceStop
<1> QED BY <1>1, <1>2, QuietKeeps DEF SetupBegin, SetupFail, ForceStop, IInv

\* A finished set-up: the count is 1 and there is at least the new holder; it is
\* exact when there was no other.
LEMMA SetupEndKeeps ==
    ASSUME IInv, NEW w \in Sockets, NEW c \in Clients, SetupEnd(w, c), TypeOK'
    PROVE  IInv'
<1> DEFINE e0 == EnvOf[w]
<1>1. e0 \in Envs /\ w \notin Holders(e0)
  BY EnvAssumption, DistinctAssumption DEF SetupEnd, Holders, SocketHolds
<1>2. Comes(w, e0)
  BY DistinctAssumption, EnvAssumption
     DEF IInv, TypeOK, SetupEnd, Comes, Holders, SocketHolds
<1>3. \A e \in Envs : Cardinality(Holders(e)') = IF e = e0 THEN Cardinality(Holders(e)) + 1
                                                ELSE Cardinality(Holders(e))
  BY <1>1, <1>2, HoldersCount DEF Comes
<1>4. \A e \in Envs : /\ refs'[e] = IF e = e0 THEN 1 ELSE refs[e]
                      /\ active'[e] = IF e = e0 THEN c ELSE active[e]
                      /\ exact'[e] = IF e = e0 THEN exact[e] /\ Holders(e) = {}
                                    ELSE exact[e]
  BY <1>1 DEF SetupEnd, IInv, TypeOK
<1>5. \A d \in Clients : /\ client'[d] = IF d = c THEN "connected" ELSE client[d]
                         /\ serves'[d] = IF d = c THEN e0 ELSE serves[d]
  BY <1>1 DEF SetupEnd, IInv, TypeOK
<1>6. \A e \in Envs : Cardinality(Holders(e)) \in Nat
                      /\ (Cardinality(Holders(e)) = 0 <=> Holders(e) = {})
  BY HoldersCount
<1>7. client[c] = "unused" /\ UNCHANGED <<run, env, uses>>
  BY DEF SetupEnd
<1>8. DomainsAgree'
  BY <1>1, <1>4, DistinctAssumption DEF DomainsAgree, IInv
<1>9. ActiveIsConnected'
  <2> SUFFICES ASSUME NEW e \in Envs, active'[e] # None
               PROVE  client'[active'[e]] = "connected" /\ serves'[active'[e]] = e
    BY DEF ActiveIsConnected
  <2>1. CASE e = e0
    BY <2>1, <1>1, <1>4, <1>5
  <2>2. CASE e # e0
    <3>0. active \in [Envs -> Clients \cup {None}]
      BY DEF IInv, TypeOK
    <3>1. active'[e] = active[e] /\ active[e] \in Clients /\ active[e] # None
      BY <2>2, <1>4, <3>0
    <3>2. client[active[e]] = "connected" /\ serves[active[e]] = e
      BY <3>1 DEF IInv, ActiveIsConnected
    <3> QED BY <3>1, <3>2, <1>5, <1>7
  <2> QED BY <2>1, <2>2
<1>10. NoReferenceLeak'
  BY <1>1, <1>3, <1>4, <1>6 DEF NoReferenceLeak, IInv
<1>11. ExactUntilDisturbed'
  <2> SUFFICES ASSUME NEW e \in Envs, exact'[e]
               PROVE  refs'[e] = Cardinality(Holders(e)')
    BY DEF ExactUntilDisturbed
  <2>1. CASE e = e0
    <3>1. Holders(e) = {}
      BY <1>4, <2>1
    <3>2. Cardinality(Holders(e)') = Cardinality(Holders(e)) + 1 /\ refs'[e] = 1
      BY <1>3, <1>4, <2>1
    <3> QED BY <3>1, <3>2, <1>6
  <2>2. CASE e # e0
    <3>1. exact[e] /\ refs'[e] = refs[e]
      BY <1>4, <2>2
    <3>2. Cardinality(Holders(e)') = Cardinality(Holders(e))
      BY <1>3, <2>2
    <3> QED BY <3>1, <3>2 DEF IInv, ExactUntilDisturbed
  <2> QED BY <2>1, <2>2
<1>12. InFlightKeptUntilDisturbed'
  <2> SUFFICES ASSUME NEW x \in Execs, run[x] = "running", exact'[env[x]]
               PROVE  uses[x] = active'[env[x]]
    BY <1>7 DEF InFlightKeptUntilDisturbed
  <2>1. env[x] \in Envs /\ x \in Holders(env[x])
    BY DEF IInv, TypeOK, Holders
  <2>2. env[x] # e0 /\ exact[env[x]]
    BY <2>1, <1>4
  <2> QED BY <2>1, <2>2, <1>4 DEF IInv, InFlightKeptUntilDisturbed
<1>13. OneClientUntilDisturbed'
  <2> SUFFICES ASSUME NEW d \in Clients, client'[d] = "connected", exact'[serves'[d]]
               PROVE  active'[serves'[d]] = d
    BY DEF OneClientUntilDisturbed
  <2>1. CASE d = c
    BY <2>1, <1>1, <1>4, <1>5
  <2>2. CASE d # c /\ serves[d] = e0
    <3>1. client[d] = "connected" /\ exact[e0] /\ Holders(e0) = {}
      BY <2>2, <1>1, <1>4, <1>5
    <3>2. active[e0] = d /\ refs[e0] = 0
      BY <3>1, <2>2, <1>1, <1>6
         DEF IInv, OneClientUntilDisturbed, ExactUntilDisturbed
    <3> QED BY <3>2, <1>1, DistinctAssumption DEF IInv, DomainsAgree
  <2>3. CASE d # c /\ serves[d] # e0
    <3>1. client[d] = "connected" /\ serves'[d] = serves[d]
      BY <2>3, <1>5
    <3>2. exact' = [exact EXCEPT ![e0] = @ /\ Holders(e0) = {}]
          /\ active' = [active EXCEPT ![e0] = c]
      BY DEF SetupEnd
    <3>3. exact[serves[d]]
      BY <2>3, <3>1, <3>2 DEF IInv, TypeOK
    <3>4. active[serves[d]] = d
      BY <3>1, <3>3 DEF IInv, OneClientUntilDisturbed
    <3> QED BY <2>3, <3>1, <3>2, <3>4 DEF IInv, TypeOK
  <2> QED BY <2>1, <2>2, <2>3
<1> QED BY <1>8, <1>9, <1>10, <1>11, <1>12, <1>13 DEF IInv

LEMMA ExecuteKeeps ==
    ASSUME IInv, NEW w \in Sockets, NEW x \in Execs, Execute(w, x), TypeOK'
    PROVE  IInv'
<1> DEFINE e0 == EnvOf[w]
<1> USE EnvAssumption, DistinctAssumption
<1>1. e0 \in Envs /\ x \notin Holders(e0)
  BY DEF Execute, Holders
<1>2. Comes(x, e0)
  BY DEF IInv, TypeOK, Execute, Comes, Holders, SocketHolds
<1>3. InFlightKeptUntilDisturbed'
  BY DEF IInv, TypeOK, InFlightKeptUntilDisturbed, Execute
<1> QED BY <1>1, <1>2, <1>3, AcquireKeeps DEF Execute, IInv

\* A socket that leaves: executions in flight hold the environment too, so they keep
\* their client.
LEMMA LeaveKeeps ==
    ASSUME IInv, NEW w \in Sockets, Leave(w) \/ ForceStopLeave(w), TypeOK'
    PROVE  IInv'
<1> DEFINE e0 == EnvOf[w]
<1>1. e0 \in Envs /\ w \in Holders(e0)
  BY EnvAssumption DEF Leave, ForceStopLeave, Holders, SocketHolds
<1>2. Goes(w, e0)
  BY DistinctAssumption, EnvAssumption
     DEF IInv, TypeOK, Leave, ForceStopLeave, Goes, Holders, SocketHolds
<1>3. Release(e0) /\ UNCHANGED <<serves, run, env, uses, exact>>
  BY DEF Leave, ForceStopLeave
<1>4. /\ DomainsAgree' /\ ActiveIsConnected' /\ NoReferenceLeak'
      /\ ExactUntilDisturbed' /\ OneClientUntilDisturbed'
      /\ \A e \in Envs \ {e0} : active'[e] = active[e]
      /\ \A g \in Holders(e0) : g # w /\ exact[e0] => active'[e0] = active[e0]
  BY <1>1, <1>2, <1>3, ReleaseKeeps
<1>5. InFlightKeptUntilDisturbed'
  <2> SUFFICES ASSUME NEW x \in Execs, run[x] = "running", exact[env[x]]
               PROVE  uses[x] = active'[env[x]]
    BY <1>3 DEF InFlightKeptUntilDisturbed
  <2>1. env[x] \in Envs /\ x \in Holders(env[x]) /\ x # w
    BY DistinctAssumption DEF IInv, TypeOK, Holders
  <2>2. active'[env[x]] = active[env[x]]
    BY <2>1, <1>4
  <2> QED BY <2>2 DEF IInv, InFlightKeptUntilDisturbed
<1> QED BY <1>4, <1>5 DEF IInv

LEMMA ExecDoneKeeps ==
    ASSUME IInv, NEW x \in Execs, ExecDone(x), TypeOK'
    PROVE  IInv'
<1> DEFINE e0 == env[x]
<1>1. e0 \in Envs /\ x \in Holders(e0)
  BY DEF ExecDone, IInv, TypeOK, Holders
<1>2. Goes(x, e0)
  BY DistinctAssumption DEF IInv, TypeOK, ExecDone, Goes, Holders
<1>3. Release(e0) /\ UNCHANGED <<serves, env, uses, exact>>
      /\ run' = [run EXCEPT ![x] = "done"]
  BY DEF ExecDone
<1>4. /\ DomainsAgree' /\ ActiveIsConnected' /\ NoReferenceLeak'
      /\ ExactUntilDisturbed' /\ OneClientUntilDisturbed'
      /\ \A e \in Envs \ {e0} : active'[e] = active[e]
      /\ \A g \in Holders(e0) : g # x /\ exact[e0] => active'[e0] = active[e0]
  BY <1>1, <1>2, <1>3, ReleaseKeeps
<1>5. InFlightKeptUntilDisturbed'
  <2> SUFFICES ASSUME NEW y \in Execs, run'[y] = "running", exact[env[y]]
               PROVE  uses[y] = active'[env[y]]
    BY <1>3 DEF InFlightKeptUntilDisturbed
  <2>1. y # x /\ run[y] = "running"
    BY <1>3 DEF IInv, TypeOK
  <2>2. env[y] \in Envs /\ y \in Holders(env[y])
    BY <2>1 DEF IInv, TypeOK, Holders
  <2>3. active'[env[y]] = active[env[y]]
    BY <2>1, <2>2, <1>4
  <2> QED BY <2>1, <2>3 DEF IInv, InFlightKeptUntilDisturbed
<1> QED BY <1>4, <1>5 DEF IInv

\* The force stop empties the entry; the environment is no longer exact.
LEMMA DiscardKeeps ==
    ASSUME IInv, NEW w \in Sockets, DiscardExecutor(w), TypeOK'
    PROVE  IInv'
<1> DEFINE e0 == EnvOf[w]
<1>1. e0 \in Envs
  BY EnvAssumption
<1>2. Stays
  BY DEF IInv, TypeOK, DiscardExecutor, Stays, Holders, SocketHolds
<1>3. /\ active' = [active EXCEPT ![e0] = None]
      /\ refs' = [refs EXCEPT ![e0] = 0]
      /\ client' = Dropped(active[e0])
      /\ exact' = [exact EXCEPT ![e0] = FALSE]
      /\ UNCHANGED <<serves, run, env, uses>>
  BY DEF DiscardExecutor
<1>4. \A e \in Envs : /\ refs'[e] = IF e = e0 THEN 0 ELSE refs[e]
                      /\ active'[e] = IF e = e0 THEN None ELSE active[e]
                      /\ exact'[e] = IF e = e0 THEN FALSE ELSE exact[e]
  BY <1>3 DEF IInv, TypeOK
<1>5. \A c \in Clients : client'[c] = IF c = active[e0] THEN "closing" ELSE client[c]
  BY <1>3, DistinctAssumption DEF IInv, TypeOK, Dropped
<1>6. DomainsAgree'
  BY <1>4 DEF IInv, DomainsAgree
<1>7. ActiveIsConnected'
  <2> SUFFICES ASSUME NEW e \in Envs, active'[e] # None
               PROVE  client'[active'[e]] = "connected" /\ serves'[active'[e]] = e
    BY DEF ActiveIsConnected
  <2>0. active \in [Envs -> Clients \cup {None}]
    BY DEF IInv, TypeOK
  <2>1. e # e0 /\ active'[e] = active[e] /\ active[e] \in Clients
    BY <2>0, <1>4
  <2>2. client[active[e]] = "connected" /\ serves[active[e]] = e
    BY <2>1, <1>4 DEF IInv, ActiveIsConnected
  <2>3. active[e0] # active[e]
    BY <1>1, <2>1, <2>2, <1>4 DEF IInv, ActiveIsConnected
  <2> QED BY <2>1, <2>2, <2>3, <1>3, <1>5
<1>8. NoReferenceLeak'
  <2>1. \A e \in Envs : Cardinality(Holders(e)) \in Nat /\ Holders(e)' = Holders(e)
    BY <1>2, HoldersCount DEF Stays
  <2>2. \A e \in Envs : refs[e] <= Cardinality(Holders(e))
    BY DEF IInv, NoReferenceLeak
  <2>3. \A e \in Envs : refs'[e] = IF e = e0 THEN 0 ELSE refs[e]
    BY <1>4
  <2>4. \A e \in Envs : Cardinality(Holders(e)') = Cardinality(Holders(e))
    BY <2>1
  <2>5. ASSUME NEW e \in Envs PROVE refs'[e] <= Cardinality(Holders(e)')
    <3>1. Cardinality(Holders(e)') = Cardinality(Holders(e)) /\ Cardinality(Holders(e)) \in Nat
      BY <2>1, <2>4
    <3>2. CASE e = e0
      BY <2>3, <3>1, <3>2
    <3>3. CASE e # e0
      BY <2>2, <2>3, <3>1, <3>3
    <3> QED BY <3>2, <3>3
  <2> QED BY <2>5 DEF NoReferenceLeak
<1>9. ExactUntilDisturbed'
  BY <1>2, <1>4, ZenonT(40) DEF IInv, ExactUntilDisturbed, Stays
<1>10. InFlightKeptUntilDisturbed'
  BY <1>3, <1>4 DEF IInv, TypeOK, InFlightKeptUntilDisturbed
<1>11. OneClientUntilDisturbed'
  <2> SUFFICES ASSUME NEW c \in Clients, client'[c] = "connected", exact'[serves[c]]
               PROVE  active'[serves[c]] = c
    BY <1>3 DEF OneClientUntilDisturbed
  <2>1. client[c] = "connected" /\ serves[c] # e0 /\ exact[serves[c]]
    BY <1>1, <1>3, <1>5 DEF IInv, TypeOK
  <2>2. active[serves[c]] = c
    BY <2>1 DEF IInv, OneClientUntilDisturbed
  <2> QED BY <2>1, <2>2, <1>3 DEF IInv, TypeOK
<1> QED BY <1>6, <1>7, <1>8, <1>9, <1>10, <1>11 DEF IInv

\* Only a client that has left the dictionary finishes its disconnect.
LEMMA DisconnectedKeeps ==
    ASSUME IInv, NEW c \in Clients, Disconnected(c), TypeOK'
    PROVE  IInv'
<1>1. Stays
  BY DEF Disconnected, Stays, Holders
<1>2. ActiveIsConnected' /\ OneClientUntilDisturbed'
  BY DEF Disconnected, IInv, TypeOK, ActiveIsConnected, OneClientUntilDisturbed
<1>3. DomainsAgree' /\ NoReferenceLeak' /\ ExactUntilDisturbed'
      /\ InFlightKeptUntilDisturbed'
  BY <1>1 DEF Disconnected, IInv, Stays, DomainsAgree, NoReferenceLeak,
              ExactUntilDisturbed, InFlightKeptUntilDisturbed
<1> QED BY <1>2, <1>3 DEF IInv

LEMMA InitIInv == Init => IInv
<1> SUFFICES ASSUME Init PROVE IInv
  OBVIOUS
<1>1. TypeOK
  BY DEF Init, TypeOK
<1>2. \A e \in Envs : Holders(e) = {}
  BY DEF Init, Holders, SocketHolds
<1>3. NoReferenceLeak /\ ExactUntilDisturbed
  <2>1. \A e \in Envs : Cardinality(Holders(e)) = 0 /\ refs[e] = 0
    BY <1>2, FS_EmptySet DEF Init
  <2> QED BY <2>1 DEF NoReferenceLeak, ExactUntilDisturbed
<1> QED BY <1>1, <1>3 DEF Init, IInv, DomainsAgree, ActiveIsConnected,
           InFlightKeptUntilDisturbed, OneClientUntilDisturbed

LEMMA StepIInv == IInv /\ [Next]_vars => IInv'
<1> SUFFICES ASSUME IInv, [Next]_vars PROVE IInv'
  OBVIOUS
<1>1. TypeOK'
  BY TypeStep DEF IInv
<1>2. CASE UNCHANGED vars
  BY <1>2 DEF vars, IInv, TypeOK, DomainsAgree, ActiveIsConnected, NoReferenceLeak,
              ExactUntilDisturbed, InFlightKeptUntilDisturbed,
              OneClientUntilDisturbed, Holders
<1>3. CASE Next
  BY <1>1, <1>3, SetupReuseKeeps, QuietSocketKeeps, SetupEndKeeps, ExecuteKeeps,
     LeaveKeeps, ExecDoneKeeps, DiscardKeeps, DisconnectedKeeps DEF Next
<1> QED BY <1>2, <1>3

-----------------------------------------------------------------------------
(***************************************************************************)
(* The theorems.                                                           *)
(***************************************************************************)

LEMMA Inductive == Spec => []IInv
BY InitIInv, StepIInv, PTL DEF Spec

\* The two dictionaries always have the same keys.
THEOREM DictionariesAgree == Spec => []DomainsAgree
<1>1. IInv => DomainsAgree
  BY DEF IInv
<1> QED BY <1>1, Inductive, PTL

\* A client leaves the dictionary before it is disconnected, so the test
\* "not current.is_connected" of the message loop never decides.
THEOREM ActiveClientsConnected == Spec => []ActiveIsConnected
<1>1. IInv => ActiveIsConnected
  BY DEF IInv
<1> QED BY <1>1, Inductive, PTL

\* The count never exceeds the number of holders, whatever set-ups overlap and
\* whoever forces a stop.
THEOREM ReferencesDoNotLeak == Spec => []NoReferenceLeak
<1>1. IInv => NoReferenceLeak
  BY DEF IInv
<1> QED BY <1>1, Inductive, PTL

\* When the last socket has left and the last execution has ended, the client has
\* been taken out of the dictionary.
THEOREM LastLeaverTearsDown == Spec => []IdleHasNoClient
<1>1. IInv => IdleHasNoClient
  <2> SUFFICES ASSUME IInv, NEW e \in Envs, Holders(e) = {} PROVE active[e] = None
    BY DEF IdleHasNoClient
  <2>1. refs[e] \in Nat /\ refs[e] <= 0
    BY FS_EmptySet DEF IInv, TypeOK, NoReferenceLeak
  <2> QED BY <2>1 DEF IInv, DomainsAgree
<1> QED BY <1>1, Inductive, PTL

\* The count is exact until a set-up overwrites it or a force stop drops it.
THEOREM CountIsExact == Spec => []ExactUntilDisturbed
<1>1. IInv => ExactUntilDisturbed
  BY DEF IInv
<1> QED BY <1>1, Inductive, PTL

\* Until then no execution loses the client it was given.
THEOREM InFlightIsKept == Spec => []InFlightKeptUntilDisturbed
<1>1. IInv => InFlightKeptUntilDisturbed
  BY DEF IInv
<1> QED BY <1>1, Inductive, PTL

\* Until then no connection is left open that nobody will close.
THEOREM NoStrayClient == Spec => []OneClientUntilDisturbed
<1>1. IInv => OneClientUntilDisturbed
  BY DEF IInv
<1> QED BY <1>1, Inductive, PTL

-----------------------------------------------------------------------------
(***************************************************************************)
(* The broadcaster.                                                        *)
(***************************************************************************)

\* A task that was not created yet was not cancelled.
FreshIsNotDoomed == \A t \in Tasks : task[t] = "unused" => ~doomed[t]

StatsInv == StatsTypeOK /\ PolledIffSubscribed /\ OnePoller /\ FreshIsNotDoomed

LEMMA StatsInitInv == StatsInit => StatsInv
BY DEF StatsInit, StatsInv, StatsTypeOK, PolledIffSubscribed, OnePoller,
       FreshIsNotDoomed, Running

-----------------------------------------------------------------------------

LEMMA SubscribeKeeps ==
    ASSUME StatsInv, NEW w \in Sockets, Subscribe(w)
    PROVE  StatsInv'
<1> DEFINE e == EnvOf[w]
<1>1. e \in Envs
  BY EnvAssumption
<1>2. /\ subs' = [subs EXCEPT ![e] = @ \cup {w}] /\ subs \in [Envs -> SUBSET Sockets]
      /\ subs' \in [Envs -> SUBSET Sockets]
      /\ subscription' \in [Sockets -> {"new", "subscribed", "left"}]
      /\ UNCHANGED <<doomed, todo, fed>>
  BY <1>1 DEF Subscribe, StatsInv, StatsTypeOK
<1>3. subs'[e] # {} /\ \A d \in Envs \ {e} : subs'[d] = subs[d]
  BY <1>1, <1>2
<1>4. CASE poller[e] # None /\ UNCHANGED <<poller, task, polls>>
  <2>1. StatsTypeOK'
    BY <1>2, <1>4 DEF StatsInv, StatsTypeOK
  <2>2. PolledIffSubscribed'
    BY <1>1, <1>2, <1>3, <1>4 DEF StatsInv, PolledIffSubscribed
  <2>3. OnePoller' /\ FreshIsNotDoomed'
    BY <1>2, <1>4 DEF StatsInv, OnePoller, FreshIsNotDoomed
  <2> QED BY <2>1, <2>2, <2>3 DEF StatsInv
<1>5. ASSUME poller[e] = None, NEW t \in Tasks, task[t] = "unused",
             task' = [task EXCEPT ![t] = "collecting"],
             polls' = [polls EXCEPT ![t] = e],
             poller' = [poller EXCEPT ![e] = t]
      PROVE  StatsInv'
  <2>1. /\ task \in [Tasks -> {"unused", "ended"} \cup Running]
        /\ polls \in [Tasks -> Envs \cup {None}]
        /\ poller \in [Envs -> Tasks \cup {None}]
    BY DEF StatsInv, StatsTypeOK
  <2>2. /\ task'[t] = "collecting" /\ polls'[t] = e /\ poller'[e] = t
        /\ \A u \in Tasks \ {t} : task'[u] = task[u] /\ polls'[u] = polls[u]
        /\ \A d \in Envs \ {e} : poller'[d] = poller[d]
    BY <1>1, <1>5, <2>1
  <2>3. t # None /\ "collecting" \in Running /\ "unused" \notin Running
    BY TasksAssumption DEF Running
  <2>4. StatsTypeOK'
    <3>1. /\ task' \in [Tasks -> {"unused", "ended"} \cup Running]
          /\ polls' \in [Tasks -> Envs \cup {None}]
          /\ poller' \in [Envs -> Tasks \cup {None}]
      BY <1>1, <1>5, <2>1, <2>3
    <3>2. \A u \in Tasks : task'[u] # "unused" => polls'[u] \in Envs
      BY <1>1, <2>2 DEF StatsInv, StatsTypeOK
    <3>3. \A u \in Tasks : todo'[u] # {} => task'[u] = "sending"
      <4>1. todo[t] = {}
        BY <1>5 DEF StatsInv, StatsTypeOK
      <4> QED BY <1>2, <2>2, <4>1 DEF StatsInv, StatsTypeOK
    <3> QED BY <1>2, <3>1, <3>2, <3>3 DEF StatsInv, StatsTypeOK
  <2>5. PolledIffSubscribed'
    <3>1. ASSUME NEW d \in Envs
          PROVE  /\ poller'[d] = None <=> subs'[d] = {}
                 /\ poller'[d] # None => /\ task'[poller'[d]] \in Running
                                         /\ polls'[poller'[d]] = d
                                         /\ ~doomed'[poller'[d]]
      <4>1. CASE d = e
        BY <1>2, <1>3, <1>5, <2>2, <2>3, <4>1 DEF StatsInv, FreshIsNotDoomed
      <4>2. CASE d # e
        <5>1. poller'[d] = poller[d] /\ subs'[d] = subs[d]
          BY <1>3, <2>2, <4>2
        <5>2. CASE poller[d] = None
          BY <5>1, <5>2 DEF StatsInv, PolledIffSubscribed
        <5>3. CASE poller[d] # None
          <6>1. /\ poller[d] \in Tasks /\ subs[d] # {}
                /\ task[poller[d]] \in Running
                /\ polls[poller[d]] = d /\ ~doomed[poller[d]]
            BY <2>1, <5>3 DEF StatsInv, PolledIffSubscribed
          <6>2. poller[d] # t
            BY <1>5, <2>3, <6>1
          <6>3. /\ task'[poller[d]] = task[poller[d]]
                /\ polls'[poller[d]] = polls[poller[d]]
            BY <2>2, <6>1, <6>2
          <6>4. ~doomed'[poller[d]]
            BY <1>2, <6>1
          <6>5. task'[poller'[d]] \in Running /\ polls'[poller'[d]] = d
            BY <5>1, <6>1, <6>3
          <6>6. ~doomed'[poller'[d]]
            BY <5>1, <6>4
          <6>7. poller'[d] # None /\ subs'[d] # {}
            BY <5>1, <5>3, <6>1
          <6> QED BY <6>5, <6>6, <6>7
        <5> QED BY <5>2, <5>3
      <4> QED BY <4>1, <4>2
    <3> QED BY <3>1 DEF PolledIffSubscribed
  <2>6. OnePoller'
    <3>1. ASSUME NEW u \in Tasks, task'[u] \in Running, ~doomed'[u]
          PROVE  poller'[polls'[u]] = u
      <4>1. CASE u = t
        BY <2>2, <4>1
      <4>2. CASE u # t
        <5>1. /\ task[u] \in Running /\ ~doomed[u] /\ polls'[u] = polls[u]
              /\ poller[polls[u]] = u
          BY <1>2, <2>2, <3>1, <4>2 DEF StatsInv, OnePoller
        <5>2. polls[u] \in Envs /\ u # None
          BY <2>3, <5>1, TasksAssumption DEF StatsInv, StatsTypeOK
        <5>3. polls[u] # e
          BY <1>5, <5>1, <5>2
        <5> QED BY <2>2, <5>1, <5>2, <5>3
      <4> QED BY <4>1, <4>2
    <3> QED BY <3>1 DEF OnePoller
  <2>7. FreshIsNotDoomed'
    BY <1>2, <2>2 DEF StatsInv, FreshIsNotDoomed
  <2> QED BY <2>4, <2>5, <2>6, <2>7 DEF StatsInv
<1> QED BY <1>4, <1>5 DEF Subscribe

LEMMA UnsubscribeKeeps ==
    ASSUME StatsInv, NEW w \in Sockets, Unsubscribe(w)
    PROVE  StatsInv'
<1> DEFINE e == EnvOf[w]
<1>1. e \in Envs
  BY EnvAssumption
<1>2. /\ subs' = [subs EXCEPT ![e] = @ \ {w}] /\ subs \in [Envs -> SUBSET Sockets]
      /\ subs' \in [Envs -> SUBSET Sockets]
      /\ subscription' \in [Sockets -> {"new", "subscribed", "left"}]
      /\ poller \in [Envs -> Tasks \cup {None}]
      /\ doomed \in [Tasks -> BOOLEAN]
      /\ UNCHANGED <<task, polls, todo, fed>>
  BY <1>1 DEF Unsubscribe, StatsInv, StatsTypeOK
<1>3. subs'[e] = subs[e] \ {w} /\ \A d \in Envs \ {e} : subs'[d] = subs[d]
  BY <1>1, <1>2
<1>4. CASE subs[e] = {w}
  <2>1. /\ poller' = [poller EXCEPT ![e] = None]
        /\ doomed' = [t \in Tasks |-> doomed[t] \/ t = poller[e]]
    BY <1>4 DEF Unsubscribe
  <2>2. poller'[e] = None /\ \A d \in Envs \ {e} : poller'[d] = poller[d]
    BY <1>1, <1>2, <2>1
  <2>3. /\ poller[e] # None /\ poller[e] \in Tasks /\ task[poller[e]] \in Running
        /\ polls[poller[e]] = e
    BY <1>1, <1>2, <1>4 DEF StatsInv, PolledIffSubscribed
  <2>4. /\ poller' \in [Envs -> Tasks \cup {None}]
        /\ doomed' \in [Tasks -> BOOLEAN]
        /\ \A t \in Tasks : t # poller[e] => (doomed'[t] <=> doomed[t])
        /\ doomed'[poller[e]]
    <3>1. poller' \in [Envs -> Tasks \cup {None}]
      BY <1>1, <1>2, <2>1
    <3>2. /\ doomed' \in [Tasks -> BOOLEAN]
          /\ \A t \in Tasks : t # poller[e] => (doomed'[t] <=> doomed[t])
          /\ doomed'[poller[e]]
      BY <1>2, <2>1, <2>3
    <3> QED BY <3>1, <3>2
  <2>5. StatsTypeOK'
    BY <1>2, <2>4 DEF StatsInv, StatsTypeOK
  <2>6. PolledIffSubscribed'
    <3>1. ASSUME NEW d \in Envs
          PROVE  /\ poller'[d] = None <=> subs'[d] = {}
                 /\ poller'[d] # None => /\ task'[poller'[d]] \in Running
                                         /\ polls'[poller'[d]] = d
                                         /\ ~doomed'[poller'[d]]
      <4>1. CASE d = e
        BY <1>3, <1>4, <2>2, <4>1
      <4>2. CASE d # e
        <5>1. poller'[d] = poller[d] /\ subs'[d] = subs[d]
          BY <1>3, <2>2, <4>2
        <5>2. CASE poller[d] = None
          BY <5>1, <5>2 DEF StatsInv, PolledIffSubscribed
        <5>3. CASE poller[d] # None
          <6>1. /\ poller[d] \in Tasks /\ subs[d] # {}
                /\ task[poller[d]] \in Running
                /\ polls[poller[d]] = d /\ ~doomed[poller[d]]
            BY <1>2, <5>3 DEF StatsInv, PolledIffSubscribed
          <6>2. poller[d] # poller[e]
            BY <2>3, <4>2, <6>1
          <6>3. ~doomed'[poller[d]]
            BY <2>4, <6>1, <6>2
          <6>4. /\ task'[poller[d]] = task[poller[d]]
                /\ polls'[poller[d]] = polls[poller[d]]
            BY <1>2
          <6>5. task'[poller'[d]] \in Running /\ polls'[poller'[d]] = d
            BY <5>1, <6>1, <6>4
          <6>6. ~doomed'[poller'[d]]
            BY <5>1, <6>3
          <6>7. poller'[d] # None /\ subs'[d] # {}
            BY <5>1, <5>3, <6>1
          <6> QED BY <6>5, <6>6, <6>7
        <5> QED BY <5>2, <5>3
      <4> QED BY <4>1, <4>2
    <3> QED BY <3>1 DEF PolledIffSubscribed
  <2>7. OnePoller'
    <3>1. ASSUME NEW u \in Tasks, task'[u] \in Running, ~doomed'[u]
          PROVE  poller'[polls'[u]] = u
      <4>1. u # poller[e] /\ ~doomed[u] /\ task[u] \in Running
        BY <1>2, <2>4, <3>1
      <4>2. poller[polls[u]] = u /\ polls[u] \in Envs
        BY <4>1 DEF StatsInv, OnePoller, StatsTypeOK, Running
      <4> QED BY <1>2, <2>2, <4>1, <4>2
    <3> QED BY <3>1 DEF OnePoller
  <2>8. FreshIsNotDoomed'
    <3>1. task[poller[e]] # "unused"
      BY <2>3 DEF Running
    <3> QED BY <1>2, <2>4, <3>1 DEF StatsInv, FreshIsNotDoomed
  <2> QED BY <2>5, <2>6, <2>7, <2>8 DEF StatsInv
<1>5. CASE subs[e] # {w}
  <2>1. UNCHANGED <<poller, doomed>>
    BY <1>5 DEF Unsubscribe
  <2>2. subs'[e] = {} <=> subs[e] = {}
    BY <1>3, <1>5
  <2>3. \A d \in Envs : subs'[d] = {} <=> subs[d] = {}
    BY <1>3, <2>2
  <2>4. StatsTypeOK'
    BY <1>2, <2>1 DEF StatsInv, StatsTypeOK
  <2>5. PolledIffSubscribed'
    BY <1>2, <2>1, <2>3 DEF StatsInv, PolledIffSubscribed
  <2>6. OnePoller' /\ FreshIsNotDoomed'
    BY <1>2, <2>1 DEF StatsInv, OnePoller, FreshIsNotDoomed
  <2> QED BY <2>4, <2>5, <2>6 DEF StatsInv
<1> QED BY <1>4, <1>5

\* A step of a poll task: it goes on in the loop, unless it was cancelled.
LEMMA PollKeeps == ASSUME StatsInv, NEW t \in Tasks, PollStep(t) PROVE StatsInv'
<1>1. /\ UNCHANGED <<subscription, subs, poller, polls, doomed>>
      /\ fed' \subseteq Sockets
  BY DEF PollStep, Collect, Send, Sleep, Wake,
         Cancelled, StatsInv, StatsTypeOK
<1>2. task[t] \in Running
  BY DEF PollStep, Collect, Send, Sleep, Wake,
         Cancelled, Running
<1>3. /\ task' \in [Tasks -> {"unused", "ended"} \cup Running]
      /\ todo' \in [Tasks -> SUBSET Sockets]
      /\ \A u \in Tasks \ {t} : task'[u] = task[u] /\ todo'[u] = todo[u]
      /\ todo'[t] # {} => task'[t] = "sending"
  <2> USE DEF StatsInv, StatsTypeOK, Running
  <2>1. CASE Collect(t)
    <3>1. subs[polls[t]] \in SUBSET Sockets
      BY <1>2
    <3> QED BY <2>1, <3>1 DEF Collect
  <2>2. CASE \E w \in Sockets : Send(t, w)
    BY <2>2 DEF Send
  <2>3. CASE Sleep(t)
    BY <2>3 DEF Sleep
  <2>4. CASE Wake(t)
    BY <2>4 DEF Wake
  <2>5. CASE Cancelled(t)
    BY <2>5 DEF Cancelled
  <2> QED BY <2>1, <2>2, <2>3, <2>4, <2>5 DEF PollStep
<1>4. /\ task'[t] \in Running \/ (task'[t] = "ended" /\ doomed[t])
      /\ task'[t] # "unused"
  <2> USE DEF StatsInv, StatsTypeOK, Running
  <2>1. CASE Collect(t) \/ Sleep(t) \/ Wake(t)
    BY <2>1 DEF Collect, Sleep, Wake
  <2>2. CASE \E w \in Sockets : Send(t, w)
    BY <2>2 DEF Send
  <2>3. CASE Cancelled(t)
    BY <2>3 DEF Cancelled
  <2> QED BY <2>1, <2>2, <2>3 DEF PollStep
<1>5. StatsTypeOK'
  <2>1. \A u \in Tasks : task'[u] # "unused" => polls[u] \in Envs
    BY <1>2, <1>3 DEF StatsInv, StatsTypeOK, Running
  <2>2. \A u \in Tasks : todo'[u] # {} => task'[u] = "sending"
    BY <1>3 DEF StatsInv, StatsTypeOK
  <2> QED BY <1>1, <1>3, <2>1, <2>2 DEF StatsInv, StatsTypeOK
<1>6. PolledIffSubscribed'
  <2>1. ASSUME NEW e \in Envs, poller[e] # None PROVE task'[poller[e]] \in Running
    <3>1. poller[e] \in Tasks /\ task[poller[e]] \in Running /\ ~doomed[poller[e]]
      BY <2>1 DEF StatsInv, StatsTypeOK, PolledIffSubscribed
    <3> QED BY <1>3, <1>4, <3>1
  <2> QED BY <1>1, <2>1 DEF StatsInv, PolledIffSubscribed
<1>7. OnePoller'
  <2>1. \A u \in Tasks : task'[u] \in Running => task[u] \in Running
    BY <1>2, <1>3
  <2> QED BY <1>1, <2>1 DEF StatsInv, OnePoller
<1>8. FreshIsNotDoomed'
  BY <1>1, <1>3, <1>4 DEF StatsInv, FreshIsNotDoomed
<1> QED BY <1>5, <1>6, <1>7, <1>8 DEF StatsInv

LEMMA StatsStep ==
    ASSUME StatsInv, [StatsNext]_statsVars
    PROVE  StatsInv'
<1>1. CASE UNCHANGED statsVars
  BY <1>1 DEF statsVars, StatsInv, StatsTypeOK, PolledIffSubscribed,
              OnePoller, FreshIsNotDoomed
<1> QED BY <1>1, SubscribeKeeps, UnsubscribeKeeps, PollKeeps DEF StatsNext

THEOREM StatsInvariance == StatsSpec => []StatsInv
<1>1. StatsInv /\ [StatsNext]_statsVars => StatsInv'
  BY StatsStep
<1> QED BY <1>1, StatsInitInv, PTL DEF StatsSpec

-----------------------------------------------------------------------------

\* Every variable keeps its type, and a task has a snapshot to send only while it sends.
THEOREM StatsTypeCorrect == StatsSpec => []StatsTypeOK
<1>1. StatsInv => StatsTypeOK
  BY DEF StatsInv
<1> QED BY <1>1, StatsInvariance, PTL

\* An environment has a live poll task exactly while somebody is subscribed to it.
THEOREM PollingFollowsSubscribers == StatsSpec => []PolledIffSubscribed
<1>1. StatsInv => PolledIffSubscribed
  BY DEF StatsInv
<1> QED BY <1>1, StatsInvariance, PTL

\* Leaving and coming back never makes two tasks task one environment.
THEOREM NoSecondPoller == StatsSpec => []OnePoller
<1>1. StatsInv => OnePoller
  BY DEF StatsInv
<1> QED BY <1>1, StatsInvariance, PTL
=============================================================================
