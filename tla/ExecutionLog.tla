----------------------------- MODULE ExecutionLog -----------------------------
(***************************************************************************)
(* What the execution manager promises: per notebook one run at a time has *)
(* its say; what it says is a log that opens with "running", is closed by  *)
(* one terminal state and never changes after that; and a viewer of a run  *)
(* sees its log from the first message on, in order, without a gap.  How   *)
(* far a viewer gets before it leaves is not promised.  Some runs, and only *)
(* those, may still be joined when they are over.                          *)
(***************************************************************************)
EXTENDS Naturals, Sequences

CONSTANTS
    Notebooks, Execs, Viewers, Kinds, FinalStates, None,
    Lingering  \* runs that may be joined after their end

VARIABLES
    turn,   \* the run that has the notebook
    log,    \* what each run has said
    on,     \* the run a viewer follows
    view    \* what a viewer has seen

logVars == <<turn, log, on, view>>

Said(x, k) == [exec |-> x, kind |-> k]
Closed(x) == log[x] # <<>> /\ log[x][Len(log[x])].kind \in FinalStates

LogInit ==
    /\ turn = [n \in Notebooks |-> None]
    /\ log = [x \in Execs |-> <<>>]
    /\ on = [f \in Viewers |-> None]
    /\ view = [f \in Viewers |-> <<>>]

Begin(n, x) ==
    /\ turn[n] = None
    /\ log[x] = <<>>
    /\ turn' = [turn EXCEPT ![n] = x]
    /\ log' = [log EXCEPT ![x] = <<Said(x, "running")>>]
    /\ UNCHANGED <<on, view>>

Say(n, k) ==
    /\ turn[n] # None
    /\ ~Closed(turn[n])
    /\ log' = [log EXCEPT ![turn[n]] = Append(@, Said(turn[n], k))]
    /\ UNCHANGED <<turn, on, view>>

\* The last words of a run: a terminal state, perhaps after an error.
Close(n) ==
    /\ turn[n] # None
    /\ ~Closed(turn[n])
    /\ \E s \in FinalStates : \E before \in {<<>>, <<Said(turn[n], "error")>>} :
          log' = [log EXCEPT ![turn[n]] = @ \o Append(before, Said(turn[n], s))]

\* The run is closed but keeps the notebook until what drives it has ended.
Cut(n) == Close(n) /\ UNCHANGED <<turn, on, view>>

Finish(n) ==
    /\ turn[n] # None
    /\ \/ Close(n)
       \/ Closed(turn[n]) /\ UNCHANGED log
    /\ turn' = [turn EXCEPT ![n] = None]
    /\ UNCHANGED <<on, view>>

\* A viewer joins the open run that has a notebook, or one that lingers.
Join(f, x) ==
    /\ on[f] = None
    /\ view[f] = <<>>
    /\ IF Closed(x) THEN x \in Lingering ELSE \E n \in Notebooks : turn[n] = x
    /\ on' = [on EXCEPT ![f] = x]
    /\ UNCHANGED <<turn, log, view>>

See(f) ==
    /\ on[f] # None
    /\ Len(view[f]) < Len(log[on[f]])
    /\ view' = [view EXCEPT ![f] = Append(@, log[on[f]][Len(@) + 1])]
    /\ UNCHANGED <<turn, log, on>>

\* A viewer leaves and keeps what it has shown.
Leave(f) ==
    /\ on' = [on EXCEPT ![f] = None]
    /\ UNCHANGED <<turn, log, view>>

\* The page that viewers fed is gone.
Drop(F) ==
    /\ on' = [f \in Viewers |-> IF f \in F THEN None ELSE on[f]]
    /\ view' = [f \in Viewers |-> IF f \in F THEN <<>> ELSE view[f]]
    /\ UNCHANGED <<turn, log>>

LogNext ==
    \/ \E n \in Notebooks, x \in Execs : Begin(n, x)
    \/ \E n \in Notebooks, k \in Kinds \ FinalStates : Say(n, k)
    \/ \E n \in Notebooks : Cut(n) \/ Finish(n)
    \/ \E f \in Viewers, x \in Execs : Join(f, x)
    \/ \E f \in Viewers : See(f) \/ Leave(f)
    \/ \E F \in SUBSET Viewers : Drop(F)

LogSpec == LogInit /\ [][LogNext]_logVars
=============================================================================
