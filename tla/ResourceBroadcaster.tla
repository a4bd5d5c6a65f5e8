------------------------- MODULE ResourceBroadcaster -------------------------
(***************************************************************************)
(* The resource broadcaster (src/src/websocket.py): one poll task per      *)
(* environment collects statistics and sends them to every WebSocket       *)
(* subscribed at that moment.  The first subscriber starts the task, the   *)
(* last to leave cancels it; a cancelled task ends when it is resumed, so  *)
(* it may still exist when the next subscriber starts another.             *)
(***************************************************************************)
EXTENDS EnvironmentSockets, Naturals, FiniteSets

CONSTANT
    Tasks       \* poll tasks; each is created once

ASSUME TasksAssumption == None \notin Envs \cup Tasks

VARIABLES
    subscription,   \* whether a socket has subscribed, and left
    subs,       \* _resource_subscribers
    poller,     \* _resource_tasks
    task,       \* where each task is in _resource_poll_loop
    polls,      \* its environment
    doomed,     \* task.cancel() was called
    todo,       \* the sockets of its snapshot it has still to send to
    fed         \* the sockets that were sent statistics

statsVars == <<subscription, subs, poller, task, polls, doomed, todo, fed>>

Running == {"collecting", "sending", "sleeping"}

StatsInit ==
    /\ subscription = [w \in Sockets |-> "new"]
    /\ subs = [e \in Envs |-> {}]
    /\ poller = [e \in Envs |-> None]
    /\ task = [t \in Tasks |-> "unused"]
    /\ polls = [t \in Tasks |-> None]
    /\ doomed = [t \in Tasks |-> FALSE]
    /\ todo = [t \in Tasks |-> {}]
    /\ fed = {}

\* _subscribe_resource_stats: a task is created when none is registered.
Subscribe(w) ==
    LET e == EnvOf[w]
    IN  /\ subscription[w] = "new"
        /\ subscription' = [subscription EXCEPT ![w] = "subscribed"]
        /\ subs' = [subs EXCEPT ![e] = @ \cup {w}]
        /\ \/ /\ poller[e] # None
              /\ UNCHANGED <<poller, task, polls>>
           \/ /\ poller[e] = None
              /\ \E t \in Tasks :
                    /\ task[t] = "unused"
                    /\ task' = [task EXCEPT ![t] = "collecting"]
                    /\ polls' = [polls EXCEPT ![t] = e]
                    /\ poller' = [poller EXCEPT ![e] = t]
        /\ UNCHANGED <<doomed, todo, fed>>

\* Faulty variant: the registered task is cancelled and stays registered.
UnsubscribeKeepingTask(w) ==
    LET e == EnvOf[w]
    IN  /\ subscription[w] = "subscribed"
        /\ subscription' = [subscription EXCEPT ![w] = "left"]
        /\ subs' = [subs EXCEPT ![e] = @ \ {w}]
        /\ doomed' = IF subs[e] = {w} THEN [doomed EXCEPT ![poller[e]] = TRUE]
                     ELSE doomed
        /\ UNCHANGED <<poller, task, polls, todo, fed>>

\* Faulty variant: the task is forgotten and not cancelled.
UnsubscribeUncancelled(w) ==
    LET e == EnvOf[w]
    IN  /\ subscription[w] = "subscribed"
        /\ subscription' = [subscription EXCEPT ![w] = "left"]
        /\ subs' = [subs EXCEPT ![e] = @ \ {w}]
        /\ poller' = IF subs[e] = {w} THEN [poller EXCEPT ![e] = None] ELSE poller
        /\ UNCHANGED <<task, polls, doomed, todo, fed>>

\* _unsubscribe_resource_stats: the last to leave forgets and cancels the task.
Unsubscribe(w) ==
    LET e == EnvOf[w]
    IN  /\ subscription[w] = "subscribed"
        /\ subscription' = [subscription EXCEPT ![w] = "left"]
        /\ subs' = [subs EXCEPT ![e] = @ \ {w}]
        /\ IF subs[e] = {w}
           THEN /\ poller' = [poller EXCEPT ![e] = None]
                /\ doomed' = [t \in Tasks |-> doomed[t] \/ t = poller[e]]
           ELSE UNCHANGED <<poller, doomed>>
        /\ UNCHANGED <<task, polls, todo, fed>>

-----------------------------------------------------------------------------
(***************************************************************************)
(* _resource_poll_loop.  Every step resumes the task from an await; a      *)
(* cancelled task is resumed with CancelledError, which none of the        *)
(* handlers in the loop catches.                                           *)
(***************************************************************************)

\* Faulty variant: the snapshot is never taken again once it was empty.
CollectNothing(t) ==
    /\ task[t] = "collecting"
    /\ ~doomed[t]
    /\ task' = [task EXCEPT ![t] = "sending"]
    /\ todo' = [todo EXCEPT ![t] = {}]
    /\ UNCHANGED <<subscription, subs, poller, polls, doomed, fed>>

\* The statistics are there (or collecting them failed): the subscribers of this
\* moment are copied.
Collect(t) ==
    /\ task[t] = "collecting"
    /\ ~doomed[t]
    /\ task' = [task EXCEPT ![t] = "sending"]
    /\ todo' = [todo EXCEPT ![t] = subs[polls[t]]]
    /\ UNCHANGED <<subscription, subs, poller, polls, doomed, fed>>

\* One send; a socket that has left swallows it.
Send(t, w) ==
    /\ task[t] = "sending"
    /\ ~doomed[t]
    /\ w \in todo[t]
    /\ todo' = [todo EXCEPT ![t] = @ \ {w}]
    /\ fed' = fed \cup {w}
    /\ UNCHANGED <<subscription, subs, poller, task, polls, doomed>>

Sleep(t) ==
    /\ task[t] = "sending"
    /\ ~doomed[t]
    /\ todo[t] = {}
    /\ task' = [task EXCEPT ![t] = "sleeping"]
    /\ UNCHANGED <<subscription, subs, poller, polls, doomed, todo, fed>>

Wake(t) ==
    /\ task[t] = "sleeping"
    /\ ~doomed[t]
    /\ task' = [task EXCEPT ![t] = "collecting"]
    /\ UNCHANGED <<subscription, subs, poller, polls, doomed, todo, fed>>

Cancelled(t) ==
    /\ doomed[t]
    /\ task[t] \in Running
    /\ task' = [task EXCEPT ![t] = "ended"]
    /\ todo' = [todo EXCEPT ![t] = {}]
    /\ UNCHANGED <<subscription, subs, poller, polls, doomed, fed>>

PollStep(t) ==
    \/ Collect(t)
    \/ \E w \in Sockets : Send(t, w)
    \/ Sleep(t)
    \/ Wake(t)
    \/ Cancelled(t)

StatsNext ==
    \/ \E w \in Sockets : Subscribe(w) \/ Unsubscribe(w)
    \/ \E t \in Tasks : PollStep(t)

StatsSpec == StatsInit /\ [][StatsNext]_statsVars

\* The event loop resumes every poll task again and again: each collection, send
\* and sleep ends (send_json gives up on a socket that fails).
FairStatsSpec == StatsSpec /\ \A t \in Tasks : WF_statsVars(PollStep(t))

-----------------------------------------------------------------------------

StatsTypeOK ==
    /\ subscription \in [Sockets -> {"new", "subscribed", "left"}]
    /\ subs \in [Envs -> SUBSET Sockets]
    /\ poller \in [Envs -> Tasks \cup {None}]
    /\ task \in [Tasks -> {"unused", "ended"} \cup Running]
    /\ polls \in [Tasks -> Envs \cup {None}]
    /\ doomed \in [Tasks -> BOOLEAN]
    /\ todo \in [Tasks -> SUBSET Sockets]
    /\ fed \subseteq Sockets
    /\ \A t \in Tasks : task[t] # "unused" => polls[t] \in Envs
    /\ \A t \in Tasks : todo[t] # {} => task[t] = "sending"

\* A task is registered for exactly the environments that have subscribers, and it
\* runs and was not cancelled: no environment is left without statistics, and none
\* polls for nobody.
PolledIffSubscribed ==
    \A e \in Envs :
        /\ poller[e] = None <=> subs[e] = {}
        /\ poller[e] # None => /\ task[poller[e]] \in Running
                               /\ polls[poller[e]] = e
                               /\ ~doomed[poller[e]]

\* However fast the last subscriber leaves and the next one comes, at most one task
\* of an environment goes on polling: every other one was cancelled.
OnePoller ==
    \A t \in Tasks : task[t] \in Running /\ ~doomed[t] => poller[polls[t]] = t

\* A socket that stays gets statistics, also when it subscribes while the task is
\* sending to others or is being replaced.
SubscriberIsFed ==
    \A w \in Sockets : subscription[w] = "subscribed" ~> w \in fed \/ subscription[w] = "left"
=============================================================================
