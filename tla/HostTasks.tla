------------------------------ MODULE HostTasks ------------------------------
(***************************************************************************)
(* What the runtime promises a script about the two kinds of host task it  *)
(* can ask for: a timer (setTimeout of global.c) and a network request     *)
(* (fetch of net.c).  A task is registered by the script and then          *)
(* delivered -- the timer's function called, the request's promise         *)
(* settled -- at most once; nothing is delivered while the main module is  *)
(* still being evaluated; timers are delivered in the order of the         *)
(* setTimeout calls and requests newest first; and the process ends in     *)
(* good order only when nothing is left to deliver.                        *)
(*                                                                         *)
(* Tasks of a kind are numbered in the order the script asks for them.     *)
(***************************************************************************)
EXTENDS Naturals

CONSTANTS
    Timers,     \* the numbers of the timers a script may ask for
    Fetches     \* the numbers of the network requests it may make

VARIABLES
    stage,      \* "script": main module evaluated, "serving": its tasks
                \* delivered, "closed": orderly end, "aborted": error
    timerTask,  \* each timer: "new", "registered" or "delivered"
    fetchTask   \* each request: the same

taskVars == <<stage, timerTask, fetchTask>>

TaskState == {"new", "registered", "delivered"}

TasksTypeOK ==
    /\ stage \in {"script", "serving", "closed", "aborted"}
    /\ timerTask \in [Timers -> TaskState]
    /\ fetchTask \in [Fetches -> TaskState]

TasksInit ==
    /\ stage = "script"
    /\ timerTask = [t \in Timers |-> "new"]
    /\ fetchTask = [f \in Fetches |-> "new"]

Open == stage \in {"script", "serving"}

RegisterTimer(t) ==
    /\ Open
    /\ timerTask[t] = "new"
    /\ timerTask' = [timerTask EXCEPT ![t] = "registered"]
    /\ UNCHANGED <<stage, fetchTask>>

RegisterFetch(f) ==
    /\ Open
    /\ fetchTask[f] = "new"
    /\ fetchTask' = [fetchTask EXCEPT ![f] = "registered"]
    /\ UNCHANGED <<stage, timerTask>>

Serve == stage = "script" /\ stage' = "serving" /\ UNCHANGED <<timerTask, fetchTask>>

\* The oldest registered timer is the next one to be called.
DeliverTimer(t) ==
    /\ stage = "serving"
    /\ timerTask[t] = "registered"
    /\ \A u \in Timers : u < t => timerTask[u] # "registered"
    /\ timerTask' = [timerTask EXCEPT ![t] = "delivered"]
    /\ UNCHANGED <<stage, fetchTask>>

\* The newest registered request is the next one to be settled.
DeliverFetch(f) ==
    /\ stage = "serving"
    /\ fetchTask[f] = "registered"
    /\ \A g \in Fetches : g > f => fetchTask[g] # "registered"
    /\ fetchTask' = [fetchTask EXCEPT ![f] = "delivered"]
    /\ UNCHANGED <<stage, timerTask>>

Close ==
    /\ stage = "serving"
    /\ \A t \in Timers : timerTask[t] # "registered"
    /\ \A f \in Fetches : fetchTask[f] # "registered"
    /\ stage' = "closed"
    /\ UNCHANGED <<timerTask, fetchTask>>

Abort == Open /\ stage' = "aborted" /\ UNCHANGED <<timerTask, fetchTask>>

TasksNext ==
    \/ \E t \in Timers : RegisterTimer(t) \/ DeliverTimer(t)
    \/ \E f \in Fetches : RegisterFetch(f) \/ DeliverFetch(f)
    \/ Serve \/ Close \/ Abort

TasksSpec == TasksInit /\ [][TasksNext]_taskVars

=============================================================================
