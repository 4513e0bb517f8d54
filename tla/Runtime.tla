------------------------------- MODULE Runtime -------------------------------
(***************************************************************************)
(* The toyjsruntime process: main.c evaluates the main module, driving     *)
(* QuickJS's promise jobs with js_std_await, and then hands control to     *)
(* libuv's uv_run.  From there on, JavaScript runs only in callbacks:      *)
(*   - timers  (global.c)  call the function given to setTimeout;          *)
(*   - idle    (net.c)     handles perform a fetch with a blocking curl    *)
(*                         call and settle its promise;                    *)
(*   - check   (main.c)    runs the promise jobs that are pending.         *)
(* An idle handle of main.c's own keeps the loop turning until the check   *)
(* callback first finds no job left.                                       *)
(*                                                                         *)
(* One step is one callback's work up to the next point where the script   *)
(* has control; while `js` is not JSIdle, script code is on the stack and  *)
(* may call the runtime.  The process is single-threaded: what interleaves *)
(* is the order of callbacks, jobs and expiries, and what the script does  *)
(* in each.                                                                *)
(*                                                                         *)
(* The build is one without DEBUG, in which LOG_DEBUG is nothing.  With it *)
(* the timers' callback also makes a C string of what the function has     *)
(* returned (global.c:29), which runs the toString of an object and is     *)
(* never freed.                                                            *)
(***************************************************************************)
EXTENDS Integers, Sequences, SequencesExt

CONSTANTS
    MaxTimers,      \* bound: setTimeout calls in a run
    MaxFetches,     \* bound: fetch and old_fetch calls in a run
    MaxJobs,        \* bound: jobs and top-level awaits the script makes itself
    Delay,          \* the delay js_os_setTimeout passes to uv_timer_start
    MaxLag,         \* bound: time that passes between two readings of the clock
    JobsMayThrow    \* whether a queued microtask may throw

ASSUME RuntimeAssumption ==
    /\ MaxTimers \in Nat /\ MaxFetches \in Nat /\ MaxJobs \in Nat
    /\ Delay \in Nat \ {0} /\ MaxLag \in Nat
    /\ JobsMayThrow \in BOOLEAN

Timers  == 1..MaxTimers       \* numbered in the order of the calls
Fetches == 1..MaxFetches

VARIABLES
    phase,      \* where main is: evaluating, or in which phase of uv_run
    exit,       \* how the process ended
    js,         \* the job or callback whose script code is on the stack
    mod,        \* the promise of the main module
    jobs,       \* QuickJS's queue of pending jobs
    made,       \* how many jobs and awaits the script has made (bound MaxJobs)
    timer,      \* uv_timer_t of each setTimeout call
    rem,        \* its due time less the loop's cached clock
    tmem,       \* what is allocated for it
    fetch,      \* state of each fetch call
    react,      \* the reaction the script attached to the fetch's promise
    fmem,       \* what is allocated for it
    mainIdle,   \* main.c's idle_handle is started
    idleQ,      \* the loop's queue of fetch idle handles
    batch       \* those this iteration's idle phase has still to run

loopVars  == <<mainIdle, idleQ, batch>>
timerVars == <<timer, rem, tmem>>
fetchVars == <<fetch, react, fmem>>
jobVars   == <<jobs, made>>
vars == <<phase, exit, js, mod, jobVars, timerVars, fetchVars, loopVars>>

-----------------------------------------------------------------------------
(* Data *)

Phases == {"eval", "await", "timers", "idle", "check", "exited"}
Exits  == {"none", "ok", "crash", "script_error", "timer_error", "callback_error"}
Makers == {"loop", "script", "timer", "micro", "react", "resume"}
Frames == [kind : {"none", "script", "timer", "micro", "react", "resume"},
           of : Nat, by : Makers]
Jobs   == [kind : {"micro", "react", "resume", "fulfil", "reject"},
           of : Nat, by : Makers]
ModStates == {"running", "awaiting", "resuming", "settling", "fulfilled", "rejected"}
TimerMem  == {"context", "func", "handle"}
FetchMem  == {"context", "url", "values", "funcs", "handle"}

Frame(k, i, b) == [kind |-> k, of |-> i, by |-> b]
JSIdle == Frame("none", 0, "loop")
\* A job remembers which kind of code made it: that of the frame on the stack,
\* or "loop" for one made in an idle callback.
Job(k, i) == Frame(k, i, IF js = JSIdle THEN "loop" ELSE js.kind)

Running   == js # JSIdle
InModule  == js.kind \in {"script", "resume"}
Settled   == mod \in {"fulfilled", "rejected"}
Active(t) == timer[t] = "active"

\* The loop reads the clock: d units have passed since it last did.
UpdateTime(d) == rem' = [t \in Timers |-> IF Active(t) THEN rem[t] - d ELSE rem[t]]

Init ==
    /\ phase = "eval"
    /\ exit = "none"
    /\ js = Frame("script", 0, "loop")
    /\ mod = "running"
    /\ jobs = <<>>
    /\ made = 0
    /\ timer = [t \in Timers |-> "unused"]
    /\ rem = [t \in Timers |-> 0]
    /\ tmem = [t \in Timers |-> {}]
    /\ fetch = [f \in Fetches |-> "unused"]
    /\ react = [f \in Fetches |-> "none"]
    /\ fmem = [f \in Fetches |-> {}]
    /\ mainIdle = TRUE
    /\ idleQ = <<>>
    /\ batch = <<>>

-----------------------------------------------------------------------------
(* What script code can do while it runs *)

\* Mutant: the delay argument is honoured, so a later timer can be due sooner.
DueAsAsked(t) == IF t = 1 THEN Delay ELSE 1

\* uv_timer_start is given the same delay whatever the script asked for.
Due(t) == Delay

\* setTimeout(fn): the timer is due Delay after the loop's *cached* time.
SetTimeout(t) ==
    /\ Running
    /\ timer[t] = "unused"
    /\ \A u \in Timers : u < t => timer[u] # "unused"
    /\ timer' = [timer EXCEPT ![t] = "active"]
    /\ rem' = [rem EXCEPT ![t] = Due(t)]
    /\ tmem' = [tmem EXCEPT ![t] = TimerMem]
    /\ UNCHANGED <<phase, exit, js, mod, jobVars, fetchVars, loopVars>>

\* The next fetch call to be made is that of number f.
NextFetch(f) ==
    /\ Running
    /\ fetch[f] = "unused"
    /\ \A g \in Fetches : g < f => fetch[g] # "unused"

\* uv_idle_start puts the new handle at the head of the loop's queue.
IdleStart(f) == idleQ' = <<f>> \o idleQ

\* fetch(url)
Fetch(f) ==
    /\ NextFetch(f)
    /\ fetch' = [fetch EXCEPT ![f] = "pending"]
    /\ fmem' = [fmem EXCEPT ![f] = FetchMem]
    /\ IdleStart(f)
    /\ UNCHANGED <<phase, exit, js, mod, jobVars, timerVars, react, mainIdle, batch>>

\* fetch(notAString): the promise capability was already created and stays.
FetchBadArg(f) ==
    /\ NextFetch(f)
    /\ fetch' = [fetch EXCEPT ![f] = "bad"]
    /\ fmem' = [fmem EXCEPT ![f] = {"funcs", "values"}]
    /\ UNCHANGED <<phase, exit, js, mod, jobVars, timerVars, react, loopVars>>

\* old_fetch(url): the transfer is made at once, inside the call.
OldFetch(f) ==
    /\ NextFetch(f)
    /\ fetch' = [fetch EXCEPT ![f] = "sync"]
    /\ UNCHANGED <<phase, exit, js, mod, jobVars, timerVars, react, fmem, loopVars>>

\* promise.then(fn) on the promise of fetch f.
Then(f) ==
    /\ Running
    /\ react[f] = "none"
    /\ \/ /\ fetch[f] = "pending"
          /\ react' = [react EXCEPT ![f] = "waiting"]
          /\ jobs' = jobs
       \/ /\ fetch[f] \in {"settled", "sync"}
          /\ react' = [react EXCEPT ![f] = "queued"]
          /\ jobs' = Append(jobs, Job("react", f))
    /\ UNCHANGED <<phase, exit, js, mod, made, timerVars, fetch, fmem, loopVars>>

\* The script makes a job itself: queueMicrotask, or a promise already settled.
QueueMicrotask ==
    /\ Running
    /\ made < MaxJobs
    /\ jobs' = Append(jobs, Job("micro", 0))
    /\ made' = made + 1
    /\ UNCHANGED <<phase, exit, js, mod, timerVars, fetchVars, loopVars>>

\* The script settles the promise its main module awaits.
WakeModule ==
    /\ Running
    /\ mod = "awaiting"
    /\ mod' = "resuming"
    /\ jobs' = Append(jobs, Job("resume", 0))
    /\ UNCHANGED <<phase, exit, js, made, timerVars, fetchVars, loopVars>>

ScriptCalls ==
    \/ \E t \in Timers : SetTimeout(t)
    \/ \E f \in Fetches : Fetch(f) \/ FetchBadArg(f) \/ OldFetch(f) \/ Then(f)
    \/ QueueMicrotask
    \/ WakeModule

-----------------------------------------------------------------------------
(* Evaluating the main module: eval_buf and js_std_await *)

\* A top-level await.  Of a promise already settled it queues the module's
\* resumption; of any other it leaves that to whoever settles the promise.
ModuleAwait ==
    /\ InModule
    /\ made < MaxJobs
    /\ made' = made + 1
    /\ \/ mod' = "resuming" /\ jobs' = Append(jobs, Job("resume", 0))
       \/ mod' = "awaiting" /\ jobs' = jobs
    /\ js' = JSIdle
    /\ phase' = "await"
    /\ UNCHANGED <<exit, timerVars, fetchVars, loopVars>>

\* The module's body returns or throws.  Without an await its promise is
\* settled by then; after one, a job of its own settles it.
ModuleEnd ==
    /\ InModule
    /\ \/ js.kind = "script" /\ mod' \in {"fulfilled", "rejected"} /\ jobs' = jobs
       \/ /\ js.kind = "resume"
          /\ mod' = "settling"
          /\ \E k \in {"fulfil", "reject"} : jobs' = Append(jobs, Job(k, 0))
    /\ js' = JSIdle
    /\ phase' = "await"
    /\ UNCHANGED <<exit, made, timerVars, fetchVars, loopVars>>

\* JS_ExecutePendingJob takes the oldest job; it is over at once or enters
\* the script.
ExecutePendingJob ==
    /\ jobs # <<>>
    /\ jobs' = Tail(jobs)
    /\ LET j == Head(jobs) IN
         /\ js' = IF j.kind \in {"fulfil", "reject"} THEN JSIdle ELSE j
         /\ mod' = CASE j.kind = "resume" -> "running"
                     [] j.kind = "fulfil" -> "fulfilled"
                     [] j.kind = "reject" -> "rejected"
                     [] OTHER -> mod
         /\ react' = [f \in Fetches |->
                        IF j.kind = "react" /\ j.of = f THEN "run" ELSE react[f]]

\* js_std_await: run jobs until the module's promise is settled.
AwaitJob ==
    /\ phase = "await"
    /\ ~Running
    /\ ~Settled
    /\ ExecutePendingJob
    /\ UNCHANGED <<phase, exit, made, timerVars, fetch, fmem, loopVars>>

\* The module awaits what only the event loop could settle, and the event
\* loop is not run until it is done: js_std_await polls for ever.
Hung == phase = "await" /\ ~Running /\ ~Settled /\ jobs = <<>>

AwaitSpin == Hung /\ UNCHANGED vars

\* eval_file failed: main returns 1 and never enters uv_run.
ScriptError ==
    /\ phase = "await"
    /\ ~Running
    /\ mod = "rejected"
    /\ phase' = "exited"
    /\ exit' = "script_error"
    /\ UNCHANGED <<js, mod, jobVars, timerVars, fetchVars, loopVars>>

\* uv_run(UV_RUN_DEFAULT) starts: it reads the clock and runs expired timers.
StartLoop ==
    /\ phase = "await"
    /\ ~Running
    /\ mod = "fulfilled"
    /\ phase' = "timers"
    /\ \E d \in 0..MaxLag : UpdateTime(d)
    /\ UNCHANGED <<exit, js, mod, jobVars, timer, tmem, fetchVars, loopVars>>

-----------------------------------------------------------------------------
(* Timers: uv__run_timers and js_os_setTimeout_cb *)

Expired(t) == Active(t) /\ rem[t] <= 0

\* The root of libuv's timer heap: least due time, then earliest started.
FirstDue(t) ==
    /\ Active(t)
    /\ \A u \in Timers : Active(u) => rem[t] < rem[u] \/ (rem[t] = rem[u] /\ t <= u)

TimerFire(t) ==
    /\ phase = "timers"
    /\ ~Running
    /\ Expired(t)
    /\ FirstDue(t)
    /\ timer' = [timer EXCEPT ![t] = "running"]
    /\ js' = Frame("timer", t, "loop")
    /\ UNCHANGED <<phase, exit, mod, jobVars, rem, tmem, fetchVars, loopVars>>

\* Mutant: the context of a fired timer is not freed.
KeepTimerContext(t) == tmem' = tmem

\* free(context): the function and the handle it goes with are not freed.
FreeTimerContext(t) == tmem' = [tmem EXCEPT ![t] = @ \ {"context"}]

\* The function returns.
TimerReturn ==
    /\ js.kind = "timer"
    /\ timer' = [timer EXCEPT ![js.of] = "done"]
    /\ FreeTimerContext(js.of)
    /\ js' = JSIdle
    /\ UNCHANGED <<phase, exit, mod, jobVars, rem, fetchVars, loopVars>>

\* The function throws: the whole process exits with status 1.
TimerThrow ==
    /\ js.kind = "timer"
    /\ phase' = "exited"
    /\ exit' = "timer_error"
    /\ js' = JSIdle
    /\ UNCHANGED <<mod, jobVars, timerVars, fetchVars, loopVars>>

\* callback(fn) of the test module calls fn at once, within the code that calls
\* it.  The function throws: the process exits with status 1, whatever the loop
\* still has to do.
CallbackThrow ==
    /\ Running
    /\ phase' = "exited"
    /\ exit' = "callback_error"
    /\ js' = JSIdle
    /\ UNCHANGED <<mod, jobVars, timerVars, fetchVars, loopVars>>

TimersDone ==
    /\ phase = "timers"
    /\ ~Running
    /\ \A t \in Timers : ~Expired(t)

\* Mutant: fetch handles do not keep the loop alive.
FetchesUnreferenced == mainIdle \/ \E t \in Timers : Active(t)

\* uv__loop_alive: a started handle that is referenced.  prepare_handle and
\* check_handle are not.
LoopAlive == mainIdle \/ idleQ # <<>> \/ \E t \in Timers : Active(t)

-----------------------------------------------------------------------------
(* One iteration of uv_run *)

\* uv__run_idle starts by moving the whole queue to a local one.
NextIteration ==
    /\ TimersDone
    /\ LoopAlive
    /\ phase' = "idle"
    /\ batch' = idleQ
    /\ idleQ' = <<>>
    /\ UNCHANGED <<exit, js, mod, jobVars, timerVars, fetchVars, mainIdle>>

\* Mutant: idle_fetch_cb forgets uv_idle_stop.
IdleStopForgotten == batch' = Tail(batch) /\ idleQ' = Append(idleQ, Head(batch))

\* uv__run_idle had put the handle back on the loop's queue; uv_idle_stop in the
\* callback takes it off again.
IdleStop == batch' = Tail(batch) /\ UNCHANGED idleQ

\* idle_fetch_cb: a blocking transfer, the promise resolved or rejected, the
\* handle stopped and its context released.
IdleFetch ==
    /\ phase = "idle"
    /\ batch # <<>>
    /\ LET f == Head(batch) IN
         /\ fetch' = [fetch EXCEPT ![f] = "settled"]
         /\ fmem' = [fmem EXCEPT ![f] = @ \ {"context", "url", "values"}]
         /\ \/ /\ react[f] = "waiting"
               /\ react' = [react EXCEPT ![f] = "queued"]
               /\ jobs' = Append(jobs, Job("react", f))
            \/ /\ react[f] # "waiting"
               /\ UNCHANGED <<react, jobs>>
    /\ IdleStop
    /\ UNCHANGED <<phase, exit, js, mod, made, timerVars, mainIdle>>

\* Mutant: the poll always blocks for a whole delay.
BlocksForDelay(n) ==
    n = IF mainIdle \/ idleQ # <<>> \/ \A t \in Timers : ~Active(t) THEN 0 ELSE Delay

\* uv__io_poll may block for n: not at all while an idle handle is started or no
\* timer is active, otherwise until the first timer is due.
BlocksFor(n) ==
    IF mainIdle \/ idleQ # <<>> \/ \A t \in Timers : ~Active(t)
    THEN n = 0
    ELSE \E t \in Timers : FirstDue(t) /\ n = rem[t]

Poll ==
    /\ phase = "idle"
    /\ batch = <<>>
    /\ phase' = "check"
    /\ \E n \in 0..Delay, d \in 0..MaxLag : BlocksFor(n) /\ UpdateTime(n + d)
    /\ UNCHANGED <<exit, js, mod, jobVars, timer, tmem, fetchVars, loopVars>>

\* check_cb: the loop over the pending jobs ...
CheckJob ==
    /\ phase = "check"
    /\ ~Running
    /\ ExecutePendingJob
    /\ UNCHANGED <<phase, exit, made, timerVars, fetch, fmem, loopVars>>

\* Mutant: nothing ever stops idle_handle.
MainNeverStopped == mainIdle' = mainIdle

\* idle_handle is stopped if no job is left, and never started again.
StopMain == mainIdle' = (mainIdle /\ jobs # <<>>)

\* ... and its end, after which uv_run reads the clock and turns to the timers.
LeaveCheck ==
    /\ phase = "check"
    /\ phase' = "timers"
    /\ StopMain
    /\ \E d \in 0..MaxLag : UpdateTime(d)
    /\ UNCHANGED <<exit, mod, jobVars, timer, tmem, fetchVars, idleQ, batch>>

\* Mutant: check_cb may return with jobs left.
CheckDoneEarly == ~Running /\ LeaveCheck /\ UNCHANGED js

CheckDone == ~Running /\ jobs = <<>> /\ LeaveCheck /\ UNCHANGED js

JobReturn ==
    /\ js.kind \in {"micro", "react"}
    /\ js' = JSIdle
    /\ UNCHANGED <<phase, exit, mod, jobVars, timerVars, fetchVars, loopVars>>

\* A microtask throws (an exception in a promise reaction only rejects the next
\* promise): js_std_await reports it and goes on, check_cb stops draining.
JobThrow ==
    /\ JobsMayThrow
    /\ js.kind = "micro"
    /\ js' = JSIdle
    /\ \/ LeaveCheck
       \/ /\ phase = "await"
          /\ UNCHANGED <<phase, exit, mod, jobVars, timerVars, fetchVars, loopVars>>

\* uv_run returns.  main then frees `val`, which it never set: the process
\* may end normally or not, depending on what the stack held.
LoopExit ==
    /\ TimersDone
    /\ ~LoopAlive
    /\ phase' = "exited"
    /\ exit' \in {"ok", "crash"}
    /\ UNCHANGED <<js, mod, jobVars, timerVars, fetchVars, loopVars>>

Exited == phase = "exited" /\ UNCHANGED vars

-----------------------------------------------------------------------------

\* The steps the process is bound to take, once it is where they can be taken.
Progress ==
    \/ ModuleAwait \/ ModuleEnd \/ AwaitJob \/ ScriptError \/ StartLoop
    \/ \E t \in Timers : TimerFire(t)
    \/ TimerReturn \/ TimerThrow
    \/ NextIteration \/ IdleFetch \/ Poll
    \/ CheckJob \/ JobReturn \/ JobThrow \/ CheckDone
    \/ LoopExit

Next == ScriptCalls \/ CallbackThrow \/ Progress \/ AwaitSpin \/ Exited

Spec == Init /\ [][Next]_vars

\* A single thread that is never blocked for good: every piece of script code
\* the bounds allow returns, and curl_easy_perform does.
FairSpec == Spec /\ WF_vars(Progress)

-----------------------------------------------------------------------------
(* Properties *)

\* Every variable has its type.  No active timer is further away than the delay,
\* and none is overdue by more than the two clock readings of one iteration
\* (the one after the poll and the one before the timers run) can skip.
TypeOK ==
    /\ phase \in Phases
    /\ exit \in Exits
    /\ js \in Frames
    /\ mod \in ModStates
    /\ jobs \in Seq(Jobs)
    /\ made \in 0..MaxJobs
    /\ timer \in [Timers -> {"unused", "active", "running", "done"}]
    /\ rem \in [Timers -> (-2 * MaxLag)..Delay]
    /\ tmem \in [Timers -> SUBSET TimerMem]
    /\ fetch \in [Fetches -> {"unused", "pending", "settled", "sync", "bad"}]
    /\ react \in [Fetches -> {"none", "waiting", "queued", "run"}]
    /\ fmem \in [Fetches -> SUBSET FetchMem]
    /\ mainIdle \in BOOLEAN
    /\ idleQ \in Seq(Fetches)
    /\ batch \in Seq(Fetches)

\* No callback can reach freed memory: whatever the loop may still call has its
\* context, and a fetch has a registered handle exactly while it is pending
\* (js_fetch_new, idle_fetch_cb, js_os_setTimeout, js_os_setTimeout_cb).
NoDangling ==
    /\ \A t \in Timers : timer[t] \in {"active", "running"} => tmem[t] = TimerMem
    /\ \A f \in ToSet(idleQ) \cup ToSet(batch) : fmem[f] = FetchMem
    /\ \A f \in Fetches :
         fetch[f] = "pending" <=> f \in ToSet(idleQ) \cup ToSet(batch)

\* The process reports success, or dies in its last cleanup, only with the
\* module evaluated and every timer and fetch it started delivered.
QuietExit ==
    exit \in {"ok", "crash"} =>
        /\ mod = "fulfilled"
        /\ \A t \in Timers : timer[t] \in {"unused", "done"}
        /\ \A f \in Fetches : fetch[f] # "pending"

\* What an orderly end leaves allocated: of a timer the function and the
\* handle, of a fetch the array and the handle, and the capability of a fetch
\* that was refused.  Nothing that has a free in the code is missed.
OnlyKnownLeaks ==
    exit \in {"ok", "crash"} =>
        /\ \A t \in Timers : tmem[t] \subseteq {"func", "handle"}
        /\ \A f \in Fetches :
             fmem[f] \subseteq IF fetch[f] = "bad" THEN {"funcs", "values"}
                               ELSE {"funcs", "handle"}

\* Timers fire in the order of their setTimeout calls, however their callbacks,
\* the cached clock and the polls interleave.
TimersFireInOrder ==
    [][\A t \in Timers : timer[t] = "active" /\ timer'[t] # "active"
         => \A u \in 1..(t - 1) : timer[u] # "active"]_vars

\* Fetches settle newest first: when one is settled no later one is pending.
FetchesSettleNewestFirst ==
    [][\A f \in Fetches : fetch[f] = "pending" /\ fetch'[f] # "pending"
         => \A g \in (f + 1)..MaxFetches : fetch[g] # "pending"]_vars

\* While no job throws, a job the process ends without running was made by a
\* timer callback: everything else is run by a check phase before the loop ends.
OnlyTimerJobsLost ==
    (exit \in {"ok", "crash"} /\ ~JobsMayThrow)
        => \A j \in ToSet(jobs) : j.by = "timer"

\* main.c:243 "Run event loop to process any pending jobs (promises, etc)":
\* the process does not report success with jobs pending.  The code breaks it.
NoLostJobs == exit = "ok" => jobs = <<>>

\* The process ends, unless its main module awaits what only the loop provides.
Termination == <>(phase = "exited" \/ Hung)

\* A reaction attached to a pending fetch is run, unless an error ends the
\* process first or the main module never lets the loop start.
ReactionRuns ==
    \A f \in Fetches :
        react[f] = "waiting" ~>
            (react[f] = "run" \/ exit \in {"script_error", "timer_error", "callback_error"} \/ Hung)

\* The runtime implements what it promises about host tasks (HostTasks).
Stage ==
    CASE exit \in {"ok", "crash"} -> "closed"
      [] exit \in {"script_error", "timer_error", "callback_error"} -> "aborted"
      [] phase \in {"eval", "await"} -> "script"
      [] OTHER -> "serving"

TimerTask == [t \in Timers |->
    CASE timer[t] = "unused" -> "new"
      [] timer[t] = "active" -> "registered"
      [] OTHER -> "delivered"]

FetchTask == [f \in Fetches |->
    CASE fetch[f] = "pending" -> "registered"
      [] fetch[f] = "settled" -> "delivered"
      [] OTHER -> "new"]

Host == INSTANCE HostTasks
            WITH stage <- Stage, timerTask <- TimerTask, fetchTask <- FetchTask

HostSpec == Host!TasksSpec

=============================================================================
