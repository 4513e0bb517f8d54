---------------------------- MODULE RuntimeProofs ----------------------------
(***************************************************************************)
(* Proofs about Runtime, for every number of timers, fetches and jobs,     *)
(* every delay and every lag of the clock.                                 *)
(*                                                                         *)
(* The properties of Runtime are not inductive.  Inv below strengthens     *)
(* them: it says which code can be on the stack in which phase (Control),  *)
(* which jobs of the module's own can be queued (ModuleJobs), how far the  *)
(* cached clock can be from each timer's due time in each phase (Clock),   *)
(* in which order handles are queued (Handles), what is allocated in each  *)
(* state of a timer or fetch (Memory), and who made the jobs that are      *)
(* still queued once idle_handle is stopped (Leftover).                    *)
(***************************************************************************)
EXTENDS Runtime, DataLemmas

-----------------------------------------------------------------------------
(* The inductive invariant *)

\* TypeOK, but for the bounds on rem, which Clock has.
Types ==
    /\ phase \in Phases
    /\ exit \in Exits
    /\ js \in Frames
    /\ mod \in ModStates
    /\ jobs \in Seq(Jobs)
    /\ made \in 0..MaxJobs
    /\ timer \in [Timers -> {"unused", "active", "running", "done"}]
    /\ rem \in [Timers -> Int]
    /\ tmem \in [Timers -> SUBSET TimerMem]
    /\ fetch \in [Fetches -> {"unused", "pending", "settled", "sync", "bad"}]
    /\ react \in [Fetches -> {"none", "waiting", "queued", "run"}]
    /\ fmem \in [Fetches -> SUBSET FetchMem]
    /\ mainIdle \in BOOLEAN
    /\ idleQ \in Seq(Fetches)
    /\ batch \in Seq(Fetches)

\* Which code can be on the stack where.
Control ==
    /\ js.kind = "none" <=> js = JSIdle
    /\ js.kind = "timer" => phase = "timers" /\ js.of \in Timers /\ timer[js.of] = "running"
    /\ InModule => phase \in {"eval", "await"} /\ mod = "running"
    /\ js.kind \in {"micro", "react"} => phase \in {"await", "check"}
    /\ \A t \in Timers :
         timer[t] = "running" => (js.kind = "timer" /\ js.of = t) \/ exit \in {"timer_error", "callback_error"}
    /\ phase \in {"timers", "idle", "check"} => mod = "fulfilled"
    /\ exit = "none" <=> phase # "exited"
    /\ exit \in {"ok", "crash"} => mod = "fulfilled"
    /\ phase = "eval" => js.kind = "script"

\* The module has at most one job queued, and the one its state says.
ForModule(j) == j.kind \in {"resume", "fulfil", "reject"}

ModuleJobs ==
    /\ \A i \in DOMAIN jobs : ForModule(jobs[i]) =>
         \/ mod = "resuming" /\ jobs[i].kind = "resume"
         \/ mod = "settling" /\ jobs[i].kind # "resume"
    /\ \A i, k \in DOMAIN jobs : ForModule(jobs[i]) /\ ForModule(jobs[k]) => i = k

\* The clock's distance from each due time, phase by phase; timers are due in
\* the order of the calls.
Clock ==
    /\ \A t \in Timers : -2 * MaxLag <= rem[t] /\ rem[t] <= Delay
    /\ phase \in {"eval", "await"} => \A t \in Timers : Active(t) => rem[t] = Delay
    /\ phase = "idle" => \A t \in Timers : Active(t) => rem[t] > 0
    /\ phase = "check" => \A t \in Timers : Active(t) => rem[t] >= -MaxLag
    /\ \A t, u \in Timers : u < t /\ Active(t) /\ Active(u) => rem[u] <= rem[t]
    /\ \A t, u \in Timers : u < t /\ timer[u] = "unused" => timer[t] = "unused"

\* Handles wait in one queue at a time, newest first, and are those of the
\* pending fetches.
NewestFirst(q) == \A i, k \in DOMAIN q : i < k => q[i] > q[k]

Handles ==
    /\ phase = "idle" => idleQ = <<>>
    /\ phase # "idle" => batch = <<>>
    /\ NewestFirst(idleQ)
    /\ NewestFirst(batch)
    /\ \A f, g \in Fetches : g < f /\ fetch[g] = "unused" => fetch[f] = "unused"
    /\ \A f \in Fetches : fetch[f] = "pending" <=> f \in ToSet(idleQ) \cup ToSet(batch)

\* What is allocated, by the state of the timer or fetch.
Memory ==
    /\ \A t \in Timers :
         /\ timer[t] = "unused" => tmem[t] = {}
         /\ timer[t] \in {"active", "running"} => tmem[t] = TimerMem
         /\ timer[t] = "done" => tmem[t] = {"func", "handle"}
    /\ \A f \in Fetches :
         /\ fetch[f] \in {"unused", "sync"} => fmem[f] = {}
         /\ fetch[f] = "pending" => fmem[f] = FetchMem
         /\ fetch[f] = "settled" => fmem[f] = {"funcs", "handle"}
         /\ fetch[f] = "bad" => fmem[f] = {"funcs", "values"}

\* While no job throws, whoever stops idle_handle has drained the queue.
Leftover ==
    ~JobsMayThrow =>
        /\ phase \in {"eval", "await"} => mainIdle
        /\ phase = "timers" /\ ~mainIdle => \A j \in ToSet(jobs) : j.by = "timer"
        /\ exit \in {"ok", "crash"} => \A j \in ToSet(jobs) : j.by = "timer"

Inv == Types /\ Control /\ ModuleJobs /\ Clock /\ Handles /\ Memory /\ Leftover /\ QuietExit

-----------------------------------------------------------------------------
(* Types *)

\* A job the running code makes is a job.
LEMMA JobType ==
    ASSUME Types, Control,
           NEW k \in {"micro", "react", "resume", "fulfil", "reject"}, NEW i \in Nat
    PROVE  Job(k, i) \in Jobs
  BY DEF Types, Control, Job, Frame, Frames, Jobs, Makers, JSIdle

\* Taking a job keeps the types of what it changes.
LEMMA ExecuteType ==
    ASSUME Types, ExecutePendingJob
    PROVE  /\ jobs' \in Seq(Jobs)
           /\ js' \in Frames
           /\ mod' \in ModStates
           /\ react' \in [Fetches -> {"none", "waiting", "queued", "run"}]
<1>1. jobs \in Seq(Jobs) /\ jobs # <<>> /\ jobs' = Tail(jobs)
  BY DEF Types, ExecutePendingJob
<1>2. Head(jobs) \in Jobs /\ Tail(jobs) \in Seq(Jobs)
  BY <1>1, TailFacts
<1>3. js' \in Frames
  BY <1>2 DEF ExecutePendingJob, Jobs, Frames, JSIdle, Frame, Makers
<1>4. mod' \in ModStates
  BY <1>2 DEF ExecutePendingJob, Types, Jobs, ModStates
<1>5. react' \in [Fetches -> {"none", "waiting", "queued", "run"}]
  BY DEF ExecutePendingJob, Types
<1>. QED BY <1>1, <1>2, <1>3, <1>4, <1>5

LEMMA TypesStep ==
    ASSUME Types, Control, [Next]_vars
    PROVE  Types'
<1>. USE RuntimeAssumption DEF Types
<1>0. JSIdle \in Frames
  BY DEF JSIdle, Frame, Frames, Makers
<1>1. ASSUME NEW t \in Timers, SetTimeout(t) PROVE Types'
  BY <1>1 DEF SetTimeout, Due, Timers, TimerMem, jobVars, fetchVars, loopVars
<1>2. ASSUME NEW f \in Fetches, Fetch(f) PROVE Types'
  <2>1. idleQ' \in Seq(Fetches)
    BY <1>2, ConsFacts DEF Fetch, IdleStart
  <2>. QED BY <1>2, <2>1 DEF Fetch, NextFetch, FetchMem, jobVars, timerVars
<1>3. ASSUME NEW f \in Fetches, FetchBadArg(f) PROVE Types'
  BY <1>3 DEF FetchBadArg, NextFetch, FetchMem, jobVars, timerVars, loopVars
<1>4. ASSUME NEW f \in Fetches, OldFetch(f) PROVE Types'
  BY <1>4 DEF OldFetch, NextFetch, jobVars, timerVars, loopVars
<1>5. ASSUME NEW f \in Fetches, Then(f) PROVE Types'
  <2>1. f \in Nat
    BY DEF Fetches
  <2>2. Append(jobs, Job("react", f)) \in Seq(Jobs)
    BY <2>1, JobType, AppendFacts
  <2>. QED BY <1>5, <2>2 DEF Then, timerVars, loopVars
<1>6. CASE QueueMicrotask
  <2>1. Append(jobs, Job("micro", 0)) \in Seq(Jobs)
    BY JobType, AppendFacts
  <2>. QED BY <1>6, <2>1 DEF QueueMicrotask, timerVars, fetchVars, loopVars
<1>7. CASE WakeModule
  <2>1. Append(jobs, Job("resume", 0)) \in Seq(Jobs)
    BY JobType, AppendFacts
  <2>. QED BY <1>7, <2>1 DEF WakeModule, ModStates, timerVars, fetchVars, loopVars
<1>8. CASE ModuleAwait
  <2>1. Append(jobs, Job("resume", 0)) \in Seq(Jobs)
    BY JobType, AppendFacts
  <2>2. jobs' \in Seq(Jobs) /\ mod' \in ModStates
    BY <1>8, <2>1 DEF ModuleAwait, ModStates
  <2>. QED BY <1>8, <1>0, <2>2 DEF ModuleAwait, ModStates, Phases, timerVars, fetchVars, loopVars
<1>9. CASE ModuleEnd
  <2>1. \A k \in {"fulfil", "reject"} : Append(jobs, Job(k, 0)) \in Seq(Jobs)
    BY JobType, AppendFacts
  <2>. QED BY <1>9, <1>0, <2>1 DEF ModuleEnd, ModStates, Phases, timerVars, fetchVars, loopVars
<1>10. CASE AwaitJob
  BY <1>10, ExecuteType DEF AwaitJob, timerVars, loopVars
<1>11. CASE CheckJob
  BY <1>11, ExecuteType DEF CheckJob, timerVars, loopVars
<1>12. CASE ScriptError
  BY <1>12 DEF ScriptError, Phases, Exits, jobVars, timerVars, fetchVars, loopVars
<1>13. ASSUME NEW d \in Int, UpdateTime(d) PROVE rem' \in [Timers -> Int]
  BY <1>13 DEF UpdateTime
<1>14. CASE StartLoop
  BY <1>14, <1>13 DEF StartLoop, Phases, jobVars, fetchVars, loopVars
<1>15. ASSUME NEW t \in Timers, TimerFire(t) PROVE Types'
  <2>1. Frame("timer", t, "loop") \in Frames
    BY DEF Frame, Frames, Makers, Timers
  <2>. QED BY <1>15, <2>1 DEF TimerFire, jobVars, fetchVars, loopVars
<1>16. CASE TimerReturn
  BY <1>16, <1>0 DEF TimerReturn, FreeTimerContext, jobVars, fetchVars, loopVars
<1>17. CASE TimerThrow \/ CallbackThrow
  BY <1>17, <1>0 DEF TimerThrow, CallbackThrow, Phases, Exits, jobVars, timerVars, fetchVars, loopVars
<1>18. CASE NextIteration
  <2>1. <<>> \in Seq(Fetches)
    BY EmptySeq
  <2>. QED BY <1>18, <2>1 DEF NextIteration, Phases, jobVars, timerVars, fetchVars
<1>19. CASE IdleFetch
  <2>1. Head(batch) \in Fetches /\ Tail(batch) \in Seq(Fetches)
    BY <1>19, TailFacts DEF IdleFetch
  <2>2. Append(jobs, Job("react", Head(batch))) \in Seq(Jobs)
    BY <2>1, JobType, AppendFacts DEF Fetches
  <2>. QED BY <1>19, <2>1, <2>2 DEF IdleFetch, IdleStop, timerVars
<1>20. CASE Poll
  BY <1>20, <1>13 DEF Poll, Phases, jobVars, fetchVars, loopVars
<1>21. ASSUME LeaveCheck, js' \in Frames PROVE Types'
  BY <1>21, <1>13 DEF LeaveCheck, StopMain, Phases, jobVars, fetchVars
<1>22. CASE CheckDone
  BY <1>22, <1>21 DEF CheckDone
<1>23. CASE JobReturn
  BY <1>23, <1>0 DEF JobReturn, jobVars, timerVars, fetchVars, loopVars
<1>24. CASE JobThrow
  BY <1>24, <1>0, <1>21 DEF JobThrow, jobVars, timerVars, fetchVars, loopVars
<1>25. CASE LoopExit
  BY <1>25 DEF LoopExit, Phases, Exits, jobVars, timerVars, fetchVars, loopVars
<1>26. CASE UNCHANGED vars
  BY <1>26 DEF vars, jobVars, timerVars, fetchVars, loopVars
<1>. HIDE DEF Types
<1>. QED
  BY <1>1, <1>2, <1>3, <1>4, <1>5, <1>6, <1>7, <1>8, <1>9, <1>10, <1>11, <1>12,
     <1>14, <1>15, <1>16, <1>17, <1>18, <1>19, <1>20, <1>22, <1>23, <1>24,
     <1>25, <1>26 DEF Next, ScriptCalls, Progress, AwaitSpin, Exited

-----------------------------------------------------------------------------
(* Control *)

\* Where code that is running can be.
LEMMA RunningWhere ==
    ASSUME Types, Control, Running
    PROVE  /\ js.kind \in {"script", "timer", "micro", "react", "resume"}
           /\ phase \notin {"idle", "exited"}
           /\ phase = "timers" => js.kind = "timer"
           /\ exit = "none"
  BY DEF Types, Control, Running, InModule, Frames

\* A state in which no code runs, with the module's promise settled or pending.
LEMMA IdleFrame == JSIdle.kind = "none" /\ JSIdle.of = 0
  BY DEF JSIdle, Frame

\* The job taken is the first one, and it is of the kind the module's state
\* allows.
LEMMA ExecuteKinds ==
    ASSUME Types, Control, ModuleJobs, ExecutePendingJob
    PROVE  \E j \in Jobs :
             /\ j = jobs[1] /\ 1 \in DOMAIN jobs
             /\ j.kind = "resume" => mod = "resuming"
             /\ j.kind \in {"fulfil", "reject"} => mod = "settling"
             /\ js' = IF j.kind \in {"fulfil", "reject"} THEN JSIdle ELSE j
             /\ mod' = CASE j.kind = "resume" -> "running"
                         [] j.kind = "fulfil" -> "fulfilled"
                         [] j.kind = "reject" -> "rejected"
                         [] OTHER -> mod
<1>1. jobs \in Seq(Jobs) /\ jobs # <<>>
  BY DEF Types, ExecutePendingJob
<1>2. Head(jobs) \in Jobs /\ Head(jobs) = jobs[1] /\ 1 \in DOMAIN jobs
  BY <1>1, TailFacts
<1>3. ForModule(jobs[1]) => \/ mod = "resuming" /\ jobs[1].kind = "resume"
                            \/ mod = "settling" /\ jobs[1].kind # "resume"
  BY <1>2 DEF ModuleJobs
<1>. QED BY <1>2, <1>3 DEF ExecutePendingJob, ForModule

LEMMA ControlStep ==
    ASSUME Types, Control, ModuleJobs, [Next]_vars
    PROVE  Control'
<1>. USE IdleFrame DEF Control, InModule
<1>1. ASSUME NEW t \in Timers, SetTimeout(t) PROVE Control'
  BY <1>1 DEF Types, SetTimeout, jobVars, fetchVars, loopVars
<1>2. CASE \/ \E f \in Fetches : Fetch(f) \/ FetchBadArg(f) \/ OldFetch(f) \/ Then(f)
           \/ QueueMicrotask
  BY <1>2 DEF Fetch, FetchBadArg, OldFetch, Then, QueueMicrotask, timerVars, jobVars
<1>3. CASE WakeModule
  BY <1>3, RunningWhere DEF WakeModule, Types, timerVars
<1>4. CASE ModuleAwait
  BY <1>4 DEF ModuleAwait, Types, timerVars
<1>5. CASE ModuleEnd
  BY <1>5 DEF ModuleEnd, Types, timerVars
<1>6. CASE AwaitJob
  <2>1. PICK j \in Jobs :
             /\ j.kind = "resume" => mod = "resuming"
             /\ j.kind \in {"fulfil", "reject"} => mod = "settling"
             /\ js' = IF j.kind \in {"fulfil", "reject"} THEN JSIdle ELSE j
             /\ mod' = CASE j.kind = "resume" -> "running"
                         [] j.kind = "fulfil" -> "fulfilled"
                         [] j.kind = "reject" -> "rejected"
                         [] OTHER -> mod
    BY <1>6, ExecuteKinds DEF AwaitJob
  <2>2. phase = "await" /\ phase' = "await" /\ exit' = exit /\ timer' = timer
    BY <1>6 DEF AwaitJob, timerVars
  <2>3. js.kind = "none"
    BY <1>6 DEF AwaitJob, Running
  <2>. QED BY <2>1, <2>2, <2>3 DEF Jobs
<1>7. CASE CheckJob
  <2>1. PICK j \in Jobs :
             /\ j.kind = "resume" => mod = "resuming"
             /\ j.kind \in {"fulfil", "reject"} => mod = "settling"
             /\ js' = IF j.kind \in {"fulfil", "reject"} THEN JSIdle ELSE j
             /\ mod' = CASE j.kind = "resume" -> "running"
                         [] j.kind = "fulfil" -> "fulfilled"
                         [] j.kind = "reject" -> "rejected"
                         [] OTHER -> mod
    BY <1>7, ExecuteKinds DEF CheckJob
  <2>2. phase = "check" /\ phase' = "check" /\ exit' = exit /\ timer' = timer
    BY <1>7 DEF CheckJob, timerVars
  <2>3. js.kind = "none"
    BY <1>7 DEF CheckJob, Running
  <2>. QED BY <2>1, <2>2, <2>3 DEF Jobs
<1>8. CASE ScriptError
  BY <1>8 DEF ScriptError, Running, Types, timerVars
<1>9. CASE StartLoop
  BY <1>9 DEF StartLoop, Running, Types, jobVars
<1>10. ASSUME NEW t \in Timers, TimerFire(t) PROVE Control'
  BY <1>10 DEF TimerFire, Types, Frame, Running, JSIdle
<1>11. CASE TimerReturn
  BY <1>11 DEF TimerReturn, Types
<1>12. CASE TimerThrow \/ CallbackThrow
  BY <1>12 DEF TimerThrow, CallbackThrow, Types, timerVars
<1>13. CASE NextIteration
  BY <1>13 DEF NextIteration, TimersDone, Running, Types, timerVars
<1>14. CASE IdleFetch
  BY <1>14 DEF IdleFetch, timerVars
<1>15. CASE Poll
  BY <1>15 DEF Poll, Types
<1>16. CASE CheckDone
  BY <1>16 DEF CheckDone, LeaveCheck, Running, Types
<1>17. CASE JobReturn
  BY <1>17 DEF JobReturn, Types, timerVars
<1>18. CASE JobThrow
  BY <1>18 DEF JobThrow, LeaveCheck, Types, timerVars
<1>19. CASE LoopExit
  BY <1>19 DEF LoopExit, TimersDone, Running, Types, timerVars
<1>20. CASE UNCHANGED vars
  BY <1>20 DEF vars, timerVars
<1>. HIDE DEF Control
<1>. QED
  BY <1>1, <1>2, <1>3, <1>4, <1>5, <1>6, <1>7, <1>8, <1>9, <1>10, <1>11, <1>12,
     <1>13, <1>14, <1>15, <1>16, <1>17, <1>18, <1>19, <1>20
     DEF Next, ScriptCalls, Progress, AwaitSpin, Exited

-----------------------------------------------------------------------------
(* The module's own jobs *)

\* Adding a job that is not the module's.
LEMMA AppendOther ==
    ASSUME Types, ModuleJobs, NEW j \in Jobs, ~ForModule(j),
           jobs' = Append(jobs, j), mod' = mod
    PROVE  ModuleJobs'
<1>1. /\ Len(jobs) \in Nat /\ DOMAIN jobs = 1..Len(jobs)
      /\ DOMAIN jobs' = 1..(Len(jobs) + 1)
      /\ \A i \in 1..Len(jobs) : jobs'[i] = jobs[i]
      /\ jobs'[Len(jobs) + 1] = j
  BY AppendFacts DEF Types
<1>2. \A i \in DOMAIN jobs' : ForModule(jobs'[i]) => i \in DOMAIN jobs /\ jobs'[i] = jobs[i]
  BY <1>1
<1>. QED BY <1>2 DEF ModuleJobs

\* Adding the module's job when it has none.
LEMMA AppendModule ==
    ASSUME Types, ModuleJobs, mod \notin {"resuming", "settling"}, NEW j \in Jobs,
           jobs' = Append(jobs, j),
           \/ j.kind = "resume" /\ mod' = "resuming"
           \/ j.kind \in {"fulfil", "reject"} /\ mod' = "settling"
    PROVE  ModuleJobs'
<1>1. /\ Len(jobs) \in Nat /\ DOMAIN jobs = 1..Len(jobs)
      /\ DOMAIN jobs' = 1..(Len(jobs) + 1)
      /\ \A i \in 1..Len(jobs) : jobs'[i] = jobs[i]
      /\ jobs'[Len(jobs) + 1] = j
  BY AppendFacts DEF Types
<1>2. \A i \in DOMAIN jobs : ~ForModule(jobs[i])
  BY DEF ModuleJobs
<1>3. \A i \in DOMAIN jobs' : ForModule(jobs'[i]) => i = Len(jobs) + 1 /\ jobs'[i] = j
  BY <1>1, <1>2
<1>. QED BY <1>3 DEF ModuleJobs

\* Taking a job: if it is the module's, none is left.
LEMMA TakeJob ==
    ASSUME Types, ModuleJobs, ExecutePendingJob
    PROVE  ModuleJobs'
<1>1. jobs \in Seq(Jobs) /\ jobs # <<>> /\ jobs' = Tail(jobs)
  BY DEF Types, ExecutePendingJob
<1>2. /\ DOMAIN jobs = 1..Len(jobs) /\ Len(jobs) \in Nat \ {0}
      /\ DOMAIN jobs' = 1..(Len(jobs) - 1)
      /\ \A i \in 1..(Len(jobs) - 1) : jobs'[i] = jobs[i + 1]
      /\ Head(jobs) = jobs[1]
  BY <1>1, TailFacts
<1>3. \A i \in DOMAIN jobs' : i + 1 \in DOMAIN jobs /\ i + 1 # 1 /\ jobs'[i] = jobs[i + 1]
  BY <1>2
<1>4. 1 \in DOMAIN jobs
  BY <1>2
<1>5. CASE ForModule(Head(jobs))
  <2>1. \A i \in DOMAIN jobs' : ~ForModule(jobs'[i])
    BY <1>2, <1>3, <1>4, <1>5 DEF ModuleJobs
  <2>. QED BY <2>1 DEF ModuleJobs
<1>6. CASE ~ForModule(Head(jobs))
  <2>1. mod' = mod
    BY <1>6 DEF ExecutePendingJob, ForModule
  <2>2. \A i, k \in DOMAIN jobs' : i + 1 = k + 1 => i = k
    BY <1>2
  <2>. QED BY <2>1, <2>2, <1>3 DEF ModuleJobs
<1>. QED BY <1>5, <1>6

LEMMA ModuleJobsStep ==
    ASSUME Types, Control, ModuleJobs, [Next]_vars
    PROVE  ModuleJobs'
<1>1. ASSUME UNCHANGED <<jobs, mod>> PROVE ModuleJobs'
  BY <1>1 DEF ModuleJobs
<1>2. CASE \E t \in Timers : SetTimeout(t) \/ TimerFire(t)
  BY <1>1, <1>2 DEF SetTimeout, TimerFire, jobVars
<1>3. CASE \E f \in Fetches : Fetch(f) \/ FetchBadArg(f) \/ OldFetch(f)
  BY <1>1, <1>3 DEF Fetch, FetchBadArg, OldFetch, jobVars
<1>4. ASSUME NEW f \in Fetches, Then(f) PROVE ModuleJobs'
  <2>1. Job("react", f) \in Jobs /\ ~ForModule(Job("react", f))
    BY JobType DEF Fetches, ForModule, Job, Frame
  <2>2. CASE jobs' = jobs
    BY <1>1, <1>4, <2>2 DEF Then
  <2>3. CASE jobs' = Append(jobs, Job("react", f))
    BY <1>4, <2>1, <2>3, AppendOther DEF Then
  <2>. QED BY <1>4, <2>2, <2>3 DEF Then
<1>5. CASE QueueMicrotask
  <2>1. Job("micro", 0) \in Jobs /\ ~ForModule(Job("micro", 0))
    BY JobType DEF ForModule, Job, Frame
  <2>. QED BY <1>5, <2>1, AppendOther DEF QueueMicrotask
<1>6. \A k \in {"resume", "fulfil", "reject"} : Job(k, 0) \in Jobs /\ Job(k, 0).kind = k
  BY JobType DEF Job, Frame
<1>7. CASE WakeModule
  BY <1>6, <1>7, AppendModule DEF WakeModule
<1>8. CASE ModuleAwait
  <2>1. mod = "running"
    BY <1>8 DEF ModuleAwait, Control
  <2>2. CASE mod' = "resuming" /\ jobs' = Append(jobs, Job("resume", 0))
    BY <1>6, <2>1, <2>2, AppendModule
  <2>3. CASE mod' = "awaiting" /\ jobs' = jobs
    BY <2>1, <2>3 DEF ModuleJobs
  <2>. QED BY <1>8, <2>2, <2>3 DEF ModuleAwait
<1>9. CASE ModuleEnd
  <2>1. mod = "running"
    BY <1>9 DEF ModuleEnd, Control
  <2>2. CASE mod' \in {"fulfilled", "rejected"} /\ jobs' = jobs
    BY <2>1, <2>2 DEF ModuleJobs
  <2>3. ASSUME NEW k \in {"fulfil", "reject"},
               mod' = "settling", jobs' = Append(jobs, Job(k, 0))
        PROVE ModuleJobs'
    BY <1>6, <2>1, <2>3, AppendModule
  <2>. QED BY <1>9, <2>2, <2>3 DEF ModuleEnd
<1>10. CASE AwaitJob \/ CheckJob
  BY <1>10, TakeJob DEF AwaitJob, CheckJob
<1>11. CASE ScriptError \/ StartLoop \/ TimerReturn \/ TimerThrow \/ CallbackThrow \/ NextIteration
  BY <1>1, <1>11 DEF ScriptError, StartLoop, TimerReturn, TimerThrow, CallbackThrow, NextIteration, jobVars
<1>12. CASE IdleFetch
  <2>1. Job("react", Head(batch)) \in Jobs /\ ~ForModule(Job("react", Head(batch)))
    <3>1. batch \in Seq(Fetches) /\ batch # <<>>
      BY <1>12 DEF IdleFetch, Types
    <3>2. Head(batch) \in Fetches
      BY <3>1, TailFacts
    <3>3. Head(batch) \in Nat
      BY <3>2 DEF Fetches
    <3>4. Job("react", Head(batch)) \in Jobs
      BY <3>3, JobType
    <3>. QED BY <3>4 DEF ForModule, Job, Frame
  <2>2. CASE jobs' = jobs
    BY <1>1, <1>12, <2>2 DEF IdleFetch
  <2>3. CASE jobs' = Append(jobs, Job("react", Head(batch)))
    BY <1>12, <2>1, <2>3, AppendOther DEF IdleFetch
  <2>. QED BY <1>12, <2>2, <2>3 DEF IdleFetch
<1>13. CASE Poll \/ CheckDone \/ JobReturn \/ JobThrow \/ LoopExit
  BY <1>1, <1>13 DEF Poll, CheckDone, LeaveCheck, JobReturn, JobThrow, LoopExit, jobVars
<1>14. CASE UNCHANGED vars
  BY <1>1, <1>14 DEF vars, jobVars
<1>. QED
  BY <1>2, <1>3, <1>4, <1>5, <1>7, <1>8, <1>9, <1>10, <1>11, <1>12, <1>13, <1>14
     DEF Next, ScriptCalls, Progress, AwaitSpin, Exited

-----------------------------------------------------------------------------
(* Clock *)

LEMMA ClockStep ==
    ASSUME Types, Control, Clock, [Next]_vars
    PROVE  Clock'
<1>. USE RuntimeAssumption DEF Active
<1>1. ASSUME UNCHANGED <<timer, rem>>,
             phase' = phase \/ phase' \in {"timers", "exited"} \/ (phase = "eval" /\ phase' = "await")
      PROVE  Clock'
  BY <1>1 DEF Clock
<1>2. ASSUME NEW t \in Timers, SetTimeout(t) PROVE Clock'
  <2>1. /\ timer' = [timer EXCEPT ![t] = "active"]
        /\ rem' = [rem EXCEPT ![t] = Delay]
        /\ timer[t] = "unused" /\ phase' = phase
        /\ \A u \in Timers : u < t => timer[u] # "unused"
    BY <1>2 DEF SetTimeout, Due
  <2>2. \A u \in Timers : timer'[u] = IF u = t THEN "active" ELSE timer[u]
    BY <2>1 DEF Types
  <2>3. \A u \in Timers : rem'[u] = IF u = t THEN Delay ELSE rem[u]
    BY <2>1 DEF Types
  <2>4. \A u \in Timers : u > t => timer[u] = "unused"
    BY <2>1 DEF Clock, Timers
  <2>5. \A u \in Timers : rem[u] \in Int /\ -2 * MaxLag <= rem[u] /\ rem[u] <= Delay
    BY DEF Types, Clock
  <2>. QED BY <2>1, <2>2, <2>3, <2>4, <2>5 DEF Clock, Timers
<1>3. ASSUME NEW d \in Nat, UpdateTime(d), timer' = timer
      PROVE  \A t \in Timers : rem'[t] = IF timer[t] = "active" THEN rem[t] - d ELSE rem[t]
  BY <1>3 DEF UpdateTime
<1>4. \A t \in Timers : rem[t] \in Int /\ -2 * MaxLag <= rem[t] /\ rem[t] <= Delay
  BY DEF Types, Clock
<1>5. ASSUME NEW d \in Nat, timer' = timer, phase' \in {"timers", "check"},
             UpdateTime(d),
             \A t \in Timers : Active(t) => rem[t] - d >= -2 * MaxLag,
             phase' = "check" => \A t \in Timers : Active(t) => rem[t] - d >= -MaxLag
      PROVE  Clock'
  <2>1. \A t \in Timers : rem'[t] = IF timer[t] = "active" THEN rem[t] - d ELSE rem[t]
    BY <1>3, <1>5
  <2>2. \A t \in Timers : -2 * MaxLag <= rem'[t] /\ rem'[t] <= Delay
    BY <1>4, <1>5, <2>1
  <2>3. phase' = "check" => \A t \in Timers : timer'[t] = "active" => rem'[t] >= -MaxLag
    BY <1>5, <2>1
  <2>4. \A t, u \in Timers : u < t /\ timer'[t] = "active" /\ timer'[u] = "active"
                               => rem'[u] <= rem'[t]
    BY <1>4, <1>5, <2>1 DEF Clock
  <2>. QED BY <1>5, <2>2, <2>3, <2>4 DEF Clock
<1>6. CASE StartLoop
  <2>1. PICK d \in 0..MaxLag : UpdateTime(d)
    BY <1>6 DEF StartLoop
  <2>2. \A t \in Timers : Active(t) => rem[t] - d >= -2 * MaxLag
    BY <1>6 DEF StartLoop, Clock
  <2>. QED BY <1>5, <1>6, <2>1, <2>2 DEF StartLoop
<1>7. CASE LeaveCheck
  <2>1. PICK d \in 0..MaxLag : UpdateTime(d)
    BY <1>7 DEF LeaveCheck
  <2>2. \A t \in Timers : Active(t) => rem[t] - d >= -2 * MaxLag
    BY <1>4, <1>7 DEF LeaveCheck, Clock
  <2>. QED BY <1>5, <1>7, <2>1, <2>2 DEF LeaveCheck
<1>8. CASE Poll
  <2>1. PICK n \in 0..Delay, d \in 0..MaxLag : BlocksFor(n) /\ UpdateTime(n + d)
    BY <1>8 DEF Poll
  <2>2. \A t \in Timers : Active(t) => rem[t] > 0
    BY <1>8 DEF Poll, Clock
  <2>3. \A t \in Timers : Active(t) => rem[t] >= n
    <3>1. CASE n = 0
      BY <1>4, <2>2, <3>1
    <3>2. CASE \E t \in Timers : FirstDue(t) /\ n = rem[t]
      BY <1>4, <3>2 DEF FirstDue
    <3>. QED BY <2>1, <3>1, <3>2 DEF BlocksFor
  <2>4. \A t \in Timers : Active(t) =>
          rem[t] - (n + d) >= -MaxLag /\ rem[t] - (n + d) >= -2 * MaxLag
    BY <1>4, <2>3
  <2>5. n + d \in Nat /\ timer' = timer /\ phase' = "check"
    BY <1>8 DEF Poll
  <2>. QED BY <1>5, <2>1, <2>4, <2>5
<1>9. ASSUME NEW t \in Timers, TimerFire(t) PROVE Clock'
  <2>1. /\ timer' = [timer EXCEPT ![t] = "running"] /\ rem' = rem /\ phase' = phase
        /\ timer[t] = "active"
    BY <1>9 DEF TimerFire, Expired
  <2>2. \A u \in Timers : timer'[u] = IF u = t THEN "running" ELSE timer[u]
    BY <2>1 DEF Types
  <2>. QED BY <2>1, <2>2 DEF Clock
<1>10. CASE TimerReturn
  <2>1. /\ timer' = [timer EXCEPT ![js.of] = "done"] /\ rem' = rem /\ phase' = phase
        /\ timer[js.of] = "running"
    BY <1>10 DEF TimerReturn, Control
  <2>2. \A u \in Timers : timer'[u] = IF u = js.of THEN "done" ELSE timer[u]
    BY <2>1 DEF Types
  <2>. QED BY <2>1, <2>2 DEF Clock
<1>11. CASE NextIteration
  <2>1. \A t \in Timers : Active(t) => rem[t] > 0
    BY <1>4, <1>11 DEF NextIteration, TimersDone, Expired
  <2>2. phase' = "idle" /\ UNCHANGED <<timer, rem>>
    BY <1>11 DEF NextIteration, timerVars
  <2>. QED BY <2>1, <2>2 DEF Clock
<1>12. CASE ScriptCalls
  <2>1. CASE \/ \E f \in Fetches : Fetch(f) \/ FetchBadArg(f) \/ OldFetch(f) \/ Then(f)
             \/ QueueMicrotask \/ WakeModule
    BY <1>1, <2>1 DEF Fetch, FetchBadArg, OldFetch, Then, QueueMicrotask, WakeModule, timerVars
  <2>. QED BY <1>2, <1>12, <2>1 DEF ScriptCalls
<1>13. CASE ModuleAwait \/ ModuleEnd
  <2>1. phase \in {"eval", "await"} /\ phase' = "await" /\ UNCHANGED <<timer, rem>>
    BY <1>13 DEF ModuleAwait, ModuleEnd, Control, timerVars
  <2>. QED BY <2>1 DEF Clock
<1>14. CASE AwaitJob \/ CheckJob \/ JobReturn \/ IdleFetch
  BY <1>1, <1>14 DEF AwaitJob, CheckJob, JobReturn, IdleFetch, timerVars
<1>15. CASE ScriptError \/ TimerThrow \/ CallbackThrow \/ LoopExit
  BY <1>1, <1>15 DEF ScriptError, TimerThrow, CallbackThrow, LoopExit, timerVars
<1>16. CASE CheckDone
  BY <1>7, <1>16 DEF CheckDone
<1>17. CASE JobThrow
  BY <1>1, <1>7, <1>17 DEF JobThrow, timerVars
<1>18. CASE UNCHANGED vars
  BY <1>1, <1>18 DEF vars, timerVars
<1>. QED
  BY <1>6, <1>8, <1>9, <1>10, <1>11, <1>12, <1>13, <1>14, <1>15, <1>16, <1>17, <1>18
     DEF Next, Progress, AwaitSpin, Exited

-----------------------------------------------------------------------------
(* Handles *)

\* The first handle of the batch is that of the newest pending fetch, and is
\* in no other place.
LEMMA BatchHead ==
    ASSUME Types, Handles, phase = "idle", batch # <<>>
    PROVE  /\ Head(batch) \in Fetches
           /\ fetch[Head(batch)] = "pending"
           /\ Head(batch) \notin ToSet(Tail(batch))
           /\ idleQ = <<>> /\ ToSet(idleQ) = {}
           /\ \A f \in Fetches : fetch[f] = "pending" => f <= Head(batch)
<1>1. /\ Head(batch) = batch[1] /\ Tail(batch) \in Seq(Fetches)
      /\ DOMAIN batch = 1..Len(batch) /\ Len(batch) \in Nat \ {0}
      /\ DOMAIN Tail(batch) = 1..(Len(batch) - 1)
      /\ \A i \in 1..(Len(batch) - 1) : Tail(batch)[i] = batch[i + 1]
      /\ Head(batch) \in Fetches
  BY TailFacts DEF Types
<1>2. idleQ = <<>> /\ ToSet(idleQ) = {}
  BY ToSetFacts DEF Handles, Types
<1>3. Head(batch) \in ToSet(batch)
  BY TailElements DEF Types
<1>4. \A i \in DOMAIN batch : batch[i] \in Fetches
  BY <1>1, ElementOfSeq DEF Types
<1>5. \A i \in DOMAIN batch : i = 1 \/ batch[1] > batch[i]
  BY <1>1 DEF Handles, NewestFirst
<1>6. \A i \in DOMAIN Tail(batch) : batch[1] > Tail(batch)[i]
  BY <1>1, <1>5
<1>7. Head(batch) \notin ToSet(Tail(batch))
  <2>1. SUFFICES ASSUME Head(batch) \in ToSet(Tail(batch)) PROVE FALSE
    OBVIOUS
  <2>2. PICK i \in DOMAIN Tail(batch) : Head(batch) = Tail(batch)[i]
    BY <2>1, ToSetDef
  <2>. QED BY <1>1, <1>6, <2>2 DEF Fetches
<1>8. ASSUME NEW f \in Fetches, fetch[f] = "pending" PROVE f <= Head(batch)
  <2>1. f \in ToSet(batch)
    BY <1>2, <1>8 DEF Handles
  <2>2. PICK i \in DOMAIN batch : f = batch[i]
    BY <2>1, ToSetDef
  <2>. QED BY <1>1, <1>4, <1>5, <2>2 DEF Fetches
<1>. QED BY <1>1, <1>2, <1>3, <1>7, <1>8 DEF Handles

LEMMA HandlesStep ==
    ASSUME Types, Control, Handles, [Next]_vars
    PROVE  Handles'
<1>1. ASSUME UNCHANGED <<fetch, idleQ, batch>>,
             phase = "idle" => phase' = "idle" \/ batch = <<>>,
             phase' = "idle" => phase = "idle"
      PROVE  Handles'
  BY <1>1 DEF Handles, NewestFirst
<1>2. ASSUME UNCHANGED <<phase, idleQ, batch>>, Running, NEW f \in Fetches,
             fetch[f] = "unused",
             NEW s \in {"sync", "bad"}, fetch' = [fetch EXCEPT ![f] = s],
             \A g \in Fetches : g < f => fetch[g] # "unused"
      PROVE  Handles'
  <2>1. \A g \in Fetches : fetch'[g] = IF g = f THEN s ELSE fetch[g]
    BY <1>2 DEF Types
  <2>. QED BY <1>2, <2>1 DEF Handles, NewestFirst, Fetches
<1>3. ASSUME NEW f \in Fetches, Fetch(f) PROVE Handles'
  <2>1. /\ fetch' = [fetch EXCEPT ![f] = "pending"] /\ fetch[f] = "unused"
        /\ \A g \in Fetches : g < f => fetch[g] # "unused"
        /\ idleQ' = <<f>> \o idleQ /\ batch' = batch /\ phase' = phase
    BY <1>3 DEF Fetch, NextFetch, IdleStart
  <2>2. \A g \in Fetches : fetch'[g] = IF g = f THEN "pending" ELSE fetch[g]
    BY <2>1 DEF Types
  <2>3. phase # "idle"
    BY <1>3, RunningWhere DEF Fetch, NextFetch
  <2>4. \A x : x \in ToSet(idleQ') <=> x \in ToSet(idleQ) \/ x = f
    BY <2>1, ConsElements DEF Types
  <2>5. \A g \in Fetches : fetch[g] # "unused" => g < f
    <3>1. \A g \in Fetches : g > f => fetch[g] = "unused"
      BY <2>1 DEF Handles
    <3>. QED BY <2>1, <3>1 DEF Fetches
  <2>6. \A i \in DOMAIN idleQ : idleQ[i] \in Fetches /\ idleQ[i] < f
    <3>1. \A i \in DOMAIN idleQ : idleQ[i] \in ToSet(idleQ)
      BY ToSetDef
    <3>2. ToSet(idleQ) \subseteq Fetches
      BY ToSetFacts DEF Types
    <3>. QED BY <2>5, <3>1, <3>2 DEF Handles
  <2>7. /\ DOMAIN idleQ = 1..Len(idleQ) /\ Len(idleQ) \in Nat
        /\ DOMAIN idleQ' = 1..(Len(idleQ) + 1)
        /\ idleQ'[1] = f
        /\ \A i \in 2..(Len(idleQ) + 1) : idleQ'[i] = idleQ[i - 1]
    BY <2>1, ConsFacts DEF Types
  <2>8. \A i \in DOMAIN idleQ' : i = 1 \/ (i - 1 \in DOMAIN idleQ /\ idleQ'[i] = idleQ[i - 1])
    BY <2>7
  <2>9. NewestFirst(idleQ')
    <3>1. SUFFICES ASSUME NEW i \in DOMAIN idleQ', NEW k \in DOMAIN idleQ', i < k
                   PROVE  idleQ'[i] > idleQ'[k]
      BY DEF NewestFirst
    <3>2. i \in Nat /\ k \in Nat /\ i >= 1 /\ k # 1
      BY <2>7, <3>1
    <3>3. idleQ'[k] = idleQ[k - 1] /\ k - 1 \in DOMAIN idleQ
      BY <2>8, <3>2
    <3>4. CASE i = 1
      BY <2>6, <2>7, <3>3, <3>4 DEF Fetches
    <3>5. CASE i # 1
      BY <2>8, <3>1, <3>2, <3>3, <3>5 DEF Handles, NewestFirst
    <3>. QED BY <3>4, <3>5
  <2>10. \A g, h \in Fetches : h < g /\ fetch'[h] = "unused" => fetch'[g] = "unused"
    BY <2>1, <2>2 DEF Handles, Fetches
  <2>. QED BY <2>1, <2>2, <2>3, <2>4, <2>9, <2>10 DEF Handles
<1>4. CASE NextIteration
  <2>1. phase = "timers" /\ phase' = "idle" /\ batch' = idleQ /\ idleQ' = <<>> /\ fetch' = fetch
    BY <1>4 DEF NextIteration, TimersDone, fetchVars
  <2>2. batch = <<>> /\ ToSet(batch) = {} /\ ToSet(idleQ') = {} /\ NewestFirst(<<>>)
    BY <2>1, ToSetFacts, EmptySeq DEF Handles, Types, NewestFirst
  <2>. QED BY <2>1, <2>2 DEF Handles
<1>5. CASE IdleFetch
  <2>. DEFINE f == Head(batch)
  <2>1. /\ phase = "idle" /\ batch # <<>> /\ batch' = Tail(batch) /\ idleQ' = idleQ
        /\ fetch' = [fetch EXCEPT ![f] = "settled"] /\ phase' = phase
    BY <1>5 DEF IdleFetch, IdleStop
  <2>2. /\ f \in Fetches /\ fetch[f] = "pending" /\ f \notin ToSet(Tail(batch))
        /\ ToSet(idleQ) = {}
    BY <2>1, BatchHead
  <2>3. \A x : x \in ToSet(batch) <=> x \in ToSet(batch') \/ x = f
    BY <2>1, TailElements DEF Types
  <2>4. NewestFirst(batch')
    <3>1. /\ DOMAIN batch = 1..Len(batch) /\ Len(batch) \in Nat \ {0}
          /\ DOMAIN batch' = 1..(Len(batch) - 1)
          /\ \A i \in 1..(Len(batch) - 1) : batch'[i] = batch[i + 1]
      BY <2>1, TailFacts DEF Types
    <3>2. \A i, k \in DOMAIN batch' : i < k =>
            /\ i + 1 \in DOMAIN batch /\ k + 1 \in DOMAIN batch /\ i + 1 < k + 1
            /\ batch'[i] = batch[i + 1] /\ batch'[k] = batch[k + 1]
      BY <3>1
    <3>. QED BY <3>2 DEF Handles, NewestFirst
  <2>5. \A g \in Fetches : fetch'[g] = IF g = f THEN "settled" ELSE fetch[g]
    BY <2>1 DEF Types
  <2>. HIDE DEF f
  <2>. QED BY <2>1, <2>2, <2>3, <2>4, <2>5 DEF Handles
<1>6. CASE ScriptCalls
  <2>1. CASE \/ \E t \in Timers : SetTimeout(t)
             \/ \E f \in Fetches : Then(f)
             \/ QueueMicrotask \/ WakeModule
    BY <1>1, <2>1 DEF SetTimeout, Then, QueueMicrotask, WakeModule, fetchVars, loopVars
  <2>2. ASSUME NEW f \in Fetches, FetchBadArg(f) \/ OldFetch(f) PROVE Handles'
    BY <1>2, <2>2 DEF FetchBadArg, OldFetch, NextFetch, loopVars
  <2>. QED BY <1>3, <1>6, <2>1, <2>2 DEF ScriptCalls
<1>7. CASE ModuleAwait \/ ModuleEnd
  BY <1>1, <1>7 DEF ModuleAwait, ModuleEnd, Control, fetchVars, loopVars
<1>8. CASE AwaitJob \/ CheckJob \/ JobReturn \/ ScriptError \/ StartLoop
  BY <1>1, <1>8 DEF AwaitJob, CheckJob, JobReturn, ScriptError, StartLoop, fetchVars, loopVars
<1>9. CASE (\E t \in Timers : TimerFire(t)) \/ TimerReturn
  BY <1>1, <1>9 DEF TimerFire, TimerReturn, fetchVars, loopVars
<1>10. CASE TimerThrow \/ CallbackThrow
  <2>1. phase # "idle" /\ phase' # "idle" /\ UNCHANGED <<fetchVars, loopVars>>
    BY <1>1, <1>10, RunningWhere DEF TimerThrow, CallbackThrow, Control
  <2>. QED BY <1>1, <2>1 DEF fetchVars, loopVars
<1>11. CASE Poll
  BY <1>1, <1>11 DEF Poll, fetchVars, loopVars
<1>12. CASE LoopExit
  BY <1>1, <1>12 DEF LoopExit, TimersDone, fetchVars, loopVars
<1>13. CASE CheckDone
  BY <1>1, <1>13 DEF CheckDone, LeaveCheck, fetchVars
<1>14. CASE JobThrow
  BY <1>1, <1>14 DEF JobThrow, LeaveCheck, fetchVars, loopVars
<1>15. CASE UNCHANGED vars
  BY <1>1, <1>15 DEF vars, fetchVars, loopVars
<1>. QED
  BY <1>4, <1>5, <1>6, <1>7, <1>8, <1>9, <1>10, <1>11, <1>12, <1>13, <1>14, <1>15
     DEF Next, Progress, AwaitSpin, Exited

-----------------------------------------------------------------------------
(* Memory *)

LEMMA MemoryStep ==
    ASSUME Types, Control, Handles, Memory, [Next]_vars
    PROVE  Memory'
<1>1. ASSUME UNCHANGED <<timer, tmem, fetch, fmem>> PROVE Memory'
  BY <1>1 DEF Memory
<1>2. ASSUME NEW t \in Timers, SetTimeout(t) PROVE Memory'
  <2>1. /\ \A u \in Timers : timer'[u] = IF u = t THEN "active" ELSE timer[u]
        /\ \A u \in Timers : tmem'[u] = IF u = t THEN TimerMem ELSE tmem[u]
        /\ UNCHANGED <<fetch, fmem>>
    BY <1>2 DEF SetTimeout, Types, fetchVars
  <2>. QED BY <2>1 DEF Memory
<1>3. ASSUME NEW f \in Fetches, UNCHANGED <<timer, tmem>>,
             NEW s \in {"pending", "sync", "bad", "settled"}, NEW m,
             fetch' = [fetch EXCEPT ![f] = s], fmem' = [fmem EXCEPT ![f] = m],
             s = "pending" => m = FetchMem,
             s = "sync" => m = {},
             s = "bad" => m = {"funcs", "values"},
             s = "settled" => m = {"funcs", "handle"}
      PROVE  Memory'
  <2>1. /\ \A g \in Fetches : fetch'[g] = IF g = f THEN s ELSE fetch[g]
        /\ \A g \in Fetches : fmem'[g] = IF g = f THEN m ELSE fmem[g]
    BY <1>3 DEF Types
  <2>. QED BY <1>3, <2>1 DEF Memory
<1>4. ASSUME NEW f \in Fetches, Fetch(f) \/ FetchBadArg(f) PROVE Memory'
  BY <1>3, <1>4 DEF Fetch, FetchBadArg, timerVars
<1>5. ASSUME NEW f \in Fetches, OldFetch(f) PROVE Memory'
  <2>1. /\ fetch[f] = "unused" /\ fmem' = fmem /\ UNCHANGED <<timer, tmem>>
        /\ fetch' = [fetch EXCEPT ![f] = "sync"]
    BY <1>5 DEF OldFetch, NextFetch, timerVars
  <2>2. fmem[f] = {} /\ fmem' = [fmem EXCEPT ![f] = {}]
    BY <2>1 DEF Memory, Types
  <2>. QED BY <1>3, <2>1, <2>2
<1>6. CASE IdleFetch
  <2>. DEFINE f == Head(batch)
  <2>1. /\ phase = "idle" /\ batch # <<>> /\ UNCHANGED <<timer, tmem>>
        /\ fetch' = [fetch EXCEPT ![f] = "settled"]
        /\ fmem' = [fmem EXCEPT ![f] = @ \ {"context", "url", "values"}]
    BY <1>6 DEF IdleFetch, timerVars
  <2>2. f \in Fetches /\ fetch[f] = "pending"
    BY <2>1, BatchHead
  <2>3. fmem[f] \ {"context", "url", "values"} = {"funcs", "handle"}
    BY <2>2 DEF Memory, FetchMem
  <2>4. fmem' = [fmem EXCEPT ![f] = {"funcs", "handle"}]
    BY <2>1, <2>3
  <2>. QED BY <1>3, <2>1, <2>2, <2>4
<1>7. ASSUME NEW t \in Timers, TimerFire(t) PROVE Memory'
  <2>1. /\ \A u \in Timers : timer'[u] = IF u = t THEN "running" ELSE timer[u]
        /\ timer[t] = "active"
        /\ UNCHANGED <<tmem, fetch, fmem>>
    BY <1>7 DEF TimerFire, Expired, Active, Types, fetchVars
  <2>. QED BY <2>1 DEF Memory
<1>8. CASE TimerReturn
  <2>1. js.of \in Timers /\ timer[js.of] = "running"
    BY <1>8 DEF TimerReturn, Control
  <2>2. /\ \A u \in Timers : timer'[u] = IF u = js.of THEN "done" ELSE timer[u]
        /\ \A u \in Timers : tmem'[u] = IF u = js.of THEN tmem[u] \ {"context"} ELSE tmem[u]
        /\ UNCHANGED <<fetch, fmem>>
    BY <1>8, <2>1 DEF TimerReturn, FreeTimerContext, Types, fetchVars
  <2>3. tmem'[js.of] = {"func", "handle"}
    BY <2>1, <2>2 DEF Memory, TimerMem
  <2>4. timer'[js.of] = "done"
        /\ \A u \in Timers : u # js.of => timer'[u] = timer[u] /\ tmem'[u] = tmem[u]
    BY <2>1, <2>2
  <2>5. UNCHANGED <<fetch, fmem>>
    BY <2>2
  <2>. QED BY <2>3, <2>4, <2>5 DEF Memory
<1>9. CASE (\E f \in Fetches : Then(f)) \/ QueueMicrotask \/ WakeModule
  BY <1>1, <1>9 DEF Then, QueueMicrotask, WakeModule, timerVars, fetchVars
<1>10. CASE ModuleAwait \/ ModuleEnd \/ AwaitJob \/ ScriptError \/ StartLoop
  BY <1>1, <1>10 DEF ModuleAwait, ModuleEnd, AwaitJob, ScriptError, StartLoop, timerVars, fetchVars
<1>11. CASE TimerThrow \/ CallbackThrow \/ NextIteration \/ Poll \/ CheckJob \/ JobReturn \/ LoopExit
  BY <1>1, <1>11 DEF TimerThrow, CallbackThrow, NextIteration, Poll, CheckJob, JobReturn, LoopExit,
                     timerVars, fetchVars
<1>12. CASE CheckDone \/ JobThrow
  BY <1>1, <1>12 DEF CheckDone, JobThrow, LeaveCheck, timerVars, fetchVars
<1>13. CASE UNCHANGED vars
  BY <1>1, <1>13 DEF vars, timerVars, fetchVars
<1>. QED
  BY <1>2, <1>4, <1>5, <1>6, <1>7, <1>8, <1>9, <1>10, <1>11, <1>12, <1>13
     DEF Next, ScriptCalls, Progress, AwaitSpin, Exited

-----------------------------------------------------------------------------
(* The end of the process *)

\* A job made by a timer's function says so.
LEMMA MadeByTimer ==
    ASSUME js.kind = "timer", NEW k, NEW i
    PROVE  Job(k, i).by = "timer"
  BY DEF Job, Frame, JSIdle

LEMMA LeftoverStep ==
    ASSUME Types, Control, Leftover, [Next]_vars
    PROVE  Leftover'
<1>. SUFFICES ASSUME ~JobsMayThrow PROVE Leftover'
  BY DEF Leftover
<1>1. ASSUME UNCHANGED <<jobs, mainIdle>>, phase' = phase \/ phase' \in {"idle", "check"},
             exit' = exit
      PROVE  Leftover'
  BY <1>1 DEF Leftover
<1>2. ASSUME Running, UNCHANGED <<phase, exit, mainIdle>>,
             NEW j \in Jobs, jobs' = Append(jobs, j),
             js.kind = "timer" => j.by = "timer"
      PROVE  Leftover'
  <2>1. \A x : x \in ToSet(jobs') <=> x \in ToSet(jobs) \/ x = j
    BY <1>2, AppendElements DEF Types
  <2>2. exit' = "none" /\ (phase' = "timers" => js.kind = "timer")
    BY <1>2, RunningWhere
  <2>. QED BY <1>2, <2>1, <2>2 DEF Leftover
<1>3. \A k \in {"micro", "react", "resume"}, i \in Nat :
        Job(k, i) \in Jobs /\ (js.kind = "timer" => Job(k, i).by = "timer")
  BY JobType, MadeByTimer
<1>4. CASE \E t \in Timers : SetTimeout(t)
  BY <1>1, <1>4 DEF SetTimeout, jobVars, loopVars
<1>5. CASE \E f \in Fetches : Fetch(f) \/ FetchBadArg(f) \/ OldFetch(f)
  BY <1>1, <1>5 DEF Fetch, FetchBadArg, OldFetch, jobVars, loopVars
<1>6. ASSUME NEW f \in Fetches, Then(f) PROVE Leftover'
  <2>1. f \in Nat
    BY DEF Fetches
  <2>2. Job("react", f) \in Jobs /\ (js.kind = "timer" => Job("react", f).by = "timer")
    BY <1>3, <2>1
  <2>3. CASE jobs' = jobs
    BY <1>1, <1>6, <2>3 DEF Then, loopVars
  <2>4. CASE jobs' = Append(jobs, Job("react", f))
    BY <1>2, <1>6, <2>2, <2>4 DEF Then, loopVars
  <2>. QED BY <1>6, <2>3, <2>4 DEF Then
<1>7. CASE QueueMicrotask
  BY <1>2, <1>3, <1>7 DEF QueueMicrotask, loopVars
<1>8. CASE WakeModule
  BY <1>2, <1>3, <1>8 DEF WakeModule, loopVars
<1>9. CASE ModuleAwait \/ ModuleEnd
  <2>1. phase \in {"eval", "await"} /\ phase' = "await" /\ UNCHANGED <<exit, mainIdle>>
    BY <1>9 DEF ModuleAwait, ModuleEnd, Control, loopVars
  <2>2. exit' = "none"
    BY <2>1 DEF Control
  <2>. QED BY <2>1, <2>2 DEF Leftover
<1>10. CASE AwaitJob \/ CheckJob
  <2>1. phase \in {"await", "check"} /\ UNCHANGED <<phase, exit, mainIdle>>
    BY <1>10 DEF AwaitJob, CheckJob, loopVars
  <2>2. exit' = "none"
    BY <2>1 DEF Control
  <2>. QED BY <2>1, <2>2 DEF Leftover
<1>11. CASE ScriptError
  BY <1>11 DEF ScriptError, Leftover
<1>12. CASE TimerThrow \/ CallbackThrow
  BY <1>12 DEF TimerThrow, CallbackThrow, Leftover
<1>13. CASE StartLoop
  <2>1. phase = "await" /\ phase' = "timers" /\ UNCHANGED <<exit, mainIdle>>
    BY <1>13 DEF StartLoop, loopVars
  <2>2. exit' = "none"
    BY <2>1 DEF Control
  <2>. QED BY <2>1, <2>2 DEF Leftover
<1>14. CASE CheckDone
  <2>1. phase = "check" /\ phase' = "timers" /\ exit' = exit /\ jobs = <<>> /\ jobs' = jobs
    BY <1>14 DEF CheckDone, LeaveCheck, jobVars
  <2>2. exit' = "none" /\ ToSet(jobs') = {}
    BY <2>1, ToSetFacts DEF Control, Types
  <2>. QED BY <2>1, <2>2 DEF Leftover
<1>15. CASE JobThrow
  BY <1>15 DEF JobThrow
<1>16. CASE NextIteration \/ Poll \/ JobReturn \/ (\E t \in Timers : TimerFire(t)) \/ TimerReturn
  BY <1>1, <1>16 DEF NextIteration, Poll, JobReturn, TimerFire, TimerReturn, jobVars, loopVars
<1>17. CASE IdleFetch
  <2>1. phase = "idle" /\ UNCHANGED <<phase, exit, mainIdle>>
    BY <1>17 DEF IdleFetch
  <2>2. exit' = "none"
    BY <2>1 DEF Control
  <2>. QED BY <2>1, <2>2 DEF Leftover
<1>18. CASE LoopExit
  <2>1. phase = "timers" /\ phase' = "exited" /\ ~mainIdle /\ jobs' = jobs
    BY <1>18 DEF LoopExit, TimersDone, LoopAlive, jobVars
  <2>. QED BY <2>1 DEF Leftover
<1>19. CASE UNCHANGED vars
  BY <1>1, <1>19 DEF vars, jobVars, loopVars
<1>. QED
  BY <1>4, <1>5, <1>6, <1>7, <1>8, <1>9, <1>10, <1>11, <1>12, <1>13, <1>14, <1>15,
     <1>16, <1>17, <1>18, <1>19 DEF Next, ScriptCalls, Progress, AwaitSpin, Exited

LEMMA QuietStep ==
    ASSUME Types, Control, Handles, QuietExit, [Next]_vars
    PROVE  QuietExit'
<1>1. ASSUME exit' \notin {"ok", "crash"} PROVE QuietExit'
  BY <1>1 DEF QuietExit
<1>2. exit = "none" \/ phase = "exited"
  BY DEF Control
<1>3. CASE LoopExit
  <2>1. /\ phase = "timers" /\ ~Running /\ idleQ = <<>> /\ UNCHANGED <<mod, timer, fetch>>
        /\ \A t \in Timers : timer[t] # "active"
    BY <1>3 DEF LoopExit, TimersDone, LoopAlive, Active, timerVars, fetchVars
  <2>2. js.kind = "none" /\ exit = "none" /\ mod = "fulfilled"
    BY <2>1, IdleFrame DEF Control, Running
  <2>3. \A t \in Timers : timer[t] # "running"
    BY <2>2 DEF Control
  <2>4. \A f \in Fetches : fetch[f] # "pending"
    BY <2>1, ToSetFacts DEF Handles, Types
  <2>. QED BY <2>1, <2>2, <2>3, <2>4 DEF QuietExit, Types
<1>4. CASE Running /\ exit' = exit
  BY <1>1, <1>4, RunningWhere
<1>5. CASE ScriptCalls
  BY <1>4, <1>5 DEF ScriptCalls, SetTimeout, Fetch, FetchBadArg, OldFetch, NextFetch, Then,
                    QueueMicrotask, WakeModule
<1>6. CASE phase # "exited" /\ exit' = exit
  BY <1>1, <1>2, <1>6
<1>7. CASE ModuleAwait \/ ModuleEnd
  BY <1>6, <1>7 DEF ModuleAwait, ModuleEnd, Control
<1>8. CASE AwaitJob \/ StartLoop \/ (\E t \in Timers : TimerFire(t)) \/ TimerReturn
  BY <1>6, <1>8 DEF AwaitJob, StartLoop, TimerFire, TimerReturn, Control
<1>9. CASE NextIteration \/ IdleFetch \/ Poll \/ CheckJob \/ JobReturn \/ CheckDone \/ JobThrow
  BY <1>6, <1>9 DEF NextIteration, TimersDone, IdleFetch, Poll, CheckJob, JobReturn,
                    CheckDone, JobThrow, LeaveCheck, Control
<1>10. CASE ScriptError \/ TimerThrow \/ CallbackThrow
  BY <1>1, <1>10 DEF ScriptError, TimerThrow, CallbackThrow
<1>11. CASE UNCHANGED vars
  BY <1>11 DEF QuietExit, vars, timerVars, fetchVars
<1>. QED
  BY <1>3, <1>5, <1>7, <1>8, <1>9, <1>10, <1>11 DEF Next, Progress, AwaitSpin, Exited

-----------------------------------------------------------------------------
(* The theorems *)

LEMMA InvInit == Init => Inv
<1>. SUFFICES ASSUME Init PROVE Inv
  OBVIOUS
<1>. USE RuntimeAssumption DEF Init
<1>1. /\ \A S : <<>> \in Seq(S)
      /\ DOMAIN <<>> = {}
  BY EmptySeq
<1>2. ToSet(<<>>) = {}
  BY <1>1, ToSetDef
<1>3. Frame("script", 0, "loop") \in Frames
  BY DEF Frame, Frames, Makers
<1>4. Types
  BY <1>1, <1>3 DEF Types, Phases, Exits, ModStates
<1>5. Control
  BY IdleFrame DEF Control, InModule, Frame
<1>6. ModuleJobs
  BY <1>1 DEF ModuleJobs
<1>7. Clock
  BY DEF Clock, Active
<1>8. Handles
  BY <1>1, <1>2 DEF Handles, NewestFirst
<1>9. Memory /\ Leftover /\ QuietExit
  BY DEF Memory, Leftover, QuietExit
<1>. QED BY <1>4, <1>5, <1>6, <1>7, <1>8, <1>9 DEF Inv

LEMMA InvStep == Inv /\ [Next]_vars => Inv'
  BY TypesStep, ControlStep, ModuleJobsStep, ClockStep, HandlesStep, MemoryStep,
     LeftoverStep, QuietStep DEF Inv

\* Inv is an invariant.
THEOREM Invariance == Spec => []Inv
  BY InvInit, InvStep, PTL DEF Spec

\* Every variable keeps its type, and the cached clock stays within one delay
\* before and two readings after every due time, however uv_run's phases follow
\* each other.
THEOREM TypeCorrect == Spec => []TypeOK
<1>1. Inv => TypeOK
  <2>1. SUFFICES ASSUME Inv PROVE TypeOK
    OBVIOUS
  <2>2. Types /\ Clock
    BY <2>1 DEF Inv
  <2>3. \A t \in Timers : rem[t] \in (-2 * MaxLag)..Delay
    BY <2>2, RuntimeAssumption DEF Types, Clock
  <2>4. rem \in [Timers -> (-2 * MaxLag)..Delay]
    BY <2>2, <2>3 DEF Types
  <2>. QED BY <2>2, <2>4 DEF Types, TypeOK
<1>. QED BY <1>1, Invariance, PTL

\* No timer or idle callback reaches memory that was freed, and a fetch has a
\* registered handle exactly while it is pending.
THEOREM MemorySafe == Spec => []NoDangling
<1>1. Inv => NoDangling
  <2>1. SUFFICES ASSUME Inv PROVE NoDangling
    OBVIOUS
  <2>2. Types /\ Handles /\ Memory
    BY <2>1 DEF Inv
  <2>3. ToSet(idleQ) \subseteq Fetches /\ ToSet(batch) \subseteq Fetches
    BY <2>2, ToSetFacts DEF Types
  <2>. QED BY <2>2, <2>3 DEF Handles, Memory, NoDangling
<1>. QED BY <1>1, Invariance, PTL

\* A process that ends without an error has delivered every timer and fetch.
THEOREM ExitsQuietly == Spec => []QuietExit
<1>1. Inv => QuietExit
  BY DEF Inv
<1>. QED BY <1>1, Invariance, PTL

\* At an orderly end only the allocations that no code ever frees are left.
THEOREM LeaksAreKnown == Spec => []OnlyKnownLeaks
<1>1. Inv => OnlyKnownLeaks
  <2>1. SUFFICES ASSUME Inv, exit \in {"ok", "crash"} PROVE OnlyKnownLeaks
    BY DEF OnlyKnownLeaks
  <2>2. Types /\ Memory /\ QuietExit
    BY <2>1 DEF Inv
  <2>3. \A t \in Timers : tmem[t] \subseteq {"func", "handle"}
    BY <2>1, <2>2 DEF Memory, QuietExit
  <2>4. ASSUME NEW f \in Fetches
        PROVE  fmem[f] \subseteq IF fetch[f] = "bad" THEN {"funcs", "values"}
                                 ELSE {"funcs", "handle"}
    <3>1. fetch[f] \in {"unused", "settled", "sync", "bad"}
      BY <2>1, <2>2 DEF Types, QuietExit
    <3>. QED BY <2>2, <3>1 DEF Memory
  <2>. QED BY <2>3, <2>4 DEF OnlyKnownLeaks
<1>. QED BY <1>1, Invariance, PTL

\* While no job throws, only jobs made by timer callbacks are lost at the end.
THEOREM LossIsBounded == Spec => []OnlyTimerJobsLost
<1>1. Inv => OnlyTimerJobsLost
  BY DEF Inv, Leftover, OnlyTimerJobsLost
<1>. QED BY <1>1, Invariance, PTL

-----------------------------------------------------------------------------
(* Orders of delivery *)

\* An active timer changes only when it fires.
LEMMA ActiveTimerStep ==
    ASSUME Inv, [Next]_vars, NEW t \in Timers, Active(t), timer'[t] # "active"
    PROVE  TimerFire(t)
<1>. USE DEF Active
<1>1. Types /\ Control
  BY DEF Inv
<1>2. ASSUME NEW u \in Timers, SetTimeout(u) PROVE FALSE
  BY <1>1, <1>2 DEF SetTimeout, Types
<1>3. ASSUME NEW u \in Timers, TimerFire(u) PROVE TimerFire(t)
  BY <1>1, <1>3 DEF TimerFire, Types
<1>4. CASE TimerReturn
  BY <1>1, <1>4 DEF TimerReturn, Control, Types
<1>5. CASE (\E f \in Fetches : Fetch(f) \/ FetchBadArg(f) \/ OldFetch(f) \/ Then(f))
           \/ QueueMicrotask \/ WakeModule
  BY <1>5 DEF Fetch, FetchBadArg, OldFetch, Then, QueueMicrotask, WakeModule, timerVars
<1>6. CASE ModuleAwait \/ ModuleEnd \/ AwaitJob \/ ScriptError \/ StartLoop
  BY <1>6 DEF ModuleAwait, ModuleEnd, AwaitJob, ScriptError, StartLoop, timerVars
<1>7. CASE TimerThrow \/ CallbackThrow \/ NextIteration \/ IdleFetch \/ Poll \/ CheckJob \/ JobReturn \/ LoopExit
  BY <1>7 DEF TimerThrow, CallbackThrow, NextIteration, IdleFetch, Poll, CheckJob, JobReturn, LoopExit, timerVars
<1>8. CASE CheckDone \/ JobThrow
  BY <1>8 DEF CheckDone, JobThrow, LeaveCheck, timerVars
<1>9. CASE UNCHANGED vars
  BY <1>9 DEF vars, timerVars
<1>. QED
  BY <1>2, <1>3, <1>4, <1>5, <1>6, <1>7, <1>8, <1>9
     DEF Next, ScriptCalls, Progress, AwaitSpin, Exited

\* The timer that fires is the oldest active one.
LEMMA OldestFires ==
    ASSUME Inv, NEW t \in Timers, TimerFire(t)
    PROVE  \A u \in Timers : u < t => ~Active(u)
<1>1. SUFFICES ASSUME NEW u \in Timers, u < t, Active(u) PROVE FALSE
  OBVIOUS
<1>2. Active(t) /\ (rem[t] < rem[u] \/ (rem[t] = rem[u] /\ t <= u))
  BY <1>1 DEF TimerFire, FirstDue
<1>3. rem[u] <= rem[t] /\ rem[t] \in Int /\ rem[u] \in Int
  BY <1>1, <1>2 DEF Inv, Clock, Types
<1>. QED BY <1>1, <1>2, <1>3 DEF Timers

\* Timers fire in the order of the setTimeout calls, whatever the clock does.
THEOREM TimersInOrder == Spec => TimersFireInOrder
<1>. DEFINE A == \A t \in Timers : timer[t] = "active" /\ timer'[t] # "active"
                    => \A u \in 1..(t - 1) : timer[u] # "active"
<1>1. Inv /\ [Next]_vars => A
  <2>1. SUFFICES ASSUME Inv, [Next]_vars, NEW t \in Timers,
                        timer[t] = "active", timer'[t] # "active", NEW u \in 1..(t - 1)
                 PROVE  timer[u] # "active"
    OBVIOUS
  <2>2. TimerFire(t)
    BY <2>1, ActiveTimerStep DEF Active
  <2>3. u \in Timers /\ u < t
    BY <2>1, RuntimeAssumption DEF Timers
  <2>. QED BY <2>1, <2>2, <2>3, OldestFires DEF Active
<1>. HIDE DEF A
<1>2. Inv /\ [Next]_vars => [A]_vars
  BY <1>1
<1>3. Spec => [][A]_vars
  BY <1>2, Invariance, PTL DEF Spec
<1>. QED BY <1>3 DEF TimersFireInOrder, A

\* A pending fetch changes only when its idle callback runs.
LEMMA PendingFetchStep ==
    ASSUME Inv, [Next]_vars, NEW f \in Fetches, fetch[f] = "pending", fetch'[f] # "pending"
    PROVE  IdleFetch /\ f = Head(batch)
<1>1. Types /\ Handles
  BY DEF Inv
<1>2. ASSUME NEW g \in Fetches, Fetch(g) \/ FetchBadArg(g) \/ OldFetch(g) PROVE FALSE
  BY <1>1, <1>2 DEF Fetch, FetchBadArg, OldFetch, NextFetch, Types
<1>3. CASE IdleFetch
  BY <1>1, <1>3 DEF IdleFetch, Types
<1>4. CASE (\E g \in Fetches : Then(g)) \/ (\E t \in Timers : SetTimeout(t) \/ TimerFire(t))
           \/ QueueMicrotask \/ WakeModule
  BY <1>4 DEF Then, SetTimeout, TimerFire, QueueMicrotask, WakeModule, fetchVars
<1>5. CASE ModuleAwait \/ ModuleEnd \/ AwaitJob \/ ScriptError \/ StartLoop
  BY <1>5 DEF ModuleAwait, ModuleEnd, AwaitJob, ScriptError, StartLoop, fetchVars
<1>6. CASE TimerReturn \/ TimerThrow \/ CallbackThrow \/ NextIteration \/ Poll \/ CheckJob \/ JobReturn \/ LoopExit
  BY <1>6 DEF TimerReturn, TimerThrow, CallbackThrow, NextIteration, Poll, CheckJob, JobReturn, LoopExit, fetchVars
<1>7. CASE CheckDone \/ JobThrow
  BY <1>7 DEF CheckDone, JobThrow, LeaveCheck, fetchVars
<1>8. CASE UNCHANGED vars
  BY <1>8 DEF vars, fetchVars
<1>. QED
  BY <1>2, <1>3, <1>4, <1>5, <1>6, <1>7, <1>8
     DEF Next, ScriptCalls, Progress, AwaitSpin, Exited

\* Fetches settle newest first, across iterations of the loop as well as in one.
THEOREM FetchesInOrder == Spec => FetchesSettleNewestFirst
<1>. DEFINE A == \A f \in Fetches : fetch[f] = "pending" /\ fetch'[f] # "pending"
                    => \A g \in (f + 1)..MaxFetches : fetch[g] # "pending"
<1>1. Inv /\ [Next]_vars => A
  <2>1. SUFFICES ASSUME Inv, [Next]_vars, NEW f \in Fetches, fetch[f] = "pending",
                        fetch'[f] # "pending", NEW g \in (f + 1)..MaxFetches,
                        fetch[g] = "pending"
                 PROVE  FALSE
    OBVIOUS
  <2>2. IdleFetch /\ f = Head(batch)
    BY <2>1, PendingFetchStep
  <2>3. phase = "idle" /\ batch # <<>>
    BY <2>2 DEF IdleFetch
  <2>4. \A h \in Fetches : fetch[h] = "pending" => h <= f
    BY <2>1, <2>2, <2>3, BatchHead DEF Inv
  <2>5. g \in Fetches /\ g > f
    BY <2>1, RuntimeAssumption DEF Fetches
  <2>6. g <= f
    BY <2>1, <2>4, <2>5
  <2>. QED BY <2>5, <2>6, RuntimeAssumption DEF Fetches
<1>. HIDE DEF A
<1>2. Inv /\ [Next]_vars => [A]_vars
  BY <1>1
<1>3. Spec => [][A]_vars
  BY <1>2, Invariance, PTL DEF Spec
<1>. QED BY <1>3 DEF FetchesSettleNewestFirst, A

-----------------------------------------------------------------------------
(* Runtime implements HostTasks *)

\* The abstract stage of a state, phase by phase.
LEMMA StageOf ==
    ASSUME Types, Control
    PROVE  /\ phase \in {"eval", "await"} => Stage = "script"
           /\ phase \in {"timers", "idle", "check"} => Stage = "serving"
           /\ exit \in {"ok", "crash"} => Stage = "closed"
           /\ exit \in {"script_error", "timer_error", "callback_error"} => Stage = "aborted"
  BY DEF Types, Control, Stage, Phases, Exits

\* A step that changes no task and stays in its stage is no abstract step.
LEMMA SameTasks ==
    ASSUME Inv, Inv', UNCHANGED timer, UNCHANGED fetch, UNCHANGED exit,
           phase' = phase \/ (phase = "eval" /\ phase' = "await")
                \/ {phase, phase'} \subseteq {"timers", "idle", "check"}
    PROVE  UNCHANGED Host!taskVars
<1>1. TimerTask' = TimerTask /\ FetchTask' = FetchTask
  BY DEF TimerTask, FetchTask
<1>2. Stage' = Stage
  BY DEF Stage
<1>. QED BY <1>1, <1>2 DEF Host!taskVars

\* Nor does it become one because a timer's function returns, or because a
\* fetch is refused or made at once.
LEMMA HiddenChanges ==
    ASSUME Inv, Inv', UNCHANGED phase, UNCHANGED exit,
           \A t \in Timers : \/ timer'[t] = timer[t]
                             \/ {timer[t], timer'[t]} \subseteq {"running", "done"},
           \A f \in Fetches : \/ fetch'[f] = fetch[f]
                              \/ {fetch[f], fetch'[f]} \subseteq {"unused", "sync", "bad"}
    PROVE  UNCHANGED Host!taskVars
<1>1. TimerTask' = TimerTask
  BY DEF TimerTask
<1>2. FetchTask' = FetchTask
  BY DEF FetchTask
<1>3. Stage' = Stage
  BY DEF Stage
<1>. QED BY <1>1, <1>2, <1>3 DEF Host!taskVars

LEMMA HostInit == Init => Host!TasksInit
  BY DEF Init, Host!TasksInit, Stage, TimerTask, FetchTask

\* Every step of the runtime is a step of HostTasks or changes nothing in it.
LEMMA HostStep ==
    ASSUME Inv, Inv', [Next]_vars
    PROVE  [Host!TasksNext]_Host!taskVars
<1>1. Types /\ Control /\ Types' /\ Control' /\ Handles /\ Clock /\ Memory
  BY DEF Inv
<1>2. /\ phase \in {"eval", "await"} => Stage = "script"
      /\ phase \in {"timers", "idle", "check"} => Stage = "serving"
      /\ exit \in {"ok", "crash"} => Stage = "closed"
      /\ exit \in {"script_error", "timer_error", "callback_error"} => Stage = "aborted"
  BY <1>1, StageOf
<1>3. Running => Stage \in {"script", "serving"}
  BY <1>1, <1>2, RunningWhere DEF Types, Phases
<1>4. /\ TimerTask \in [Timers -> {"new", "registered", "delivered"}]
      /\ FetchTask \in [Fetches -> {"new", "registered", "delivered"}]
      /\ TimerTask' \in [Timers -> {"new", "registered", "delivered"}]
      /\ FetchTask' \in [Fetches -> {"new", "registered", "delivered"}]
  BY DEF TimerTask, FetchTask
<1>5. ASSUME NEW t \in Timers, SetTimeout(t) PROVE Host!RegisterTimer(t)
  <2>1. /\ timer[t] = "unused" /\ Running
        /\ \A u \in Timers : timer'[u] = IF u = t THEN "active" ELSE timer[u]
        /\ UNCHANGED <<phase, exit, fetch>>
    BY <1>1, <1>5 DEF SetTimeout, Types, fetchVars
  <2>2. TimerTask' = [TimerTask EXCEPT ![t] = "registered"] /\ TimerTask[t] = "new"
    BY <1>4, <2>1 DEF TimerTask
  <2>3. FetchTask' = FetchTask /\ Stage' = Stage
    BY <2>1 DEF FetchTask, Stage
  <2>. QED BY <1>3, <2>1, <2>2, <2>3 DEF Host!RegisterTimer, Host!Open
<1>6. ASSUME NEW f \in Fetches, Fetch(f) PROVE Host!RegisterFetch(f)
  <2>1. /\ fetch[f] = "unused" /\ Running
        /\ \A g \in Fetches : fetch'[g] = IF g = f THEN "pending" ELSE fetch[g]
        /\ UNCHANGED <<phase, exit, timer>>
    BY <1>1, <1>6 DEF Fetch, NextFetch, Types, timerVars
  <2>2. \A g \in Fetches : FetchTask'[g] = IF g = f THEN "registered" ELSE FetchTask[g]
    BY <2>1 DEF FetchTask
  <2>3. FetchTask' = [FetchTask EXCEPT ![f] = "registered"]
    BY <1>4, <2>2
  <2>4. FetchTask[f] = "new"
    BY <2>1 DEF FetchTask
  <2>5. TimerTask' = TimerTask /\ Stage' = Stage
    BY <2>1 DEF TimerTask, Stage
  <2>. QED BY <1>3, <2>1, <2>3, <2>4, <2>5 DEF Host!RegisterFetch, Host!Open
<1>7. ASSUME NEW f \in Fetches, FetchBadArg(f) \/ OldFetch(f) PROVE UNCHANGED Host!taskVars
  <2>1. /\ fetch[f] = "unused" /\ UNCHANGED <<phase, exit, timer>>
        /\ \A g \in Fetches : g # f => fetch'[g] = fetch[g]
        /\ fetch'[f] \in {"sync", "bad"}
    BY <1>1, <1>7 DEF FetchBadArg, OldFetch, NextFetch, Types, timerVars
  <2>. QED BY <2>1, HiddenChanges
<1>8. CASE (\E f \in Fetches : Then(f)) \/ QueueMicrotask \/ WakeModule
  BY <1>8, SameTasks DEF Then, QueueMicrotask, WakeModule, timerVars, fetchVars
<1>9. CASE ModuleAwait \/ ModuleEnd
  BY <1>1, <1>9, SameTasks DEF ModuleAwait, ModuleEnd, Control, timerVars, fetchVars
<1>10. CASE AwaitJob \/ CheckJob \/ JobReturn
  BY <1>10, SameTasks DEF AwaitJob, CheckJob, JobReturn, timerVars, fetchVars
<1>11. CASE ScriptError
  <2>1. /\ phase = "await" /\ phase' = "exited" /\ exit' = "script_error"
        /\ UNCHANGED <<timer, fetch>>
    BY <1>11 DEF ScriptError, timerVars, fetchVars
  <2>2. Stage = "script" /\ Stage' = "aborted" /\ TimerTask' = TimerTask /\ FetchTask' = FetchTask
    BY <1>2, <2>1 DEF Stage, TimerTask, FetchTask
  <2>. QED BY <2>2 DEF Host!TasksNext, Host!Abort, Host!Open
<1>12. CASE StartLoop
  <2>1. /\ phase = "await" /\ phase' = "timers" /\ UNCHANGED <<exit, timer, fetch>>
    BY <1>12 DEF StartLoop, fetchVars
  <2>2. exit' = "none"
    BY <1>1, <2>1 DEF Control
  <2>3. Stage = "script" /\ Stage' = "serving" /\ TimerTask' = TimerTask /\ FetchTask' = FetchTask
    BY <1>2, <2>1, <2>2 DEF Stage, TimerTask, FetchTask
  <2>. QED BY <2>3 DEF Host!TasksNext, Host!Serve
<1>13. ASSUME NEW t \in Timers, TimerFire(t) PROVE Host!DeliverTimer(t)
  <2>1. /\ timer[t] = "active" /\ phase = "timers"
        /\ \A u \in Timers : timer'[u] = IF u = t THEN "running" ELSE timer[u]
        /\ UNCHANGED <<phase, exit, fetch>>
    BY <1>1, <1>13 DEF TimerFire, Expired, Active, Types, fetchVars
  <2>2. TimerTask' = [TimerTask EXCEPT ![t] = "delivered"] /\ TimerTask[t] = "registered"
    BY <1>4, <2>1 DEF TimerTask
  <2>3. FetchTask' = FetchTask /\ Stage' = Stage /\ Stage = "serving"
    BY <1>2, <2>1 DEF FetchTask, Stage
  <2>4. \A u \in Timers : u < t => timer[u] # "active"
    BY <1>13, OldestFires DEF Active
  <2>5. \A u \in Timers : u < t => TimerTask[u] # "registered"
    BY <1>1, <2>4 DEF TimerTask, Types
  <2>. QED BY <2>2, <2>3, <2>5 DEF Host!DeliverTimer
<1>14. CASE TimerReturn
  <2>1. /\ js.of \in Timers /\ timer[js.of] = "running"
        /\ \A u \in Timers : timer'[u] = IF u = js.of THEN "done" ELSE timer[u]
        /\ UNCHANGED <<phase, exit, fetch>>
    BY <1>1, <1>14 DEF TimerReturn, Control, Types, fetchVars
  <2>. QED BY <2>1, HiddenChanges
<1>15. CASE TimerThrow
  <2>1. /\ phase = "timers" /\ phase' = "exited" /\ exit' = "timer_error"
        /\ UNCHANGED <<timer, fetch>>
    BY <1>1, <1>15 DEF TimerThrow, Control, timerVars, fetchVars
  <2>2. Stage = "serving" /\ Stage' = "aborted" /\ TimerTask' = TimerTask /\ FetchTask' = FetchTask
    BY <1>2, <2>1 DEF Stage, TimerTask, FetchTask
  <2>. QED BY <2>2 DEF Host!TasksNext, Host!Abort, Host!Open
<1>23. CASE CallbackThrow
  <2>1. Running /\ phase' = "exited" /\ exit' = "callback_error" /\ UNCHANGED <<timer, fetch>>
    BY <1>23 DEF CallbackThrow, timerVars, fetchVars
  <2>2. TimerTask' = TimerTask /\ FetchTask' = FetchTask
    BY <2>1 DEF TimerTask, FetchTask
  <2>4. Stage' = "aborted"
    BY <2>1 DEF Stage
  <2>3. Stage \in {"script", "serving"}
    BY <1>3, <2>1
  <2>. QED BY <2>2, <2>3, <2>4 DEF Host!TasksNext, Host!Abort, Host!Open
<1>16. CASE NextIteration \/ Poll \/ CheckDone
  BY <1>16, SameTasks DEF NextIteration, TimersDone, Poll, CheckDone, LeaveCheck, timerVars, fetchVars
<1>17. CASE JobThrow
  BY <1>17, SameTasks DEF JobThrow, LeaveCheck, timerVars, fetchVars
<1>18. CASE IdleFetch
  <2>. DEFINE f == Head(batch)
  <2>1. phase = "idle" /\ batch # <<>> /\ UNCHANGED <<phase, exit, timer>>
    BY <1>18 DEF IdleFetch, timerVars
  <2>2. /\ f \in Fetches /\ fetch[f] = "pending"
        /\ \A g \in Fetches : fetch[g] = "pending" => g <= f
    BY <1>1, <2>1, BatchHead
  <2>3. \A g \in Fetches : fetch'[g] = IF g = f THEN "settled" ELSE fetch[g]
    BY <1>1, <1>18 DEF IdleFetch, Types
  <2>. HIDE DEF f
  <2>4. FetchTask' = [FetchTask EXCEPT ![f] = "delivered"] /\ FetchTask[f] = "registered"
    BY <1>4, <2>2, <2>3 DEF FetchTask
  <2>5. TimerTask' = TimerTask /\ Stage' = Stage /\ Stage = "serving"
    BY <1>2, <2>1 DEF TimerTask, Stage
  <2>6. \A g \in Fetches : g > f => fetch[g] # "pending"
    BY <2>2 DEF Fetches
  <2>7. \A g \in Fetches : g > f => FetchTask[g] # "registered"
    BY <2>6 DEF FetchTask
  <2>8. Host!DeliverFetch(f)
    BY <2>4, <2>5, <2>7 DEF Host!DeliverFetch
  <2>. QED BY <2>2, <2>8 DEF Host!TasksNext
<1>19. CASE LoopExit
  <2>1. /\ phase = "timers" /\ phase' = "exited" /\ exit' \in {"ok", "crash"}
        /\ UNCHANGED <<timer, fetch>>
    BY <1>19 DEF LoopExit, TimersDone, timerVars, fetchVars
  <2>2. Stage = "serving" /\ Stage' = "closed" /\ TimerTask' = TimerTask /\ FetchTask' = FetchTask
    BY <1>2, <2>1 DEF Stage, TimerTask, FetchTask
  <2>3. /\ \A t \in Timers : timer[t] \in {"unused", "done"}
        /\ \A f \in Fetches : fetch[f] # "pending"
    <3>1. QuietExit'
      BY DEF Inv
    <3>. QED BY <2>1, <3>1 DEF QuietExit
  <2>4. /\ \A t \in Timers : TimerTask[t] # "registered"
        /\ \A f \in Fetches : FetchTask[f] # "registered"
    BY <2>3 DEF TimerTask, FetchTask
  <2>. QED BY <2>2, <2>4 DEF Host!TasksNext, Host!Close
<1>20. CASE UNCHANGED vars
  BY <1>20, SameTasks DEF vars, timerVars, fetchVars
<1>21. CASE ScriptCalls
  BY <1>5, <1>6, <1>7, <1>8, <1>21 DEF ScriptCalls, Host!TasksNext
<1>22. CASE \E t \in Timers : TimerFire(t)
  BY <1>13, <1>22 DEF Host!TasksNext
<1>. QED
  BY <1>9, <1>10, <1>11, <1>12, <1>14, <1>15, <1>16, <1>17, <1>18, <1>19, <1>20, <1>21, <1>22, <1>23
     DEF Next, Progress, AwaitSpin, Exited

\* The runtime keeps the promise HostTasks states: nothing delivered before the
\* module is evaluated, nothing twice, timers oldest first, fetches newest
\* first, and a good end only when nothing is left.
THEOREM Implements == Spec => HostSpec
<1>1. Init => Host!TasksInit
  BY HostInit
<1>2. Inv /\ Inv' /\ [Next]_vars => [Host!TasksNext]_Host!taskVars
  BY HostStep
<1>3. Spec => Host!TasksSpec
  BY <1>1, <1>2, Invariance, PTL DEF Spec, Host!TasksSpec
<1>. QED BY <1>3 DEF HostSpec

=============================================================================
