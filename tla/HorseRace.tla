----------------------------- MODULE HorseRace -----------------------------
(***************************************************************************)
(* The horse race (src/learn/libuv/08_horse_race.c).                       *)
(*                                                                         *)
(* main and the loop are one thread; each horse is run by a thread of      *)
(* libuv's pool, which may start as soon as main has queued it.  A thread  *)
(* moves its horse and sends the horse's async handle; when it is done,    *)
(* libuv lists the work as finished and sends a handle of its own, which   *)
(* comes before the horses' in every scan.  Sending a handle that is       *)
(* pending already does nothing, so that several moves may be drawn once.  *)
(*                                                                         *)
(* How long a horse sleeps between two moves is left open.                 *)
(***************************************************************************)
EXTENDS Naturals, Sequences, FiniteSets

CONSTANTS
    TRACKS,         \* horses
    POOL,           \* the threads that THREADS asks libuv for
    TRACK_WIDTH     \* moves of a horse

ASSUME HorseAssumption ==
    TRACKS \in Nat \ {0} /\ POOL \in Nat \ {0} /\ TRACK_WIDTH \in Nat \ {0}

Horses == 0..(TRACKS - 1)

\* libuv's own handle in a scan; a horse's is its track.
Wq == TRACKS

VARIABLES
    race,       \* main is "adding" horses, in the "loop", or has "ended"
    work,       \* a horse's work: "none", "queued", "running", "moved" (before
                \* the send), "finished" (listed by libuv) or "reported"
    workQueue,  \* the works that no thread has taken
    finished,   \* the works that libuv has listed as finished
    taken,      \* those of them that the loop has taken to run their callbacks
    wqSent,     \* libuv's own handle is pending
    async,      \* a horse's handle: "none", "active", "closing" or "closed"
    sent,       \* the horses whose handle is pending
    scan,       \* the handles that the loop has yet to look at in this scan
    position,   \* horse->position
    drawn,      \* where a horse was drawn last
    placement,  \* placement
    place,      \* the place that was printed for a horse, 0 if none
    arrivals    \* history: the horses in the order their threads were done

threadVars == <<work, workQueue, position>>
poolVars   == <<finished, taken, wqSent>>
loopVars   == <<async, drawn, placement, place>>
horseVars  == <<race, threadVars, poolVars, loopVars, sent, scan, arrivals>>

HorseInit ==
    /\ race = "adding"
    /\ work = [h \in Horses |-> "none"]
    /\ workQueue = <<>>
    /\ finished = <<>> /\ taken = <<>>
    /\ wqSent = FALSE
    /\ async = [h \in Horses |-> "none"]
    /\ sent = {}
    /\ scan = <<>>
    /\ position = [h \in Horses |-> 0]
    /\ drawn = [h \in Horses |-> 0]
    /\ placement = 1
    /\ place = [h \in Horses |-> 0]
    /\ arrivals = <<>>

-----------------------------------------------------------------------------
(* main *)

\* main adds the horses one after another.
Adding(h) == race = "adding" /\ \A g \in Horses : g < h => work[g] # "none"

\* Mutant: the work may be queued before the handle is there.
QueuedEarly(h) == TRUE

\* add_horse queues the work after uv_async_init.
MayQueue(h) == async[h] # "none"

\* add_horse: uv_async_init
InitAsync(h) ==
    /\ Adding(h)
    /\ async[h] = "none"
    /\ async' = [async EXCEPT ![h] = "active"]
    /\ UNCHANGED <<race, threadVars, poolVars, drawn, placement, place, sent, scan, arrivals>>

\* add_horse: uv_queue_work
QueueWork(h) ==
    /\ Adding(h)
    /\ work[h] = "none"
    /\ MayQueue(h)
    /\ work' = [work EXCEPT ![h] = "queued"]
    /\ workQueue' = Append(workQueue, h)
    /\ UNCHANGED <<race, position, poolVars, loopVars, sent, scan, arrivals>>

\* uv_run
RunLoop ==
    /\ race = "adding"
    /\ \A h \in Horses : work[h] # "none" /\ async[h] # "none"
    /\ race' = "loop"
    /\ UNCHANGED <<threadVars, poolVars, loopVars, sent, scan, arrivals>>

-----------------------------------------------------------------------------
(* The threads *)

Running == {h \in Horses : work[h] \in {"running", "moved"}}

\* The threads of the pool.
Pool == POOL

\* A thread takes the work that was queued first.
TakeWork(h) ==
    /\ race # "ended"
    /\ workQueue # <<>> /\ h = Head(workQueue)
    /\ Cardinality(Running) < Pool
    /\ workQueue' = Tail(workQueue)
    /\ work' = [work EXCEPT ![h] = "running"]
    /\ UNCHANGED <<race, position, poolVars, loopVars, sent, scan, arrivals>>

\* race_cb: horse->position++
Gallop(h) ==
    /\ race # "ended"
    /\ work[h] = "running" /\ position[h] < TRACK_WIDTH
    /\ position' = [position EXCEPT ![h] = @ + 1]
    /\ work' = [work EXCEPT ![h] = "moved"]
    /\ UNCHANGED <<race, workQueue, poolVars, loopVars, sent, scan, arrivals>>

\* Mutant: only the last move is reported.
LastMove(h) == IF position[h] = TRACK_WIDTH THEN {h} ELSE {}

\* The handles that race_cb sends after a move.
Sends(h) == {h}

\* race_cb: uv_async_send
SendProgress(h) ==
    /\ race # "ended"
    /\ work[h] = "moved"
    /\ sent' = sent \cup Sends(h)
    /\ work' = [work EXCEPT ![h] = "running"]
    /\ UNCHANGED <<race, workQueue, position, poolVars, loopVars, scan, arrivals>>

\* race_cb returns, and libuv lists the work.
FinishWork(h) ==
    /\ race # "ended"
    /\ work[h] = "running" /\ position[h] = TRACK_WIDTH
    /\ work' = [work EXCEPT ![h] = "finished"]
    /\ finished' = Append(finished, h)
    /\ wqSent' = TRUE
    /\ arrivals' = Append(arrivals, h)
    /\ UNCHANGED <<race, workQueue, position, taken, loopVars, sent, scan>>

HorseThread(h) == TakeWork(h) \/ Gallop(h) \/ SendProgress(h) \/ FinishWork(h)

-----------------------------------------------------------------------------
(* The loop *)

\* The loop is woken by a pending handle and goes through all of them.
Wake ==
    /\ race = "loop" /\ scan = <<>>
    /\ wqSent \/ \E h \in sent : async[h] = "active"
    /\ scan' = <<Wq>> \o [i \in 1..TRACKS |-> i - 1]
    /\ UNCHANGED <<race, threadVars, poolVars, loopVars, sent, arrivals>>

\* libuv's own handle is pending: the loop takes the list of the finished works.
TakeFinished ==
    /\ scan # <<>> /\ Head(scan) = Wq
    /\ wqSent
    /\ wqSent' = FALSE
    /\ taken' = finished /\ finished' = <<>>
    /\ scan' = Tail(scan)
    /\ UNCHANGED <<race, threadVars, loopVars, sent, arrivals>>

\* Mutant: the handle is left open.
LeftOpen == "active"

\* uv_close
Close == "closing"

\* Mutant: the counter is increased before it is printed.
Preincrement == placement + 1

\* The place that is printed: placement++
ThisPlace == placement

\* finished_race_cb, for one of the works that libuv took.
FinishedRace ==
    /\ taken # <<>>
    /\ LET h == Head(taken) IN
         /\ taken' = Tail(taken)
         /\ work' = [work EXCEPT ![h] = "reported"]
         /\ place' = [place EXCEPT ![h] = ThisPlace]
         /\ async' = [async EXCEPT ![h] = Close]
    /\ placement' = placement + 1
    /\ UNCHANGED <<race, workQueue, position, finished, wqSent, drawn, sent, scan, arrivals>>

\* progress_cb, for a handle that is pending and not closed.
Progress(h) ==
    /\ taken = <<>>
    /\ scan # <<>> /\ Head(scan) = h
    /\ h \in sent /\ async[h] = "active"
    /\ sent' = sent \ {h}
    /\ drawn' = [drawn EXCEPT ![h] = position[h]]
    /\ scan' = Tail(scan)
    /\ UNCHANGED <<race, threadVars, poolVars, async, placement, place, arrivals>>

\* The loop passes a handle that is not pending, or closed.
NextHandle ==
    /\ taken = <<>>
    /\ scan # <<>>
    /\ IF Head(scan) = Wq THEN ~wqSent
       ELSE ~(Head(scan) \in sent /\ async[Head(scan)] = "active")
    /\ scan' = Tail(scan)
    /\ UNCHANGED <<race, threadVars, poolVars, loopVars, sent, arrivals>>

\* The closing handles are closed at the end of an iteration.
CloseHandles ==
    /\ race = "loop" /\ scan = <<>> /\ taken = <<>>
    /\ \E h \in Horses : async[h] = "closing"
    /\ async' = [h \in Horses |-> IF async[h] = "closing" THEN "closed" ELSE async[h]]
    /\ UNCHANGED <<race, threadVars, poolVars, drawn, placement, place, sent, scan, arrivals>>

\* Nothing is active any more.
EndRace ==
    /\ race = "loop" /\ scan = <<>>
    /\ \A h \in Horses : async[h] = "closed" /\ work[h] = "reported"
    /\ race' = "ended"
    /\ UNCHANGED <<threadVars, poolVars, loopVars, sent, scan, arrivals>>

HorseMain ==
    \/ \E h \in Horses : InitAsync(h) \/ QueueWork(h) \/ Progress(h)
    \/ RunLoop
    \/ Wake
    \/ TakeFinished
    \/ FinishedRace
    \/ NextHandle
    \/ CloseHandles
    \/ EndRace

HorseNext == HorseMain \/ \E h \in Horses : HorseThread(h)

HorseSpec == HorseInit /\ [][HorseNext]_horseVars

\* The threads are scheduled by the kernel and a horse's sleeps are finite.
FairHorseSpec ==
    HorseSpec /\ WF_horseVars(HorseMain) /\ \A h \in Horses : WF_horseVars(HorseThread(h))

-----------------------------------------------------------------------------
(* Properties *)

\* Every variable has its type, and no handle is in use that was not made.
HorseTypeOK ==
    /\ race \in {"adding", "loop", "ended"}
    /\ work \in [Horses -> {"none", "queued", "running", "moved", "finished", "reported"}]
    /\ workQueue \in Seq(Horses) /\ finished \in Seq(Horses) /\ taken \in Seq(Horses)
    /\ wqSent \in BOOLEAN
    /\ async \in [Horses -> {"none", "active", "closing", "closed"}]
    /\ sent \subseteq Horses /\ scan \in Seq(0..TRACKS)
    /\ position \in [Horses -> 0..TRACK_WIDTH] /\ drawn \in [Horses -> 0..TRACK_WIDTH]
    /\ placement \in 1..(TRACKS + 1) /\ place \in [Horses -> 0..TRACKS]
    /\ arrivals \in Seq(Horses)

\* The places that are printed are the order in which the threads were done,
\* whatever the loop did meanwhile, and a horse with a place has run its whole
\* track (race_cb, finished_race_cb).
PlacesInOrder ==
    \A h \in Horses : place[h] # 0 =>
        place[h] \in DOMAIN arrivals /\ arrivals[place[h]] = h /\ position[h] = TRACK_WIDTH

\* A thread only sends a handle that was made and is not closed: its work is
\* queued after the one and reported before the other (add_horse, race_cb,
\* finished_race_cb).
SendsOpenHandle == \A h \in Running : async[h] = "active"

\* Once a horse is added the race goes to its end: all horses arrive, get a place
\* and are closed, and the loop with them.
RaceEnds == async[0] # "none" ~> race = "ended" /\ \A h \in Horses : place[h] # 0

\* No move is lost while the handle is open: a horse that is not drawn where it
\* is has a pending handle, or its thread is about to send it.  Once the handle
\* is closed the last moves may stay undrawn (race_cb, progress_cb).
MovesNotLost ==
    \A h \in Horses : async[h] = "active" /\ drawn[h] # position[h] => h \in sent \/ work[h] = "moved"

=============================================================================
