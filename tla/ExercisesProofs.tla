-------------------------- MODULE ExercisesProofs ---------------------------
(***************************************************************************)
(* Proofs about the libuv exercises HorseRace, EchoServer, FileReads and   *)
(* Questions, for every value of their constants.                          *)
(***************************************************************************)
EXTENDS MCExercises, RaceServerProofs, DataLemmas, TLAPS

-----------------------------------------------------------------------------
(* The horse race.  The places are right because the works go through libuv's
   two lists in the order they arrived in: what was placed, what the loop has
   taken and what is listed as finished are one after another the horses that
   have arrived (Order).  The loop takes the list only when it has reported all
   it took before, which the order of the handles in a scan ensures (Scans).  A
   thread's handle is open because its work is not yet reported (Handles), and a
   work is run once (Waiting). *)

Works  == {"none", "queued", "running", "moved", "finished", "reported"}
Asyncs == {"none", "active", "closing", "closed"}

HorseTypes ==
    /\ work \in [Horses -> Works] /\ async \in [Horses -> Asyncs]
    /\ workQueue \in Seq(Horses)
    /\ finished \in Seq(Horses) /\ taken \in Seq(Horses) /\ arrivals \in Seq(Horses)
    /\ scan \in Seq(0..TRACKS)
    /\ position \in [Horses -> Nat] /\ drawn \in [Horses -> Nat]
    /\ placement \in Nat \ {0} /\ place \in [Horses -> Nat]

\* The works in the queue wait for a thread, each once.
Waiting ==
    \A i \in 1..Len(workQueue) :
        /\ work[workQueue[i]] = "queued"
        /\ \A j \in 1..Len(workQueue) : workQueue[i] = workQueue[j] => i = j

\* What has arrived runs no more.
Arrived ==
    \A i \in 1..Len(arrivals) :
        work[arrivals[i]] \in {"finished", "reported"} /\ position[arrivals[i]] = TRACK_WIDTH

Order ==
    /\ Len(arrivals) = placement - 1 + Len(taken) + Len(finished)
    /\ \A i \in 1..Len(taken) : arrivals[placement - 1 + i] = taken[i]
    /\ \A i \in 1..Len(finished) : arrivals[placement - 1 + Len(taken) + i] = finished[i]

Placed ==
    \A h \in Horses : place[h] # 0 => place[h] < placement /\ arrivals[place[h]] = h

\* libuv's handle comes first in a scan, and before any work is taken in it.
Scans ==
    /\ \A i \in 1..Len(scan) : scan[i] = Wq => i = 1 /\ Len(scan) = TRACKS + 1
    /\ taken # <<>> => scan # <<>> /\ scan[1] # Wq

Handles ==
    \A h \in Horses : /\ work[h] # "none" => async[h] # "none"
                      /\ async[h] \in {"closing", "closed"} => work[h] = "reported"
                      /\ async[h] = "none" => drawn[h] = position[h]

HorseIInv ==
    /\ HorseTypes
    /\ Waiting
    /\ Arrived
    /\ Order
    /\ Placed
    /\ Scans
    /\ Handles
    /\ MovesNotLost

LEMMA HorseInitIInv == HorseInit => HorseIInv
<1> SUFFICES ASSUME HorseInit PROVE HorseIInv
  OBVIOUS
<1> USE HorseAssumption DEF HorseInit
<1>1. HorseTypes
  BY DEF HorseTypes, Works, Asyncs
<1>2. Waiting /\ Arrived /\ Order /\ Placed /\ Scans
  BY DEF Waiting, Arrived, Order, Placed, Scans
<1>3. Handles /\ MovesNotLost
  BY DEF Handles, MovesNotLost
<1> QED
  BY <1>1, <1>2, <1>3 DEF HorseIInv

\* A handle is made while no thread runs its horse.
LEMMA InitAsyncIInv ==
  ASSUME HorseIInv, NEW h \in Horses, InitAsync(h)
  PROVE  HorseIInv'
<1> USE DEF HorseIInv, InitAsync, threadVars, poolVars
<1>1. HorseTypes'
  BY DEF HorseTypes, Asyncs
<1>2. Waiting' /\ Arrived' /\ Order' /\ Placed' /\ Scans'
  BY DEF Waiting, Arrived, Order, Placed, Scans
<1>3. Handles' /\ MovesNotLost'
  BY DEF HorseTypes, Handles, MovesNotLost
<1> QED
  BY <1>1, <1>2, <1>3

\* A work is queued that was not in the queue.
LEMMA QueueWorkIInv ==
  ASSUME HorseIInv, NEW h \in Horses, QueueWork(h)
  PROVE  HorseIInv'
<1> USE DEF HorseIInv, QueueWork, MayQueue, poolVars, loopVars
<1>1. HorseTypes'
  BY AppendFacts DEF HorseTypes, Works
<1>2. Waiting'
  <2>1. /\ workQueue' = Append(workQueue, h) /\ Len(workQueue) \in Nat
        /\ Len(workQueue') = Len(workQueue) + 1
        /\ workQueue'[Len(workQueue) + 1] = h
        /\ \A i \in 1..Len(workQueue) : workQueue'[i] = workQueue[i] /\ workQueue[i] \in Horses
    BY SeqFacts, AppendFacts DEF HorseTypes
  <2>2. \A i \in 1..Len(workQueue) : workQueue[i] # h
    BY <2>1 DEF Waiting
  <2>3. \A g \in Horses : work'[g] = IF g = h THEN "queued" ELSE work[g]
    BY DEF HorseTypes
  <2> QED
    BY <2>1, <2>2, <2>3 DEF Waiting
<1>3. Arrived'
  <2>1. \A i \in 1..Len(arrivals) : arrivals[i] \in Horses /\ arrivals[i] # h
    BY SeqFacts DEF HorseTypes, Arrived
  <2> QED
    BY <2>1 DEF Arrived, HorseTypes
<1>4. Order' /\ Placed' /\ Scans'
  BY DEF Order, Placed, Scans
<1>5. Handles' /\ MovesNotLost'
  BY DEF HorseTypes, Handles, MovesNotLost
<1> QED
  BY <1>1, <1>2, <1>3, <1>4, <1>5

\* The thread's work is no longer in the queue.
LEMMA TakeWorkIInv ==
  ASSUME HorseIInv, NEW h \in Horses, TakeWork(h)
  PROVE  HorseIInv'
<1> USE DEF HorseIInv, TakeWork, poolVars, loopVars
<1>1. /\ Len(workQueue) \in Nat \ {0} /\ h = workQueue[1]
      /\ Tail(workQueue) \in Seq(Horses)
      /\ Len(Tail(workQueue)) = Len(workQueue) - 1
      /\ \A i \in 1..(Len(workQueue) - 1) : Tail(workQueue)[i] = workQueue[i + 1]
  BY TailFacts, LenProperties DEF HorseTypes
<1>2. work[h] = "queued"
  BY <1>1 DEF Waiting
<1>3. HorseTypes'
  BY <1>1 DEF HorseTypes, Works
<1>4. Waiting'
  <2>1. \A i \in 1..(Len(workQueue) - 1) :
          workQueue[i + 1] \in Horses /\ workQueue[i + 1] # h /\ work[workQueue[i + 1]] = "queued"
    <3>1. SUFFICES ASSUME NEW i \in 1..(Len(workQueue) - 1)
                   PROVE  /\ workQueue[i + 1] \in Horses /\ workQueue[i + 1] # h
                          /\ work[workQueue[i + 1]] = "queued"
      OBVIOUS
    <3>2. i + 1 \in 1..Len(workQueue) /\ 1 \in 1..Len(workQueue) /\ i + 1 # 1
      BY <1>1
    <3>3. workQueue[i + 1] # workQueue[1] /\ work[workQueue[i + 1]] = "queued"
      BY <3>2 DEF Waiting
    <3>4. workQueue[i + 1] \in Horses
      BY <3>2, SeqFacts DEF HorseTypes
    <3> QED
      BY <1>1, <3>3, <3>4
  <2>2. \A i \in 1..(Len(workQueue) - 1) : work'[workQueue[i + 1]] = "queued"
    BY <2>1 DEF HorseTypes
  <2>3. \A i, j \in 1..(Len(workQueue) - 1) : workQueue[i + 1] = workQueue[j + 1] => i = j
    BY <1>1 DEF Waiting
  <2> QED
    BY <1>1, <2>2, <2>3 DEF Waiting
<1>5. Arrived'
  <2>1. \A i \in 1..Len(arrivals) : arrivals[i] \in Horses /\ arrivals[i] # h
    BY <1>2, SeqFacts DEF HorseTypes, Arrived
  <2> QED
    BY <2>1 DEF Arrived, HorseTypes
<1>6. Order' /\ Placed' /\ Scans'
  BY DEF Order, Placed, Scans
<1>7. Handles' /\ MovesNotLost'
  BY <1>2 DEF HorseTypes, Handles, MovesNotLost
<1> QED
  BY <1>3, <1>4, <1>5, <1>6, <1>7

\* A thread runs no horse that has arrived, and its handle was made.
LEMMA RunningNotArrived ==
  ASSUME HorseIInv, NEW h \in Horses, work[h] \in {"running", "moved"}
  PROVE  /\ async[h] = "active"
         /\ \A i \in 1..Len(workQueue) : workQueue[i] \in Horses /\ workQueue[i] # h
         /\ \A i \in 1..Len(arrivals) : arrivals[i] \in Horses /\ arrivals[i] # h
<1> USE DEF HorseIInv
<1>1. async[h] = "active"
  BY DEF HorseTypes, Asyncs, Handles
<1>2. \A i \in 1..Len(workQueue) : workQueue[i] \in Horses /\ workQueue[i] # h
  BY SeqFacts DEF HorseTypes, Waiting
<1>3. \A i \in 1..Len(arrivals) : arrivals[i] \in Horses /\ arrivals[i] # h
  BY SeqFacts DEF HorseTypes, Arrived
<1> QED
  BY <1>1, <1>2, <1>3

LEMMA GallopIInv ==
  ASSUME HorseIInv, NEW h \in Horses, Gallop(h)
  PROVE  HorseIInv'
<1>1. /\ async[h] = "active"
      /\ \A i \in 1..Len(workQueue) : workQueue[i] \in Horses /\ workQueue[i] # h
      /\ \A i \in 1..Len(arrivals) : arrivals[i] \in Horses /\ arrivals[i] # h
  BY RunningNotArrived DEF Gallop
<1> USE DEF HorseIInv, Gallop, poolVars, loopVars
<1>2. HorseTypes'
  BY DEF HorseTypes, Works
<1>3. Waiting'
  BY <1>1 DEF Waiting, HorseTypes
<1>4. Arrived'
  BY <1>1 DEF Arrived, HorseTypes
<1>5. Order' /\ Placed' /\ Scans'
  BY DEF Order, Placed, Scans
<1>6. Handles' /\ MovesNotLost'
  BY <1>1 DEF HorseTypes, Handles, MovesNotLost
<1> QED
  BY <1>2, <1>3, <1>4, <1>5, <1>6

LEMMA SendProgressIInv ==
  ASSUME HorseIInv, NEW h \in Horses, SendProgress(h)
  PROVE  HorseIInv'
<1>1. /\ async[h] = "active"
      /\ \A i \in 1..Len(workQueue) : workQueue[i] \in Horses /\ workQueue[i] # h
      /\ \A i \in 1..Len(arrivals) : arrivals[i] \in Horses /\ arrivals[i] # h
  BY RunningNotArrived DEF SendProgress
<1> USE DEF HorseIInv, SendProgress, Sends, poolVars, loopVars
<1>2. HorseTypes'
  BY DEF HorseTypes, Works
<1>3. Waiting'
  BY <1>1 DEF Waiting, HorseTypes
<1>4. Arrived'
  BY <1>1 DEF Arrived, HorseTypes
<1>5. Order' /\ Placed' /\ Scans'
  BY DEF Order, Placed, Scans
<1>6. Handles' /\ MovesNotLost'
  BY <1>1 DEF HorseTypes, Handles, MovesNotLost
<1> QED
  BY <1>2, <1>3, <1>4, <1>5, <1>6

\* The horse comes last in the list of what has arrived and in libuv's.
LEMMA FinishWorkIInv ==
  ASSUME HorseIInv, NEW h \in Horses, FinishWork(h)
  PROVE  HorseIInv'
<1>1. /\ async[h] = "active"
      /\ \A i \in 1..Len(workQueue) : workQueue[i] \in Horses /\ workQueue[i] # h
      /\ \A i \in 1..Len(arrivals) : arrivals[i] \in Horses /\ arrivals[i] # h
  BY RunningNotArrived DEF FinishWork
<1> USE DEF HorseIInv, FinishWork, loopVars
<1>2. /\ Len(finished) \in Nat /\ Len(arrivals) \in Nat /\ Len(taken) \in Nat
      /\ finished' \in Seq(Horses) /\ arrivals' \in Seq(Horses)
      /\ Len(finished') = Len(finished) + 1 /\ Len(arrivals') = Len(arrivals) + 1
      /\ finished'[Len(finished) + 1] = h /\ arrivals'[Len(arrivals) + 1] = h
      /\ \A i \in 1..Len(finished) : finished'[i] = finished[i]
      /\ \A i \in 1..Len(arrivals) : arrivals'[i] = arrivals[i]
  BY SeqFacts, AppendFacts DEF HorseTypes
<1>3. HorseTypes'
  BY <1>2 DEF HorseTypes, Works
<1>4. Waiting'
  BY <1>1 DEF Waiting, HorseTypes
<1>5. Arrived'
  <2>1. work'[h] = "finished" /\ position'[h] = TRACK_WIDTH
    BY DEF HorseTypes
  <2>2. \A i \in 1..Len(arrivals) : work'[arrivals[i]] = work[arrivals[i]]
    BY <1>1 DEF HorseTypes
  <2> QED
    BY <1>2, <2>1, <2>2 DEF Arrived
<1>6. placement \in Nat \ {0} /\ placement' = placement /\ taken' = taken /\ place' = place
  BY DEF HorseTypes
<1>7. Len(arrivals) = placement - 1 + Len(taken) + Len(finished)
  BY DEF Order
<1>8. Order'
  <2>1. ASSUME NEW i \in 1..Len(taken)
        PROVE  arrivals'[placement - 1 + i] = taken[i]
    <3>1. placement - 1 + i \in 1..Len(arrivals)
      BY <1>2, <1>6, <1>7
    <3> QED
      BY <1>2, <3>1 DEF Order
  <2>2. ASSUME NEW i \in 1..Len(finished)
        PROVE  arrivals'[placement - 1 + Len(taken) + i] = finished'[i]
    <3>1. placement - 1 + Len(taken) + i \in 1..Len(arrivals)
      BY <1>2, <1>6, <1>7
    <3> QED
      BY <1>2, <3>1 DEF Order
  <2>3. arrivals'[placement - 1 + Len(taken) + (Len(finished) + 1)] = finished'[Len(finished) + 1]
    <3>1. placement - 1 + Len(taken) + (Len(finished) + 1) = Len(arrivals) + 1
      BY <1>2, <1>6, <1>7
    <3> QED
      BY <1>2, <3>1
  <2>4. \A i \in 1..Len(finished') : arrivals'[placement - 1 + Len(taken) + i] = finished'[i]
    <3>1. ASSUME NEW i \in 1..Len(finished')
          PROVE  arrivals'[placement - 1 + Len(taken) + i] = finished'[i]
      <4>1. i \in 1..Len(finished) \/ i = Len(finished) + 1
        BY <1>2
      <4> QED
        BY <2>2, <2>3, <4>1
    <3> QED
      BY <3>1
  <2>5. Len(arrivals') = placement - 1 + Len(taken) + Len(finished')
    BY <1>2, <1>6, <1>7
  <2> HIDE DEF FinishWork
  <2> QED
    BY <1>6, <2>1, <2>4, <2>5 DEF Order
<1>9. Placed'
  <2>1. ASSUME NEW g \in Horses, place[g] # 0
        PROVE  place[g] < placement /\ arrivals'[place[g]] = g
    <3>1. place[g] \in Nat /\ place[g] < placement /\ arrivals[place[g]] = g
      BY <2>1 DEF HorseTypes, Placed
    <3>2. place[g] \in 1..Len(arrivals)
      BY <1>2, <1>6, <1>7, <2>1, <3>1
    <3> QED
      BY <1>2, <3>1, <3>2
  <2> QED
    BY <1>6, <2>1 DEF Placed
<1>10. Scans'
  BY DEF Scans
<1>11. Handles' /\ MovesNotLost'
  BY <1>1 DEF HorseTypes, Handles, MovesNotLost
<1> QED
  BY <1>3, <1>4, <1>5, <1>8, <1>9, <1>10, <1>11

\* The handles of a scan.
LEMMA ScanFacts ==
  ASSUME NEW n \in Nat, NEW q, q = <<n>> \o [i \in 1..n |-> i - 1]
  PROVE  /\ q \in Seq(0..n) /\ Len(q) = n + 1
         /\ \A i \in 2..(n + 1) : q[i] = i - 2
<1>. DEFINE tracks == [i \in 1..n |-> i - 1]
<1>1. tracks \in Seq(0..n) /\ Len(tracks) = n
  <2>1. tracks \in [1..n -> 0..n]
    OBVIOUS
  <2>2. tracks \in Seq(0..n)
    BY <2>1, SeqDef
  <2> QED
    BY <2>2, LenProperties
<1>2. \A i \in 1..n : tracks[i] = i - 1
  OBVIOUS
<1>3. q = <<n>> \o tracks
  OBVIOUS
<1>. HIDE DEF tracks
<1>4. <<n>> \in Seq(0..n) /\ Len(<<n>>) = 1
  OBVIOUS
<1>5. q \in Seq(0..n) /\ Len(q) = 1 + n
  <2>1. \A S : \A s, t \in Seq(S) : s \o t \in Seq(S) /\ Len(s \o t) = Len(s) + Len(t)
    BY ConcatProperties
  <2>2. <<n>> \o tracks \in Seq(0..n) /\ Len(<<n>> \o tracks) = Len(<<n>>) + Len(tracks)
    BY <1>1, <1>4, <2>1
  <2> QED
    BY <1>1, <1>3, <1>4, <2>2
<1>6. \A i \in 2..(n + 1) : q[i] = tracks[i - 1]
  <2>1. \A S : \A s, t \in Seq(S) : \A i \in 1..(Len(s) + Len(t)) :
             (s \o t)[i] = IF i <= Len(s) THEN s[i] ELSE t[i - Len(s)]
    BY ConcatProperties
  <2>2. \A i \in 1..(1 + n) : (<<n>> \o tracks)[i] = IF i <= 1 THEN <<n>>[i] ELSE tracks[i - 1]
    BY <1>1, <1>4, <2>1
  <2> QED
    BY <1>3, <2>2
<1>7. \A i \in 2..(n + 1) : i - 1 \in 1..n /\ tracks[i - 1] = (i - 1) - 1
  BY <1>2
<1> QED
  BY <1>5, <1>6, <1>7

\* A scan begins with libuv's handle; nothing that was taken is left then.
LEMMA WakeIInv ==
  ASSUME HorseIInv, Wake
  PROVE  HorseIInv'
<1> USE HorseAssumption DEF HorseIInv, Wake, threadVars, poolVars, loopVars
<1>2. /\ scan' \in Seq(0..TRACKS) /\ Len(scan') = TRACKS + 1
      /\ \A i \in 2..(TRACKS + 1) : scan'[i] = i - 2
  BY ScanFacts DEF Wq
<1>3. HorseTypes'
  BY <1>2 DEF HorseTypes
<1>4. Scans'
  <2>1. taken = <<>>
    BY DEF Scans
  <2> QED
    BY <1>2, <2>1 DEF Scans, Wq
<1>5. Waiting' /\ Arrived' /\ Order' /\ Placed' /\ Handles' /\ MovesNotLost'
  BY DEF Waiting, Arrived, Order, Placed, Handles, MovesNotLost
<1> QED
  BY <1>3, <1>4, <1>5

\* What a scan keeps when it goes on to the next handle.
LEMMA ScanGoesOn ==
  ASSUME HorseTypes, Scans, scan # <<>>, scan' = Tail(scan)
  PROVE  /\ scan' \in Seq(0..TRACKS) /\ Len(scan') = Len(scan) - 1
         /\ Len(scan) \in Nat \ {0}
         /\ \A i \in 1..Len(scan') : scan'[i] # Wq
<1>1. /\ Len(scan) \in Nat \ {0} /\ scan' \in Seq(0..TRACKS) /\ Len(scan') = Len(scan) - 1
      /\ \A i \in 1..(Len(scan) - 1) : scan'[i] = scan[i + 1]
  BY TailFacts, LenProperties DEF HorseTypes
<1>2. \A i \in 1..(Len(scan) - 1) : scan[i + 1] # Wq
  BY <1>1 DEF Scans
<1> QED
  BY <1>1, <1>2

\* All that was taken before is reported, so that the list that is taken comes
\* next in the order of arrival.
LEMMA TakeFinishedIInv ==
  ASSUME HorseIInv, TakeFinished
  PROVE  HorseIInv'
<1> USE HorseAssumption DEF HorseIInv, TakeFinished, threadVars, loopVars
<1>1. scan[1] = Wq /\ Len(scan) \in Nat \ {0}
  BY TailFacts DEF HorseTypes
<1>2. taken = <<>> /\ Len(taken) = 0 /\ Len(scan) = TRACKS + 1
  BY <1>1 DEF Scans
<1>3. finished' = <<>> /\ Len(finished') = 0 /\ taken' = finished /\ Len(finished) \in Nat
  BY SeqFacts DEF HorseTypes
<1>4. HorseTypes'
  BY ScanGoesOn, <1>3 DEF HorseTypes
<1>5. Scans'
  <2>1. /\ scan' \in Seq(0..TRACKS) /\ Len(scan') = Len(scan) - 1
        /\ \A i \in 1..Len(scan') : scan'[i] # Wq
    BY ScanGoesOn
  <2>2. Len(scan') \in Nat \ {0} /\ 1 \in 1..Len(scan')
    <3>1. TRACKS \in Nat \ {0} /\ Len(scan) = TRACKS + 1 /\ Len(scan') = Len(scan) - 1
      BY <1>2, <2>1
    <3> HIDE DEF TakeFinished, HorseIInv
    <3> QED
      BY <3>1
  <2>3. scan' # <<>>
    BY <2>1, <2>2, EmptySeq
  <2> QED
    BY <2>1, <2>2, <2>3 DEF Scans
<1>6. Order'
  BY <1>2, <1>3 DEF Order, HorseTypes
<1>7. Waiting' /\ Arrived' /\ Placed' /\ Handles' /\ MovesNotLost'
  BY DEF Waiting, Arrived, Placed, Handles, MovesNotLost
<1> QED
  BY <1>4, <1>5, <1>6, <1>7

\* The first of what was taken is the arrival whose turn it is.
LEMMA FinishedRaceIInv ==
  ASSUME HorseIInv, FinishedRace
  PROVE  HorseIInv'
<1> USE DEF HorseIInv, FinishedRace, Close, ThisPlace
<1>. DEFINE h == Head(taken)
<1>1. /\ h \in Horses /\ h = taken[1]
      /\ Len(taken) \in Nat \ {0} /\ taken' \in Seq(Horses) /\ Len(taken') = Len(taken) - 1
      /\ \A i \in 1..(Len(taken) - 1) : taken'[i] = taken[i + 1]
      /\ Len(finished) \in Nat /\ placement \in Nat \ {0}
  <2>1. taken \in Seq(Horses) /\ taken # <<>> /\ taken' = Tail(taken)
        /\ finished \in Seq(Horses) /\ placement \in Nat \ {0}
    BY DEF HorseTypes
  <2>2. /\ h \in Horses /\ h = taken[1] /\ Tail(taken) \in Seq(Horses)
        /\ Len(taken) \in Nat \ {0} /\ DOMAIN Tail(taken) = 1..(Len(taken) - 1)
        /\ \A i \in 1..(Len(taken) - 1) : Tail(taken)[i] = taken[i + 1]
    BY <2>1, TailFacts
  <2>3. Len(Tail(taken)) = Len(taken) - 1
    BY <2>1, HeadTailProperties
  <2>4. Len(finished) \in Nat
    BY <2>1, SeqFacts
  <2> QED
    BY <2>1, <2>2, <2>3, <2>4
<1>2. arrivals[placement] = h /\ placement \in 1..Len(arrivals)
  <2>1. Len(arrivals) = placement - 1 + Len(taken) + Len(finished)
    BY DEF Order
  <2>2. \A i \in 1..Len(taken) : arrivals[placement - 1 + i] = taken[i]
    BY DEF Order
  <2>3. 1 \in 1..Len(taken) /\ placement - 1 + 1 = placement
    BY <1>1
  <2>4. arrivals[placement - 1 + 1] = taken[1]
    BY <2>2, <2>3
  <2> QED
    BY <1>1, <2>1, <2>3, <2>4
<1>3. work[h] \in {"finished", "reported"}
  BY <1>2 DEF Arrived
<1>4. /\ work' = [work EXCEPT ![h] = "reported"] /\ async' = [async EXCEPT ![h] = "closing"]
      /\ place' = [place EXCEPT ![h] = placement] /\ placement' = placement + 1
  OBVIOUS
<1>. HIDE DEF h
<1>5. HorseTypes'
  BY <1>1, <1>4 DEF HorseTypes, Works, Asyncs
<1>6. Waiting'
  <2>1. workQueue \in Seq(Horses)
    BY DEF HorseTypes
  <2>2. \A i \in 1..Len(workQueue) : workQueue[i] \in Horses
    BY <2>1, SeqFacts
  <2>3. \A i \in 1..Len(workQueue) : workQueue[i] # h
    BY <1>3 DEF Waiting
  <2>4. \A g \in Horses : g # h => work'[g] = work[g]
    BY <1>4 DEF HorseTypes
  <2>5. \A i \in 1..Len(workQueue) : work'[workQueue[i]] = work[workQueue[i]]
    BY <2>2, <2>3, <2>4
  <2>6. workQueue' = workQueue
    OBVIOUS
  <2> QED
    BY <2>5, <2>6 DEF Waiting
<1>7. Arrived'
  <2>1. arrivals \in Seq(Horses)
    BY DEF HorseTypes
  <2>2. \A i \in 1..Len(arrivals) : arrivals[i] \in Horses
    BY <2>1, SeqFacts
  <2>3. \A g \in Horses : work'[g] = IF g = h THEN "reported" ELSE work[g]
    BY <1>4 DEF HorseTypes
  <2>4. \A g \in Horses : work[g] \in {"finished", "reported"} => work'[g] \in {"finished", "reported"}
    BY <2>3
  <2>5. arrivals' = arrivals /\ position' = position
    OBVIOUS
  <2> QED
    BY <2>2, <2>4, <2>5 DEF Arrived
<1>8. Order'
  <2>1. \A i \in 1..(Len(taken) - 1) : arrivals[placement + i] = taken[i + 1]
    <3> SUFFICES ASSUME NEW i \in 1..(Len(taken) - 1)
                 PROVE  arrivals[placement + i] = taken[i + 1]
      OBVIOUS
    <3>1. i + 1 \in 1..Len(taken) /\ placement - 1 + (i + 1) = placement + i
      BY <1>1
    <3>2. arrivals[placement - 1 + (i + 1)] = taken[i + 1]
      BY <3>1 DEF Order
    <3> QED
      BY <3>1, <3>2
  <2>2. \A i \in 1..Len(finished) : arrivals[placement - 1 + Len(taken) + i] = finished[i]
    BY DEF Order
  <2>3. Len(arrivals) = placement - 1 + Len(taken) + Len(finished)
    BY DEF Order
  <2>4. arrivals' = arrivals /\ finished' = finished
    OBVIOUS
  <2>5. Len(arrivals') = placement' - 1 + Len(taken') + Len(finished')
    BY <1>1, <1>4, <2>3, <2>4
  <2>6. \A i \in 1..Len(taken') : arrivals'[placement' - 1 + i] = taken'[i]
    BY <1>1, <1>4, <2>1, <2>4
  <2>7. \A i \in 1..Len(finished') : arrivals'[placement' - 1 + Len(taken') + i] = finished'[i]
    BY <1>1, <1>4, <2>2, <2>4
  <2> QED
    BY <2>5, <2>6, <2>7 DEF Order
<1>9. Placed'
  <2>1. ASSUME NEW g \in Horses, place'[g] # 0
        PROVE  place'[g] < placement + 1 /\ arrivals[place'[g]] = g
    <3>1. CASE g = h
      <4>1. place'[g] = placement
        BY <1>4, <3>1 DEF HorseTypes
      <4> QED
        BY <1>1, <1>2, <3>1, <4>1
    <3>2. CASE g # h
      <4>1. place'[g] = place[g] /\ place[g] \in Nat
        BY <1>4, <3>2 DEF HorseTypes
      <4> QED
        BY <1>1, <2>1, <4>1 DEF Placed
    <3> QED
      BY <3>1, <3>2
  <2> QED
    BY <1>4, <2>1 DEF Placed
<1>10. Scans'
  BY DEF Scans
<1>11. Handles' /\ MovesNotLost'
  BY <1>1, <1>3, <1>4 DEF HorseTypes, Handles, MovesNotLost
<1> QED
  BY <1>5, <1>6, <1>7, <1>8, <1>9, <1>10, <1>11

LEMMA ProgressIInv ==
  ASSUME HorseIInv, NEW h \in Horses, Progress(h)
  PROVE  HorseIInv'
<1> USE DEF HorseIInv, Progress, threadVars, poolVars
<1>1. HorseTypes'
  BY ScanGoesOn DEF HorseTypes
<1>2. Scans'
  BY ScanGoesOn DEF Scans
<1>3. Waiting' /\ Arrived' /\ Order' /\ Placed'
  BY DEF Waiting, Arrived, Order, Placed
<1>4. Handles' /\ MovesNotLost'
  BY DEF HorseTypes, Handles, MovesNotLost
<1> QED
  BY <1>1, <1>2, <1>3, <1>4

LEMMA NextHandleIInv ==
  ASSUME HorseIInv, NextHandle
  PROVE  HorseIInv'
<1> USE DEF HorseIInv, NextHandle, threadVars, poolVars, loopVars
<1>1. HorseTypes'
  BY ScanGoesOn DEF HorseTypes
<1>2. Scans'
  BY ScanGoesOn DEF Scans
<1>3. Waiting' /\ Arrived' /\ Order' /\ Placed' /\ Handles' /\ MovesNotLost'
  BY DEF Waiting, Arrived, Order, Placed, Handles, MovesNotLost
<1> QED
  BY <1>1, <1>2, <1>3

LEMMA CloseHandlesIInv ==
  ASSUME HorseIInv, CloseHandles
  PROVE  HorseIInv'
<1> USE DEF HorseIInv, CloseHandles, threadVars, poolVars
<1>1. HorseTypes'
  BY DEF HorseTypes, Asyncs
<1>2. Waiting' /\ Arrived' /\ Order' /\ Placed' /\ Scans'
  BY DEF Waiting, Arrived, Order, Placed, Scans
<1>3. Handles' /\ MovesNotLost'
  BY DEF HorseTypes, Handles, MovesNotLost
<1> QED
  BY <1>1, <1>2, <1>3

\* main goes from one part to the next.
LEMMA MainIInv ==
  ASSUME HorseIInv, RunLoop \/ EndRace \/ UNCHANGED horseVars
  PROVE  HorseIInv'
<1>1. UNCHANGED <<threadVars, poolVars, loopVars, sent, scan, arrivals>>
  BY DEF RunLoop, EndRace, horseVars
<1> USE <1>1 DEF HorseIInv, threadVars, poolVars, loopVars
<1>2. HorseTypes' /\ Waiting' /\ Arrived'
  BY DEF HorseTypes, Waiting, Arrived
<1>3. Order' /\ Placed' /\ Scans'
  BY DEF Order, Placed, Scans
<1>4. Handles' /\ MovesNotLost'
  BY DEF Handles, MovesNotLost
<1> QED
  BY <1>2, <1>3, <1>4

LEMMA HorseStepIInv == HorseIInv /\ [HorseNext]_horseVars => HorseIInv'
<1> SUFFICES ASSUME HorseIInv, [HorseNext]_horseVars PROVE HorseIInv'
  OBVIOUS
<1>1. CASE UNCHANGED horseVars
  BY <1>1, MainIInv
<1>2. CASE RunLoop \/ EndRace
  BY <1>2, MainIInv
<1>3. ASSUME NEW h \in Horses, InitAsync(h) \/ QueueWork(h) \/ Progress(h)
      PROVE  HorseIInv'
  BY <1>3, InitAsyncIInv, QueueWorkIInv, ProgressIInv
<1>4. ASSUME NEW h \in Horses, HorseThread(h)
      PROVE  HorseIInv'
  BY <1>4, TakeWorkIInv, GallopIInv, SendProgressIInv, FinishWorkIInv DEF HorseThread
<1>5. CASE Wake \/ TakeFinished \/ FinishedRace \/ NextHandle \/ CloseHandles
  BY <1>5, WakeIInv, TakeFinishedIInv, FinishedRaceIInv, NextHandleIInv, CloseHandlesIInv
<1> QED
  BY <1>1, <1>2, <1>3, <1>4, <1>5 DEF HorseNext, HorseMain

THEOREM HorseInvariance == HorseSpec => []HorseIInv
BY HorseInitIInv, HorseStepIInv, PTL DEF HorseSpec

(* What follows from it *)

\* For any number of horses, threads and moves, the places that are printed are
\* the order in which race_cb returned for them, and who has a place has run the
\* whole track (finished_race_cb).
THEOREM PlacesRight == HorseSpec => []PlacesInOrder
<1>1. HorseIInv => PlacesInOrder
  <2> SUFFICES ASSUME HorseIInv, NEW h \in Horses, place[h] # 0
               PROVE  /\ place[h] \in DOMAIN arrivals /\ arrivals[place[h]] = h
                      /\ position[h] = TRACK_WIDTH
    BY DEF PlacesInOrder
  <2>1. /\ DOMAIN arrivals = 1..Len(arrivals) /\ Len(taken) \in Nat /\ Len(finished) \in Nat
        /\ place[h] \in Nat \ {0} /\ placement \in Nat
    BY SeqFacts, LenProperties DEF HorseIInv, HorseTypes
  <2>2. place[h] \in 1..Len(arrivals) /\ arrivals[place[h]] = h
    BY <2>1 DEF HorseIInv, Placed, Order
  <2> QED
    BY <2>1, <2>2 DEF HorseIInv, Arrived
<1> QED
  BY <1>1, HorseInvariance, PTL

\* No thread sends an async handle before it was made or after it was closed
\* (add_horse, race_cb, finished_race_cb).
THEOREM HandlesOpen == HorseSpec => []SendsOpenHandle
<1>1. HorseIInv => SendsOpenHandle
  BY RunningNotArrived DEF SendsOpenHandle, Running
<1> QED
  BY <1>1, HorseInvariance, PTL

\* However sends are joined and scans fall between them, a horse with an open
\* handle is drawn where it is or will be (race_cb, progress_cb).
THEOREM MovesKept == HorseSpec => []MovesNotLost
BY HorseInvariance, PTL DEF HorseIInv

-----------------------------------------------------------------------------
(* The echo server.  What is allocated for a connection is at every moment
   determined by the state of its handle and the responses that libuv has yet to
   write (Heap), so that nothing is freed twice or left behind. *)

States == {"none", "backlog", "open", "shutdown", "closing", "freed"}

Sequence(q) == \E S : q \in Seq(S)

EchoTypes ==
    /\ peer \in [Peers -> States]
    /\ writes = [c \in Peers |-> writes[c]]
    /\ \A c \in Peers : Sequence(writes[c])
    /\ heap \in [Peers -> [Kinds -> Nat]]

\* What is allocated: the client from uv_accept to close_cb, two blocks for each
\* response, the request of uv_shutdown while it waits, and no buffer, which
\* read_cb frees.
Heap ==
    \A c \in Peers :
        /\ heap[c]["client"] = IF peer[c] \in {"open", "shutdown", "closing"} THEN 1 ELSE 0
        /\ heap[c]["shutdown"] = IF peer[c] = "shutdown" THEN 1 ELSE 0
        /\ heap[c]["buffer"] = 0
        /\ heap[c]["write"] = Len(writes[c])
        /\ heap[c]["response"] = Len(writes[c])

\* Only a handle that is open or being shut down has responses to write.
Pending ==
    \A c \in Peers : writes[c] # <<>> => peer[c] \in {"open", "shutdown"}

EchoIInv == EchoTypes /\ Heap /\ Pending

LEMMA EmptySequence == Sequence(<<>>) /\ Len(<<>>) = 0
BY EmptySeq DEF Sequence

\* One more at the end, whatever it is.
LEMMA AppendSequence ==
  ASSUME NEW q, Sequence(q), NEW e
  PROVE  Sequence(Append(q, e)) /\ Len(q) \in Nat /\ Len(Append(q, e)) = Len(q) + 1
<1>1. PICK S : q \in Seq(S)
  BY DEF Sequence
<1>2. q \in Seq(S \cup {e})
  BY <1>1, SeqMonotonic
<1>3. Append(q, e) \in Seq(S \cup {e}) /\ Len(q) \in Nat /\ Len(Append(q, e)) = Len(q) + 1
  BY <1>2, AppendProperties, LenProperties
<1> QED
  BY <1>3 DEF Sequence

\* One less at the head.
LEMMA TailSequence ==
  ASSUME NEW q, Sequence(q), q # <<>>
  PROVE  Sequence(Tail(q)) /\ Len(q) \in Nat \ {0} /\ Len(Tail(q)) = Len(q) - 1
<1>1. PICK S : q \in Seq(S)
  BY DEF Sequence
<1>2. Tail(q) \in Seq(S) /\ Len(Tail(q)) = Len(q) - 1 /\ Len(q) \in Nat \ {0}
  BY <1>1, HeadTailProperties, EmptySeq
<1> QED
  BY <1>2 DEF Sequence

LEMMA EchoInitIInv == EchoInit => EchoIInv
<1> SUFFICES ASSUME EchoInit PROVE EchoIInv
  OBVIOUS
<1> USE EmptySequence DEF EchoInit
<1>1. EchoTypes
  BY DEF EchoTypes, States
<1>2. Heap
  BY DEF Heap, Kinds
<1>3. Pending
  BY DEF Pending
<1> QED
  BY <1>1, <1>2, <1>3 DEF EchoIInv

\* Nothing that is allocated changes: a client's steps, and a server that exits.
LEMMA SameIInv ==
  ASSUME EchoIInv, UNCHANGED <<writes, heap>>, NEW c \in Peers,
         \/ peer' = peer
         \/ peer[c] = "none" /\ peer' = [peer EXCEPT ![c] = "backlog"]
  PROVE  EchoIInv'
<1> USE DEF EchoIInv
<1>1. EchoTypes'
  BY DEF EchoTypes, States
<1>2. Heap'
  BY DEF EchoTypes, Heap
<1>3. Pending'
  BY DEF EchoTypes, Pending
<1> QED
  BY <1>1, <1>2, <1>3

LEMMA AcceptIInv ==
  ASSUME EchoIInv, NEW c \in Peers, Accept(c)
  PROVE  EchoIInv'
<1> USE DEF EchoIInv, Accept, Allocate
<1>1. \A k \in Kinds : heap'[c][k] = IF k = "client" THEN heap[c][k] + 1 ELSE heap[c][k]
  BY DEF EchoTypes
<1>2. EchoTypes'
  BY DEF EchoTypes, States
<1>3. Heap'
  BY <1>1 DEF EchoTypes, Heap, Kinds
<1>4. Pending'
  BY DEF EchoTypes, Pending
<1> QED
  BY <1>2, <1>3, <1>4

\* A response is made, and the buffer is freed; or the server quits.
LEMMA ReadChunkIInv ==
  ASSUME EchoIInv, NEW c \in Peers, NEW n, NEW junk, ReadChunk(c, n, junk)
  PROVE  EchoIInv'
<1>. DEFINE chunk == SubSeq(arrived[c], 1, n)
<1>1. CASE UNCHANGED <<writes, heap>>
  BY <1>1, SameIInv DEF ReadChunk
<1>2. CASE ~UNCHANGED <<writes, heap>>
  <2>1. /\ peer[c] = "open" /\ peer' = peer
        /\ writes' = [writes EXCEPT ![c] = Append(@, Response(chunk, junk))]
        /\ heap' = [heap EXCEPT ![c] = [k \in Kinds |->
                      IF k \in {"write", "response"} THEN @[k] + 1 ELSE @[k]]]
    BY <1>2 DEF ReadChunk, Allocate, BufferFreed
  <2>. HIDE DEF chunk
  <2> USE DEF EchoIInv
  <2>2. /\ Sequence(writes'[c]) /\ Len(writes'[c]) = Len(writes[c]) + 1 /\ Len(writes[c]) \in Nat
        /\ \A d \in Peers : d # c => writes'[d] = writes[d]
    BY <2>1, AppendSequence DEF EchoTypes
  <2>3. EchoTypes'
    <3>1. heap' \in [Peers -> [Kinds -> Nat]]
      BY <2>1 DEF EchoTypes
    <3>2. writes' = [d \in Peers |-> writes'[d]] /\ \A d \in Peers : Sequence(writes'[d])
      BY <2>1, <2>2 DEF EchoTypes
    <3> QED
      BY <2>1, <3>1, <3>2 DEF EchoTypes
  <2>4. Heap'
    BY <2>1, <2>2 DEF EchoTypes, Heap, Kinds
  <2>5. Pending'
    BY <2>1, <2>2 DEF EchoTypes, Pending
  <2> QED
    BY <2>3, <2>4, <2>5
<1> QED
  BY <1>1, <1>2

LEMMA EndOfStreamIInv ==
  ASSUME EchoIInv, NEW c \in Peers, EndOfStream(c)
  PROVE  EchoIInv'
<1> USE DEF EchoIInv, EndOfStream, AfterEof, Allocate
<1>1. \A k \in Kinds : heap'[c][k] = IF k = "shutdown" THEN heap[c][k] + 1 ELSE heap[c][k]
  BY DEF EchoTypes
<1>2. EchoTypes'
  BY DEF EchoTypes, States
<1>3. Heap'
  BY <1>1 DEF EchoTypes, Heap, Kinds
<1>4. Pending'
  BY DEF EchoTypes, Pending
<1> QED
  BY <1>2, <1>3, <1>4

\* The blocks of a response are there as long as it waits.
LEMMA ResponseWrittenIInv ==
  ASSUME EchoIInv, NEW c \in Peers, ResponseWritten(c)
  PROVE  EchoIInv'
<1> USE DEF EchoIInv, ResponseWritten, WriteFreed, Allocate
<1>1. /\ Sequence(writes'[c]) /\ Len(writes'[c]) = Len(writes[c]) - 1 /\ Len(writes[c]) \in Nat \ {0}
      /\ \A d \in Peers : d # c => writes'[d] = writes[d]
  BY TailSequence DEF EchoTypes
<1>2. heap[c]["write"] \in Nat \ {0} /\ heap[c]["response"] \in Nat \ {0}
  BY <1>1 DEF Heap
<1>3. \A k \in Kinds : heap'[c][k] = IF k \in {"write", "response"} THEN heap[c][k] - 1 ELSE heap[c][k]
  BY DEF EchoTypes
<1>4. EchoTypes'
  <2>1. heap'[c] \in [Kinds -> Nat]
    BY <1>2, <1>3 DEF EchoTypes, Kinds
  <2> QED
    BY <1>1, <2>1 DEF EchoTypes
<1>5. Heap'
  BY <1>1, <1>3 DEF EchoTypes, Heap, Kinds
<1>6. Pending'
  BY <1>1 DEF EchoTypes, Pending
<1> QED
  BY <1>4, <1>5, <1>6

\* The request of uv_shutdown, and then the client, is freed once.
LEMMA ClosingIInv ==
  ASSUME EchoIInv, NEW c \in Peers, StreamShutdown(c) \/ StreamClosed(c)
  PROVE  EchoIInv'
<1> USE DEF EchoIInv, StreamShutdown, AfterShutdown, StreamClosed, Allocate
<1>1. CASE StreamShutdown(c)
  <2>1. \A k \in Kinds : heap'[c][k] = IF k = "shutdown" THEN heap[c][k] - 1 ELSE heap[c][k]
    BY <1>1 DEF EchoTypes
  <2>2. heap[c]["shutdown"] = 1
    BY <1>1 DEF Heap
  <2>3. EchoTypes'
    <3>1. heap'[c] \in [Kinds -> Nat]
      BY <1>1, <2>1, <2>2 DEF EchoTypes, Kinds
    <3> QED
      BY <1>1, <3>1 DEF EchoTypes, States
  <2>4. Heap'
    BY <1>1, <2>1, <2>2 DEF EchoTypes, Heap, Kinds
  <2>5. Pending'
    BY <1>1 DEF EchoTypes, Pending
  <2> QED
    BY <2>3, <2>4, <2>5
<1>2. CASE StreamClosed(c)
  <2>1. \A k \in Kinds : heap'[c][k] = IF k = "client" THEN heap[c][k] - 1 ELSE heap[c][k]
    BY <1>2 DEF EchoTypes
  <2>2. heap[c]["client"] = 1
    BY <1>2 DEF Heap
  <2>3. EchoTypes'
    <3>1. heap'[c] \in [Kinds -> Nat]
      BY <1>2, <2>1, <2>2 DEF EchoTypes, Kinds
    <3> QED
      BY <1>2, <3>1 DEF EchoTypes, States
  <2>4. Heap'
    BY <1>2, <2>1, <2>2 DEF EchoTypes, Heap, Kinds
  <2>5. Pending'
    BY <1>2 DEF EchoTypes, Pending
  <2> QED
    BY <2>3, <2>4, <2>5
<1> QED
  BY <1>1, <1>2

LEMMA EchoStepIInv == EchoIInv /\ [EchoNext]_echoVars => EchoIInv'
<1> SUFFICES ASSUME EchoIInv, [EchoNext]_echoVars PROVE EchoIInv'
  OBVIOUS
<1>1. CASE UNCHANGED echoVars
  BY <1>1 DEF echoVars, EchoIInv, EchoTypes, Heap, Pending
<1>2. ASSUME NEW c \in Peers, EchoCallback(c)
      PROVE  EchoIInv'
  <2>1. CASE EchoExit(c)
    BY <2>1, SameIInv DEF EchoExit
  <2>2. CASE Accept(c) \/ EndOfStream(c)
    BY <2>2, AcceptIInv, EndOfStreamIInv
  <2>3. CASE StreamShutdown(c) \/ StreamClosed(c)
    BY <2>3, ClosingIInv
  <2>4. ASSUME NEW n, NEW junk, ReadChunk(c, n, junk)
        PROVE  EchoIInv'
    BY <2>4, ReadChunkIInv
  <2> QED
    BY <1>2, <2>1, <2>2, <2>3, <2>4 DEF EchoCallback
<1>3. ASSUME NEW c \in Peers, PeerConnects(c) \/ PeerEnds(c) \/ PeerResets(c) \/ \E b \in Bytes : PeerSends(c, b)
      PROVE  EchoIInv'
  <2>1. /\ UNCHANGED <<writes, heap>>
        /\ \/ peer' = peer
           \/ peer[c] = "none" /\ peer' = [peer EXCEPT ![c] = "backlog"]
    BY <1>3 DEF PeerConnects, PeerEnds, PeerResets, PeerSends
  <2> QED
    BY <2>1, SameIInv
<1> QED
  BY <1>1, <1>2, <1>3, ResponseWrittenIInv DEF EchoNext

\* Whatever clients send, and whenever they end or reset their connections, a
\* handle that was closed leaves nothing allocated: not a buffer, a response, a
\* request or the client (read_cb, write_cb, shutdown_cb, close_cb).
THEOREM NothingLeft == EchoSpec => []ConnectionFreed
<1>1. EchoIInv => ConnectionFreed
  <2> SUFFICES ASSUME EchoIInv, NEW c \in Peers, peer[c] = "freed"
               PROVE  \A k \in Kinds : heap[c][k] = 0
    BY DEF ConnectionFreed
  <2>1. Len(writes[c]) = 0
    BY EmptySequence DEF EchoIInv, Pending
  <2> QED
    BY <2>1 DEF EchoIInv, Heap, Kinds
<1> QED
  BY <1>1, EchoInitIInv, EchoStepIInv, PTL DEF EchoSpec

-----------------------------------------------------------------------------
(* What the echo server answers.  The bytes a client has sent are, in order,
   those of the chunks that were read and those still to be read (Read), and the
   responses sent and waiting are those to the chunks (Responded). *)

\* What a response is made of: the prefix, the bytes, and what strlen counts
\* after them.
Shown == Bytes \cup {"server resp:", "junk"}

Texts ==
    /\ said \in [Peers -> Seq(Bytes)] /\ arrived \in [Peers -> Seq(Bytes)]
    /\ chunks \in [Peers -> Seq(Seq(Bytes))]
    /\ writes \in [Peers -> Seq(Seq(Shown))] /\ replies \in [Peers -> Seq(Seq(Shown))]
    /\ ended \in [Peers -> {"no", "eof", "reset"}]

\* What a client has sent was read, chunk by chunk, or is still to be read;
\* after the end of its stream there is nothing left.
Read ==
    \A c \in Peers :
        /\ said[c] = FlattenSeq(chunks[c]) \o arrived[c]
        /\ peer[c] \in {"shutdown", "closing", "freed"} => arrived[c] = <<>> /\ ended[c] # "no"

\* The responses, written and waiting, are those to the chunks.
Responses(c) == replies[c] \o writes[c]

Responded ==
    \A c \in Peers :
        /\ Len(Responses(c)) <= Len(chunks[c])
        /\ server = "up" => Len(Responses(c)) = Len(chunks[c])
        /\ \A i \in 1..Len(Responses(c)) : Echoes(Responses(c)[i], chunks[c][i])

Answers == Texts /\ Read /\ Responded

\* A sequence with one element before it.
LEMMA PrefixedFacts ==
    ASSUME NEW S, NEW e \in S, NEW s \in Seq(S)
    PROVE  /\ <<e>> \o s \in Seq(S) /\ <<e>> \o s # <<>>
           /\ Head(<<e>> \o s) = e /\ Tail(<<e>> \o s) = s
<1>. DEFINE r == <<e>> \o s
<1>1. <<e>> \in Seq(S) /\ Len(<<e>>) = 1 /\ <<e>>[1] = e
  OBVIOUS
<1>2. Len(s) \in Nat
  BY SeqFacts
<1>3. /\ r \in Seq(S) /\ Len(r) = 1 + Len(s)
      /\ \A i \in 1..(1 + Len(s)) : r[i] = IF i <= 1 THEN <<e>>[i] ELSE s[i - 1]
  BY <1>1, ConcatProperties
<1>. HIDE DEF r
<1>4. r # <<>>
  BY <1>2, <1>3, EmptySeq
<1>5. /\ Head(r) = r[1] /\ Tail(r) \in Seq(S) /\ Len(Tail(r)) = Len(r) - 1
      /\ \A i \in 1..(Len(r) - 1) : Tail(r)[i] = r[i + 1]
  BY <1>3, <1>4, TailFacts, HeadTailProperties
<1>6. Head(r) = e
  BY <1>1, <1>2, <1>3, <1>5
<1>7. Tail(r) = s
  <2>1. Len(Tail(r)) = Len(s) /\ \A i \in 1..Len(s) : Tail(r)[i] = s[i]
    BY <1>2, <1>3, <1>5
  <2>. QED BY <1>5, <2>1, SeqEqual
<1>. QED BY <1>3, <1>4, <1>6, <1>7 DEF r

\* A response echoes the chunk it is made of.
LEMMA ResponseFacts ==
    ASSUME NEW chunk \in Seq(Bytes), NEW junk \in Seq({"junk"})
    PROVE  Response(chunk, junk) \in Seq(Shown) /\ Echoes(Response(chunk, junk), chunk)
<1>1. chunk \in Seq(Shown) /\ junk \in Seq(Shown) /\ "server resp:" \in Shown /\ NUL \in Shown
  BY SeqMonotonic, EchoAssumption DEF Shown
<1>2. ASSUME NEW s \in Seq(Shown), AsString(chunk, junk) = s
      PROVE  /\ Response(chunk, junk) \in Seq(Shown)
             /\ Response(chunk, junk) # <<>> /\ Head(Response(chunk, junk)) = "server resp:"
             /\ Tail(Response(chunk, junk)) = s
  BY <1>1, <1>2, PrefixedFacts DEF Response
<1>3. CASE NUL \in ToSet(chunk)
  <2>. DEFINE I == {i \in 1..Len(chunk) : chunk[i] = NUL}
              n == IF I # {} THEN Min(I) ELSE 0
              s == SubSeq(chunk, 1, n - 1)
  <2>1. SelectInSeq(chunk, LAMBDA b : b = NUL) = n
    BY DEF SelectInSeq
  <2>2. n \in 1..Len(chunk) /\ chunk[n] = NUL /\ \A i \in 1..(n - 1) : chunk[i] # NUL
    <3>1. Len(chunk) \in Nat /\ DOMAIN chunk = 1..Len(chunk)
      BY SeqFacts
    <3>2. I # {} /\ I \in SUBSET Nat
      BY <1>3, <3>1, ToSetDef
    <3>3. PICK m \in I : \A k \in I : m <= k
      <4>. HIDE DEF I
      <4>. QED BY <3>2, LeastNatural
    <3>4. Min(I) \in I /\ \A k \in I : Min(I) <= k
      <4>. HIDE DEF I
      <4>. QED BY <3>3 DEF Min
    <3>5. n \in I /\ \A k \in I : n <= k
      BY <3>2, <3>4
    <3>. HIDE DEF n
    <3>. QED BY <3>1, <3>5
  <2>. HIDE DEF n
  <2>3. s \in Seq(Shown) /\ Len(s) = n - 1 /\ \A i \in 1..(n - 1) : s[i] = chunk[i]
    <3>0. Len(chunk) \in Nat
      BY SeqFacts
    <3>1. /\ 1 \in 1..(Len(chunk) + 1) /\ n - 1 \in (1 - 1)..Len(chunk)
          /\ ((n - 1) - 1) + 1 = n - 1
      BY <2>2, <3>0
    <3>2. /\ s \in Seq(Shown) /\ Len(s) = ((n - 1) - 1) + 1
          /\ \A i \in 1..(((n - 1) - 1) + 1) : s[i] = chunk[(1 + i) - 1]
      BY <1>1, <3>1, PartFacts
    <3>. HIDE DEF s
    <3>. QED BY <3>1, <3>2
  <2>4. AsString(chunk, junk) = s
    BY <1>3, <2>1 DEF AsString
  <2>. HIDE DEF s
  <2>5. NUL \notin ToSet(s)
    <3>1. DOMAIN s = 1..(n - 1)
      BY <2>3, SeqFacts
    <3>. QED BY <2>2, <2>3, <3>1, ToSetDef
  <2>6. IsPrefix(Append(s, NUL), chunk)
    <3>1. /\ Append(s, NUL) \in Seq(Shown) /\ Len(Append(s, NUL)) = (n - 1) + 1
          /\ Append(s, NUL)[(n - 1) + 1] = NUL
          /\ \A i \in 1..(n - 1) : Append(s, NUL)[i] = s[i]
      <4>1. /\ Append(s, NUL) \in Seq(Shown) /\ Len(Append(s, NUL)) = Len(s) + 1
            /\ Append(s, NUL)[Len(s) + 1] = NUL
            /\ \A i \in 1..Len(s) : Append(s, NUL)[i] = s[i]
        <5>1. NUL \in Shown /\ s \in Seq(Shown)
          BY <1>1, <2>3
        <5>. QED BY <5>1, AppendFacts
      <4>. QED BY <2>3, <4>1
    <3>2. Len(Append(s, NUL)) <= Len(chunk) /\ Len(Append(s, NUL)) = n
      BY <2>2, <3>1, SeqFacts
    <3>3. \A i \in 1..n : Append(s, NUL)[i] = chunk[i]
      <4>1. Append(s, NUL)[n] = NUL
        BY <2>2, <3>1
      <4>2. \A i \in 1..n : i = n \/ i \in 1..(n - 1)
        BY <2>2
      <4>. QED BY <2>2, <2>3, <3>1, <4>1, <4>2
    <3>. QED BY <1>1, <3>1, <3>2, <3>3, PrefixFacts
  <2>. QED BY <1>2, <1>3, <2>3, <2>4, <2>5, <2>6 DEF Echoes
<1>4. CASE NUL \notin ToSet(chunk)
  <2>1. AsString(chunk, junk) = chunk \o junk
    BY <1>4 DEF AsString
  <2>2. /\ chunk \o junk \in Seq(Shown) /\ Len(chunk \o junk) = Len(chunk) + Len(junk)
        /\ \A i \in 1..(Len(chunk) + Len(junk)) :
              (chunk \o junk)[i] = IF i <= Len(chunk) THEN chunk[i] ELSE junk[i - Len(chunk)]
    BY <1>1, ConcatProperties
  <2>3. Len(chunk) \in Nat /\ Len(junk) \in Nat
    BY SeqFacts
  <2>4. Len(chunk) <= Len(chunk \o junk) /\ \A i \in 1..Len(chunk) : (chunk \o junk)[i] = chunk[i]
    <3>1. \A i \in 1..Len(chunk) : i \in 1..(Len(chunk) + Len(junk)) /\ i <= Len(chunk)
      BY <2>3
    <3>. QED BY <2>2, <2>3, <3>1
  <2>5. IsPrefix(chunk, chunk \o junk)
    BY <1>1, <2>2, <2>4, PrefixFacts
  <2>. QED BY <1>2, <1>4, <2>1, <2>2, <2>5 DEF Echoes
<1>. QED BY <1>3, <1>4

LEMMA AnswersInit == EchoInit => Answers
<1>. SUFFICES ASSUME EchoInit PROVE Answers
  OBVIOUS
<1>1. <<>> \in Seq(Bytes) /\ <<>> \in Seq(Seq(Bytes)) /\ <<>> \in Seq(Seq(Shown))
  BY EmptySeq
<1>2. Texts
  BY <1>1 DEF EchoInit, Texts
<1>3. FlattenSeq(<<>>) = <<>> /\ <<>> \o <<>> = <<>> /\ Len(<<>>) = 0
  BY <1>1, FlattenFacts, ConcatEmptySeq, EmptySeq
<1>4. Read
  BY <1>3 DEF EchoInit, Read
<1>5. Responded
  <2>1. \A k \in 1..0 : FALSE
    OBVIOUS
  <2>. QED BY <1>3, <2>1 DEF EchoInit, Responded, Responses
<1>. QED BY <1>2, <1>4, <1>5 DEF Answers

\* Steps that leave the bytes and the responses alone: those of handles, of
\* what is allocated, and of a server that exits.
LEMMA SameAnswers ==
    ASSUME Answers, UNCHANGED <<said, arrived, chunks, writes, replies>>,
           ended' \in [Peers -> {"no", "eof", "reset"}],
           server' # server => server' # "up",
           \A c \in Peers : /\ peer'[c] \in {"shutdown", "closing", "freed"} =>
                                 \/ peer[c] \in {"shutdown", "closing", "freed"}
                                 \/ arrived[c] = <<>> /\ ended[c] # "no"
                            /\ ended[c] # "no" => ended'[c] # "no"
    PROVE  Answers'
<1>. USE DEF Answers
<1>1. Texts'
  BY DEF Texts
<1>2. Read'
  BY DEF Read
<1>3. Responded'
  BY DEF Responded, Responses
<1>. QED BY <1>1, <1>2, <1>3

LEMMA SendsAnswers ==
    ASSUME EchoTypes, Answers, NEW c \in Peers, NEW b \in Bytes, PeerSends(c, b)
    PROVE  Answers'
<1>. USE DEF Answers, PeerSends
<1>1. /\ Append(said[c], b) \in Seq(Bytes) /\ Append(arrived[c], b) \in Seq(Bytes)
      /\ arrived[c] \in Seq(Bytes) /\ chunks[c] \in Seq(Seq(Bytes))
  BY AppendProperties DEF Texts
<1>2. Texts'
  BY <1>1 DEF Texts
<1>3. Read'
  <2>1. FlattenSeq(chunks[c]) \in Seq(Bytes)
    BY <1>1, FlattenFacts
  <2>2. Append(said[c], b) = FlattenSeq(chunks[c]) \o Append(arrived[c], b)
    <3>1. \A r, w \in Seq(Bytes) : r \o Append(w, b) = Append(r \o w, b)
      BY AppendOfConcat
    <3>. QED BY <1>1, <2>1, <3>1 DEF Read
  <2>. QED BY <2>2 DEF Read, Texts
<1>4. Responded'
  BY DEF Responded, Responses
<1>. QED BY <1>2, <1>3, <1>4

LEMMA ReadAnswers ==
    ASSUME EchoTypes, Answers, NEW c \in Peers, NEW n \in Nat, NEW junk \in Seq({"junk"}), ReadChunk(c, n, junk)
    PROVE  Answers'
<1>. USE DEF Answers
<1>. DEFINE chunk == SubSeq(arrived[c], 1, n)  rest == SubSeq(arrived[c], n + 1, Len(arrived[c]))
<1>1. /\ server = "up" /\ peer[c] = "open" /\ n \in 1..Len(arrived[c])
      /\ arrived' = [arrived EXCEPT ![c] = rest]
      /\ chunks' = [chunks EXCEPT ![c] = Append(@, chunk)]
      /\ \/ server' = "quit" /\ writes' = writes
         \/ writes' = [writes EXCEPT ![c] = Append(@, Response(chunk, junk))]
      /\ UNCHANGED <<peer, said, ended, replies>>
  BY DEF ReadChunk
<1>2. /\ arrived[c] \in Seq(Bytes) /\ chunks[c] \in Seq(Seq(Bytes))
      /\ writes[c] \in Seq(Seq(Shown)) /\ replies[c] \in Seq(Seq(Shown))
  BY DEF Texts
<1>3. chunk \in Seq(Bytes) /\ rest \in Seq(Bytes) /\ chunk \o rest = arrived[c]
  <2>1. Len(arrived[c]) \in Nat
    BY <1>2, SeqFacts
  <2>2. /\ 1 \in 1..(Len(arrived[c]) + 1) /\ n \in (1 - 1)..Len(arrived[c])
        /\ n + 1 \in 1..(Len(arrived[c]) + 1) /\ Len(arrived[c]) \in ((n + 1) - 1)..Len(arrived[c])
        /\ n \in 0..Len(arrived[c])
    BY <1>1, <2>1
  <2>3. chunk \in Seq(Bytes)
    BY <1>2, <2>2, PartFacts
  <2>4. rest \in Seq(Bytes)
    BY <1>2, <2>2, PartFacts
  <2>5. chunk \o rest = arrived[c]
    BY <1>2, <2>2, PartsJoined
  <2>. QED BY <2>3, <2>4, <2>5
<1>. HIDE DEF chunk, rest
<1>4. Response(chunk, junk) \in Seq(Shown) /\ Echoes(Response(chunk, junk), chunk)
  BY <1>3, ResponseFacts
<1>5. /\ Append(chunks[c], chunk) \in Seq(Seq(Bytes)) /\ Len(chunks[c]) \in Nat
      /\ Len(Append(chunks[c], chunk)) = Len(chunks[c]) + 1
      /\ Append(chunks[c], chunk)[Len(chunks[c]) + 1] = chunk
      /\ \A i \in 1..Len(chunks[c]) : Append(chunks[c], chunk)[i] = chunks[c][i]
  BY <1>2, <1>3, AppendProperties, SeqFacts
<1>6. Texts'
  <2>1. Append(writes[c], Response(chunk, junk)) \in Seq(Seq(Shown))
    BY <1>2, <1>4, AppendProperties
  <2>2. writes' \in [Peers -> Seq(Seq(Shown))]
    BY <1>1, <2>1 DEF Texts
  <2>3. arrived' \in [Peers -> Seq(Bytes)] /\ chunks' \in [Peers -> Seq(Seq(Bytes))]
    BY <1>1, <1>3, <1>5 DEF Texts
  <2>. QED BY <1>1, <2>2, <2>3 DEF Texts
<1>7. Read'
  <2>1. FlattenSeq(chunks[c]) \in Seq(Bytes) /\ FlattenSeq(Append(chunks[c], chunk)) = FlattenSeq(chunks[c]) \o chunk
    <3>1. \A q \in Seq(Seq(Bytes)) : /\ FlattenSeq(q) \in Seq(Bytes)
                                     /\ \A e \in Seq(Bytes) : FlattenSeq(Append(q, e)) = FlattenSeq(q) \o e
      BY FlattenFacts
    <3>. QED BY <1>2, <1>3, <3>1
  <2>2. (FlattenSeq(chunks[c]) \o chunk) \o rest = FlattenSeq(chunks[c]) \o (chunk \o rest)
    <3>1. \A r, s, t \in Seq(Bytes) : (r \o s) \o t = r \o (s \o t)
      BY ConcatAssociative
    <3>. QED BY <1>3, <2>1, <3>1
  <2>3. said[c] = FlattenSeq(Append(chunks[c], chunk)) \o rest
    BY <1>3, <2>1, <2>2 DEF Read
  <2>4. /\ chunks'[c] = Append(chunks[c], chunk) /\ arrived'[c] = rest
        /\ \A d \in Peers : d # c => chunks'[d] = chunks[d] /\ arrived'[d] = arrived[d]
    BY <1>1 DEF Texts
  <2>. QED BY <1>1, <2>3, <2>4 DEF Read
<1>8. /\ Len(Responses(c)) = Len(chunks[c]) /\ Responses(c) \in Seq(Seq(Shown))
      /\ \A i \in 1..Len(chunks[c]) : Echoes(Responses(c)[i], chunks[c][i])
  BY <1>1, <1>2, ConcatProperties DEF Responded, Responses
<1>9. chunks'[c] = Append(chunks[c], chunk) /\ \A d \in Peers : d # c => chunks'[d] = chunks[d]
  BY <1>1 DEF Texts
<1>10. ASSUME NEW d \in Peers, d # c
       PROVE  /\ Len(Responses(d)') <= Len(chunks'[d])
              /\ server' = "up" => Len(Responses(d)') = Len(chunks'[d])
              /\ \A i \in 1..Len(Responses(d)') : Echoes(Responses(d)'[i], chunks'[d][i])
  <2>1. Responses(d)' = Responses(d) /\ chunks'[d] = chunks[d]
    BY <1>1, <1>9, <1>10 DEF Responses, Texts
  <2>. QED BY <1>1, <2>1 DEF Responded
<1>11. /\ Len(Responses(c)') <= Len(chunks'[c])
       /\ server' = "up" => Len(Responses(c)') = Len(chunks'[c])
       /\ \A i \in 1..Len(Responses(c)') : Echoes(Responses(c)'[i], chunks'[c][i])
  <2>1. CASE server' = "quit" /\ writes' = writes
    <3>1. Responses(c)' = Responses(c)
      BY <1>1, <2>1 DEF Responses
    <3>2. Len(Responses(c)) <= Len(chunks'[c]) /\ server' # "up"
      BY <1>5, <1>8, <1>9, <2>1
    <3>3. \A i \in 1..Len(Responses(c)) : Echoes(Responses(c)[i], chunks'[c][i])
      BY <1>5, <1>8, <1>9
    <3>. QED BY <3>1, <3>2, <3>3
  <2>2. CASE writes' = [writes EXCEPT ![c] = Append(@, Response(chunk, junk))]
    <3>1. Responses(c)' = Append(Responses(c), Response(chunk, junk))
      <4>1. Responses(c)' = replies[c] \o Append(writes[c], Response(chunk, junk))
        BY <1>1, <2>2 DEF Responses, Texts
      <4>2. replies[c] \o Append(writes[c], Response(chunk, junk)) =
              Append(replies[c] \o writes[c], Response(chunk, junk))
        <5>1. \A e \in Seq(Shown) : \A r, w \in Seq(Seq(Shown)) : r \o Append(w, e) = Append(r \o w, e)
          BY AppendOfConcat
        <5>. QED BY <1>2, <1>4, <5>1
      <4>. QED BY <4>1, <4>2 DEF Responses
    <3>2. /\ Len(Responses(c)') = Len(chunks[c]) + 1
          /\ Responses(c)'[Len(chunks[c]) + 1] = Response(chunk, junk)
          /\ \A i \in 1..Len(chunks[c]) : Responses(c)'[i] = Responses(c)[i]
      BY <1>4, <1>8, <3>1, AppendProperties
    <3>3. \A i \in 1..(Len(chunks[c]) + 1) : i \in 1..Len(chunks[c]) \/ i = Len(chunks[c]) + 1
      BY <1>5
    <3>4. ASSUME NEW i \in 1..(Len(chunks[c]) + 1)
          PROVE  Echoes(Responses(c)'[i], chunks'[c][i])
      <4>1. CASE i \in 1..Len(chunks[c])
        BY <1>5, <1>8, <1>9, <3>2, <4>1
      <4>2. CASE i = Len(chunks[c]) + 1
        BY <1>4, <1>5, <1>9, <3>2, <4>2
      <4>. QED BY <3>3, <4>1, <4>2
    <3>. QED BY <1>5, <1>9, <3>2, <3>4
  <2>. QED BY <1>1, <2>1, <2>2
<1>12. Responded'
  BY <1>10, <1>11 DEF Responded
<1>. QED BY <1>6, <1>7, <1>12

LEMMA WrittenAnswers ==
    ASSUME EchoTypes, Answers, NEW c \in Peers, ResponseWritten(c)
    PROVE  Answers'
<1>. USE DEF Answers, ResponseWritten
<1>1. /\ writes[c] \in Seq(Seq(Shown)) /\ replies[c] \in Seq(Seq(Shown)) /\ writes[c] # <<>>
  BY DEF Texts
<1>2. /\ Head(writes[c]) \in Seq(Shown) /\ Tail(writes[c]) \in Seq(Seq(Shown))
      /\ Append(replies[c], Head(writes[c])) \in Seq(Seq(Shown))
  BY <1>1, HeadTailProperties, AppendProperties
<1>3. Texts'
  BY <1>2 DEF Texts
<1>4. Read'
  BY DEF Read
<1>5. \A d \in Peers : Responses(d)' = Responses(d)
  <2>1. Append(replies[c], Head(writes[c])) \o Tail(writes[c]) = Responses(c)
    BY <1>1, HeadMoved DEF Responses
  <2>. QED BY <2>1 DEF Responses, Texts
<1>6. Responded'
  BY <1>5 DEF Responded
<1>. QED BY <1>3, <1>4, <1>6

LEMMA StepAnswers == EchoTypes /\ Answers /\ [EchoNext]_echoVars => Answers'
<1>. SUFFICES ASSUME EchoTypes, Answers, [EchoNext]_echoVars PROVE Answers'
  OBVIOUS
<1>1. CASE UNCHANGED echoVars
  BY <1>1, SameAnswers DEF echoVars, Answers, Texts
<1>2. ASSUME NEW c \in Peers, PeerConnects(c) \/ Accept(c)
      PROVE  Answers'
  <2>1. peer' \in [Peers -> States] /\ peer'[c] \in {"backlog", "open"} /\ \A d \in Peers : d # c => peer'[d] = peer[d]
    BY <1>2 DEF PeerConnects, Accept, EchoTypes, States
  <2>. QED BY <1>2, <2>1, SameAnswers DEF PeerConnects, Accept, Answers, Texts
<1>3. ASSUME NEW c \in Peers, PeerEnds(c) \/ PeerResets(c)
      PROVE  Answers'
  <2>1. ended' \in [Peers -> {"no", "eof", "reset"}] /\ \A d \in Peers : ended[d] # "no" => ended'[d] # "no"
    BY <1>3 DEF PeerEnds, PeerResets, Answers, Texts
  <2>. QED BY <1>3, <2>1, SameAnswers DEF PeerEnds, PeerResets
<1>4. ASSUME NEW c \in Peers, EchoExit(c)
      PROVE  Answers'
  BY <1>4, SameAnswers DEF EchoExit, Answers, Texts
<1>5. ASSUME NEW c \in Peers, EndOfStream(c) \/ StreamShutdown(c) \/ StreamClosed(c)
      PROVE  Answers'
  <2>1. /\ \A d \in Peers : d # c => peer'[d] = peer[d]
        /\ peer[c] \in {"shutdown", "closing", "freed"} \/ (arrived[c] = <<>> /\ ended[c] # "no")
    BY <1>5 DEF EndOfStream, StreamShutdown, StreamClosed, EchoTypes
  <2>2. UNCHANGED <<server, said, arrived, ended, chunks, writes, replies>>
    BY <1>5 DEF EndOfStream, StreamShutdown, StreamClosed
  <2>. QED BY <2>1, <2>2, SameAnswers DEF Answers, Texts
<1>6. ASSUME NEW c \in Peers, NEW n \in 1..MaxSaid, NEW j \in 0..MaxJunk, ReadChunk(c, n, [i \in 1..j |-> "junk"])
      PROVE  Answers'
  <2>1. n \in Nat /\ [i \in 1..j |-> "junk"] \in Seq({"junk"})
    BY EchoAssumption
  <2>. QED BY <1>6, <2>1, ReadAnswers
<1>7. ASSUME NEW c \in Peers, NEW b \in Bytes, PeerSends(c, b)
      PROVE  Answers'
  BY <1>7, SendsAnswers
<1>. QED BY <1>1, <1>2, <1>3, <1>4, <1>5, <1>6, <1>7, WrittenAnswers DEF EchoNext, EchoCallback

\* However what clients send is cut into chunks, and whenever they end or reset
\* their connections: each chunk has its response, in order, and a connection that
\* ended is closed after everything was read and answered (read_cb, write_cb,
\* shutdown_cb).
THEOREM ChunksAnswered == EchoSpec => []Answered
<1>1. EchoIInv /\ Answers => Answered
  <2>. SUFFICES ASSUME EchoIInv, Answers, NEW c \in Peers
                PROVE  /\ server = "up" => Len(Responses(c)) = Len(chunks[c])
                       /\ \A i \in DOMAIN Responses(c) : Echoes(Responses(c)[i], chunks[c][i])
                       /\ peer[c] \in {"closing", "freed"} /\ ended[c] = "eof" =>
                            writes[c] = <<>> /\ FlattenSeq(chunks[c]) = said[c]
    BY DEF Answered, Responses
  <2>1. DOMAIN Responses(c) = 1..Len(Responses(c))
    <3>1. Responses(c) \in Seq(Seq(Shown))
      BY ConcatProperties DEF Answers, Texts, Responses
    <3>. QED BY <3>1, SeqFacts
  <2>2. ASSUME peer[c] \in {"closing", "freed"}
        PROVE  writes[c] = <<>> /\ FlattenSeq(chunks[c]) = said[c]
    <3>1. writes[c] = <<>> /\ arrived[c] = <<>>
      BY <2>2 DEF EchoIInv, Pending, Answers, Read
    <3>2. chunks[c] \in Seq(Seq(Bytes))
      BY DEF Answers, Texts
    <3>3. FlattenSeq(chunks[c]) \in Seq(Bytes)
      BY <3>2, FlattenFacts
    <3>. QED BY <3>1, <3>3, ConcatEmptySeq DEF Answers, Read
  <2>. QED BY <2>1, <2>2 DEF Answers, Responded
<1>2. EchoIInv => EchoTypes
  BY DEF EchoIInv
<1>. QED BY <1>1, <1>2, EchoInitIInv, EchoStepIInv, AnswersInit, StepAnswers, PTL DEF EchoSpec

-----------------------------------------------------------------------------
(* The programs that print a file.  While a file is open its descriptor is the
   first that was free, LoopDescs, and the requests in use are those that the
   program cleans up at its end (Descriptors). *)

FilesTypes ==
    /\ exercise \in Programs
    /\ length \in 0..BUF_SIZE
    /\ step \in {"open", "read", "close", "done", "exit", "undefined"}
    /\ step = "close" => exercise = "06"

Descriptors ==
    /\ step = "open" => descs = 0..(LoopDescs - 1)
    /\ step \in {"read", "close"} => /\ fd = LoopDescs /\ descs = 0..LoopDescs
                                     /\ started \subseteq Cleaned
                                     /\ exercise \in {"03", "04"} => "context" \notin blocks

FilesIInv ==
    /\ FilesTypes
    /\ Descriptors
    /\ step = "open" => blocks = FirstBlocks
    /\ Released

LEMMA FilesInitIInv == FilesInit => FilesIInv
BY FilesAssumption DEF FilesInit, FilesIInv, FilesTypes, Descriptors, FirstBlocks, Released, Programs

\* The file's descriptor is the first that is free.
LEMMA OpenedIInv ==
  ASSUME FilesIInv, SyncOpen \/ AsyncOpen \/ ContextOpen \/ AllAsyncOpen
  PROVE  FilesIInv'
<1>1. /\ step = "open" /\ step' \in {"read", "undefined"}
      /\ fd' = Min((0..LoopDescs) \ descs) /\ descs' = descs \cup {fd'}
      /\ started' = {"open_req"} /\ UNCHANGED <<exercise, length>>
      /\ exercise \in {"03", "04"} => blocks' = blocks
  BY DEF SyncOpen, AsyncOpen, ContextOpen, AllAsyncOpen, Opened
<1>2. (0..LoopDescs) \ descs = {LoopDescs} /\ descs \cup {LoopDescs} = 0..LoopDescs
  BY <1>1, FilesAssumption DEF FilesIInv, Descriptors
<1>3. fd' = LoopDescs
  BY <1>1, <1>2, FilesAssumption DEF Min
<1>4. exercise \in {"03", "04"} => "context" \notin blocks'
  BY <1>1 DEF FilesIInv, FirstBlocks
<1> QED
  BY <1>1, <1>2, <1>3, <1>4 DEF FilesIInv, FilesTypes, Descriptors, Released, Cleaned

LEMMA ClosedIInv ==
  ASSUME FilesIInv, SyncRead \/ AsyncRead \/ ContextRead \/ AllAsyncRead \/ AllAsyncClose
  PROVE  FilesIInv'
<1>1. /\ fd = LoopDescs /\ descs = 0..LoopDescs /\ started \subseteq Cleaned
      /\ descs \ {LoopDescs} = 0..(LoopDescs - 1) /\ UNCHANGED <<exercise, length, fd>>
      /\ exercise \in {"03", "04"} => "context" \notin blocks
  <2>1. step \in {"read", "close"} /\ UNCHANGED <<exercise, length, fd>>
    BY DEF SyncRead, AsyncRead, ContextRead, AllAsyncRead, AllAsyncClose, ReadOf
  <2>2. (0..LoopDescs) \ {LoopDescs} = 0..(LoopDescs - 1)
    BY FilesAssumption
  <2>3. /\ fd = LoopDescs /\ descs = 0..LoopDescs /\ started \subseteq Cleaned
        /\ exercise \in {"03", "04"} => "context" \notin blocks
    BY <2>1 DEF FilesIInv, Descriptors
  <2>. QED BY <2>1, <2>2, <2>3
<1>2. CASE SyncRead
  BY <1>1, <1>2 DEF FilesIInv, FilesTypes, Descriptors, Released, SyncRead, ReadOf
<1>3. CASE AsyncRead
  <2>1. /\ nread' = length /\ descs' = (0..LoopDescs) \ {length} /\ started' = {}
        /\ step' \in {"done", "undefined"} /\ "context" \notin blocks'
    BY <1>1, <1>3 DEF AsyncRead, ReadOf
  <2>2. descs' = IF exercise' # "04" \/ nread' = fd' THEN 0..(LoopDescs - 1)
                 ELSE (0..LoopDescs) \ {nread'}
    <3>1. exercise' = "04"
      BY <1>3 DEF AsyncRead, ReadOf
    <3>. QED BY <1>1, <2>1, <3>1
  <2>3. FilesTypes' /\ Descriptors'
    BY <1>1, <2>1 DEF FilesIInv, FilesTypes, Descriptors
  <2>. QED BY <2>1, <2>2, <2>3 DEF FilesIInv, Released
<1>4. CASE ContextRead
  BY <1>1, <1>4 DEF FilesIInv, FilesTypes, Descriptors, Released, ContextRead, ContextFile, ReadOf
<1>5. CASE AllAsyncRead
  BY <1>1, <1>5 DEF FilesIInv, FilesTypes, Descriptors, Released, AllAsyncRead, ReadOf, Cleaned
<1>6. CASE AllAsyncClose
  BY <1>1, <1>6 DEF FilesIInv, FilesTypes, Descriptors, Released, AllAsyncClose
<1> QED
  BY <1>2, <1>3, <1>4, <1>5, <1>6

LEMMA FilesStepIInv == FilesIInv /\ [FilesNext]_fileVars => FilesIInv'
<1> SUFFICES ASSUME FilesIInv, [FilesNext]_fileVars PROVE FilesIInv'
  OBVIOUS
<1>1. CASE UNCHANGED fileVars
  BY <1>1 DEF fileVars, FilesIInv, FilesTypes, Descriptors, Released, FirstBlocks
<1>2. CASE FileExit
  BY <1>2 DEF FileExit, FilesIInv, FilesTypes, Descriptors, Released
<1> QED
  BY <1>1, <1>2, OpenedIInv, ClosedIInv DEF FilesNext

\* Whatever the file's length and the descriptors the loop has, a program that
\* ends has cleaned up its requests, freed its context and closed its file, but
\* for 04, which closes the descriptor with the number of the bytes that were
\* read (main of 03, read_cb, close_cb).
THEOREM FilesReleased == FilesSpec => []Released
<1>1. FilesIInv => Released
  BY DEF FilesIInv
<1> QED
  BY <1>1, FilesInitIInv, FilesStepIInv, PTL DEF FilesSpec

-----------------------------------------------------------------------------
(* The questions.  What snprintf writes is, by induction on the number, the text
   that is read as that number again (NumeralValue, which rests on Recursion for
   the two recursive functions and on LeastNatural for the induction); and no
   character of an answer ends a line (NotTheEnd). *)

DigitsOf(base) == {Digit[d + 1] : d \in 0..(base - 1)}

LEMMA DigitFacts ==
    ASSUME NEW base \in {10, 16}
    PROVE  /\ \A d \in 0..(base - 1) : Digit[d + 1] \in DigitsOf(base)
           /\ \A d, e \in 0..(base - 1) : Digit[d + 1] = Digit[e + 1] => d = e
           /\ \A n \in Nat : n < base => n \in 0..(base - 1)
           /\ \A n \in Nat : n >= base => n \div base \in Nat /\ n \div base < n
           /\ \A n \in Nat : n % base \in 0..(base - 1) /\ n \div base \in Nat
           /\ \A n \in Nat : n = ((n \div base) * base) + (n % base)
<1>1. \A d, e \in 0..15 : Digit[d + 1] = Digit[e + 1] => d = e
  BY DEF Digit
<1>2. \A d \in 0..(base - 1) : d \in 0..15
  OBVIOUS
<1>3. \A d \in 0..(base - 1) : Digit[d + 1] \in DigitsOf(base)
  BY DEF DigitsOf
<1>4. CASE base = 10
  <2>1. \A n \in Nat : n >= 10 => n \div 10 \in Nat /\ n \div 10 < n
    OBVIOUS
  <2>2. \A n \in Nat : n % 10 \in 0..9 /\ n \div 10 \in Nat /\ n = ((n \div 10) * 10) + (n % 10)
    OBVIOUS
  <2>. QED BY <1>1, <1>2, <1>3, <1>4, <2>1, <2>2
<1>5. CASE base = 16
  <2>1. \A n \in Nat : n >= 16 => n \div 16 \in Nat /\ n \div 16 < n
    OBVIOUS
  <2>2. \A n \in Nat : n % 16 \in 0..15 /\ n \div 16 \in Nat /\ n = ((n \div 16) * 16) + (n % 16)
    OBVIOUS
  <2>. QED BY <1>1, <1>2, <1>3, <1>5, <2>1, <2>2
<1>. QED BY <1>4, <1>5

\* The digits of a number: those of the number without its last, and the last.
LEMMA NumeralFacts ==
    ASSUME NEW n \in Nat, NEW base \in {10, 16}
    PROVE  /\ Numeral(n, base) \in Seq(DigitsOf(base))
           /\ Numeral(n, base) = IF n < base THEN <<Digit[n + 1]>>
                                 ELSE Append(Numeral(n \div base, base), Digit[(n % base) + 1])
<1>. DEFINE V == Seq(DigitsOf(base))
            B == 0..(base - 1)
            b == [m \in Nat |-> IF m < base THEN <<Digit[m + 1]>> ELSE <<>>]
            p == [m \in Nat |-> m \div base]
            F == [m \in Nat |-> [v \in V |-> Append(v, Digit[(m % base) + 1])]]
            rank == [m \in Nat |-> m]
            Def(f) == f = [m \in Nat |-> IF m < base THEN <<Digit[m + 1]>>
                                         ELSE Append(f[m \div base], Digit[(m % base) + 1])]
            numeral == CHOOSE f : Def(f)
<1>1. RecursionOn(Nat, V, B, b, p, F, rank)
  <2>1. b \in [Nat -> V]
    BY DigitFacts
  <2>2. p \in [Nat -> Nat]
    BY DigitFacts
  <2>3. F \in [Nat -> [V -> V]]
    <3>1. \A m \in Nat : Digit[(m % base) + 1] \in DigitsOf(base)
      BY DigitFacts
    <3>2. \A S : \A v \in Seq(S) : \A d \in S : Append(v, d) \in Seq(S)
      BY AppendProperties
    <3>3. \A m \in Nat : \A v \in V : Append(v, Digit[(m % base) + 1]) \in V
      BY <3>1, <3>2
    <3>. QED BY <3>3
  <2>4. rank \in [Nat -> Nat] /\ \A m \in Nat \ B : rank[p[m]] < rank[m]
    BY DigitFacts
  <2>. HIDE DEF V, B, b, p, F, rank
  <2>. QED BY <2>1, <2>2, <2>3, <2>4 DEF RecursionOn
<1>2. PICK f \in [Nat -> V] : \A m \in Nat : f[m] = IF m \in B THEN b[m] ELSE F[m][f[p[m]]]
  <2>. HIDE DEF V, B, b, p, F, rank
  <2>. QED BY <1>1, Recursion
<1>3. ASSUME NEW m \in Nat
      PROVE  f[m] = IF m < base THEN <<Digit[m + 1]>> ELSE Append(f[m \div base], Digit[(m % base) + 1])
  <2>1. m \div base \in Nat /\ f[m \div base] \in V
    BY DigitFacts
  <2>2. CASE m < base
    <3>1. m \in B /\ b[m] = <<Digit[m + 1]>>
      BY <2>2, DigitFacts
    <3>2. f[m] = b[m]
      <4>. HIDE DEF B, b, F, p
      <4>. QED BY <1>2, <3>1
    <3>. QED BY <2>2, <3>1, <3>2
  <2>3. CASE ~(m < base)
    <3>1. m \notin B /\ p[m] = m \div base
      BY <2>3
    <3>2. f[m] = F[m][f[p[m]]]
      <4>. HIDE DEF B, b, F, p
      <4>. QED BY <1>2, <3>1
    <3>3. F[m][f[m \div base]] = Append(f[m \div base], Digit[(m % base) + 1])
      <4>. HIDE DEF V
      <4>. QED BY <2>1
    <3>. QED BY <2>3, <3>1, <3>2, <3>3
  <2>. QED BY <2>2, <2>3
<1>4. Def(f)
  <2>. HIDE DEF V
  <2>. QED BY <1>3
<1>5. Def(numeral)
  <2>. HIDE DEF Def
  <2>. QED BY <1>4
<1>6. \A m \in Nat : Numeral(m, base) = numeral[m]
  BY DEF Numeral
<1>7. ASSUME NEW m \in Nat, m >= base PROVE  m \div base \in Nat /\ m \div base < m
  BY <1>7, DigitFacts
<1>8. \A m \in Nat : numeral[m] \in V
  <2>. DEFINE Failing == {m \in Nat : numeral[m] \notin V}
  <2>1. SUFFICES ASSUME Failing # {} PROVE FALSE
    OBVIOUS
  <2>2. PICK m \in Failing : \A k \in Failing : m <= k
    <3>1. Failing \in SUBSET Nat
      OBVIOUS
    <3>. HIDE DEF Failing
    <3>. QED BY <2>1, <3>1, LeastNatural
  <2>3. numeral[m] = IF m < base THEN <<Digit[m + 1]>>
                     ELSE Append(numeral[m \div base], Digit[(m % base) + 1])
    <3>. HIDE DEF numeral
    <3>. QED BY <1>5, <2>2
  <2>4. CASE m < base
    <3>1. m \in Nat /\ numeral[m] \notin V
      BY <2>2
    <3>2. Digit[m + 1] \in DigitsOf(base)
      BY <2>4, <3>1, DigitFacts
    <3>3. <<Digit[m + 1]>> \in V
      BY <3>2
    <3>. HIDE DEF numeral, V
    <3>. QED BY <2>3, <2>4, <3>1, <3>3
  <2>5. CASE ~(m < base)
    <3>0. m \in Nat /\ m >= base
      BY <2>2, <2>5
    <3>1. m \div base \in Nat /\ m \div base < m
      BY <3>0, DigitFacts
    <3>2. numeral[m \div base] \in V
      <4>. HIDE DEF numeral, V
      <4>. QED BY <2>2, <3>1
    <3>3. Digit[(m % base) + 1] \in DigitsOf(base)
      BY <2>2, DigitFacts
    <3>4. numeral[m] \in V
      <4>. HIDE DEF numeral
      <4>. QED BY <2>3, <2>5, <3>2, <3>3, AppendFacts
    <3>. QED BY <2>2, <3>4
  <2>. QED BY <2>4, <2>5
<1>9. n \div base \in Nat
  BY DigitFacts
<1>. HIDE DEF numeral, V
<1>. QED BY <1>5, <1>6, <1>8, <1>9 DEF V

\* The number of a digit.
DigitValue(c, base) == CHOOSE d \in 0..(base - 1) : Digit[d + 1] = c

LEMMA DigitValueFacts ==
    ASSUME NEW base \in {10, 16}
    PROVE  /\ \A d \in 0..(base - 1) : DigitValue(Digit[d + 1], base) = d
           /\ \A c \in DigitsOf(base) : DigitValue(c, base) \in 0..(base - 1)
<1>1. \A d, e \in 0..(base - 1) : Digit[d + 1] = Digit[e + 1] => d = e
  BY DigitFacts
<1>2. \A d \in 0..(base - 1) : DigitValue(Digit[d + 1], base) = d
  BY <1>1 DEF DigitValue
<1>. QED BY <1>2 DEF DigitsOf

\* v has the values of the text's beginnings.
Values(v, text, base) ==
    /\ v \in [0..Len(text) -> Int] /\ v[0] = 0
    /\ \A i \in 1..Len(text) : v[i] = (v[i - 1] * base) + DigitValue(text[i], base)

LEMMA ValuesExist ==
    ASSUME NEW base \in {10, 16}, NEW text \in Seq(DigitsOf(base))
    PROVE  \E v : Values(v, text, base) /\ ValueOf(text, base) = v[Len(text)]
<1>. DEFINE D == 0..Len(text)
            b == [i \in D |-> 0]
            p == [i \in D |-> IF i = 0 THEN 0 ELSE i - 1]
            F == [i \in D |-> [v \in Int |-> (v * base) + (IF i = 0 THEN 0 ELSE DigitValue(text[i], base))]]
            rank == [i \in D |-> i]
            Def(f) == f = [i \in 0..Len(text) |->
                             IF i = 0 THEN 0
                             ELSE (f[i - 1] * base) + (CHOOSE d \in 0..(base - 1) : Digit[d + 1] = text[i])]
            value == CHOOSE f : Def(f)
<1>1. Len(text) \in Nat /\ \A i \in 1..Len(text) : text[i] \in DigitsOf(base) /\ DigitValue(text[i], base) \in Int
  <2>1. Len(text) \in Nat /\ \A i \in 1..Len(text) : text[i] \in DigitsOf(base)
    BY SeqFacts
  <2>2. \A d \in 0..(base - 1) : d \in Int
    OBVIOUS
  <2>. QED BY <2>1, <2>2, DigitValueFacts
<1>2. RecursionOn(D, Int, {0}, b, p, F, rank)
  <2>1. b \in [D -> Int] /\ p \in [D -> D] /\ rank \in [D -> Nat] /\ \A i \in D \ {0} : rank[p[i]] < rank[i]
    BY <1>1
  <2>2. F \in [D -> [Int -> Int]]
    <3>1. ASSUME NEW i \in D, NEW v \in Int
          PROVE  (v * base) + (IF i = 0 THEN 0 ELSE DigitValue(text[i], base)) \in Int
      <4>1. v * base \in Int
        OBVIOUS
      <4>2. (IF i = 0 THEN 0 ELSE DigitValue(text[i], base)) \in Int
        BY <1>1
      <4>. HIDE DEF D
      <4>. QED BY <4>1, <4>2
    <3>. QED BY <3>1
  <2>. HIDE DEF D, b, p, F, rank
  <2>. QED BY <2>1, <2>2 DEF RecursionOn
<1>3. PICK f \in [D -> Int] : \A i \in D : f[i] = IF i \in {0} THEN b[i] ELSE F[i][f[p[i]]]
  <2>. HIDE DEF D, b, p, F, rank
  <2>. QED BY <1>2, Recursion
<1>4. f[0] = 0 /\ \A i \in 1..Len(text) : f[i] = (f[i - 1] * base) + DigitValue(text[i], base)
  <2>1. f[0] = 0
    <3>1. 0 \in D /\ b[0] = 0
      BY <1>1
    <3>. HIDE DEF D, b, p, F, rank
    <3>. QED BY <1>3, <3>1
  <2>2. ASSUME NEW i \in 1..Len(text)
        PROVE  f[i] = (f[i - 1] * base) + DigitValue(text[i], base)
    <3>1. i \in D /\ i \notin {0} /\ i - 1 \in D /\ p[i] = i - 1 /\ f[i - 1] \in Int
      <4>1. i \in D /\ i \notin {0} /\ i - 1 \in D
        BY <1>1
      <4>2. p[i] = i - 1
        BY <1>1
      <4>. HIDE DEF D
      <4>. QED BY <1>3, <4>1, <4>2
    <3>2. f[i] = F[i][f[i - 1]]
      <4>. HIDE DEF D, b, p, F, rank
      <4>. QED BY <1>3, <3>1
    <3>. HIDE DEF D
    <3>. QED BY <3>1, <3>2
  <2>. QED BY <2>1, <2>2
<1>5. Def(f)
  <2>1. \A i \in D : i = 0 \/ i \in 1..Len(text)
    BY <1>1
  <2>2. f = [i \in D |-> f[i]]
    BY <1>3
  <2>. QED BY <1>4, <2>1, <2>2 DEF DigitValue
<1>6. Def(value)
  <2>. HIDE DEF Def
  <2>. QED BY <1>5
<1>7. ValueOf(text, base) = value[Len(text)]
  BY DEF ValueOf
<1>8. value[0] = 0 /\ \A i \in 1..Len(text) : value[i] = (value[i - 1] * base) + DigitValue(text[i], base)
  <2>1. 0 \in D /\ \A i \in 1..Len(text) : i \in D /\ i # 0
    BY <1>1
  <2>2. \A i \in D : value[i] = IF i = 0 THEN 0 ELSE (value[i - 1] * base) + DigitValue(text[i], base)
    <3>. HIDE DEF value
    <3>. QED BY <1>6 DEF DigitValue
  <2>. HIDE DEF value, D
  <2>. QED BY <2>1, <2>2
<1>9. \A i \in D : value[i] \in Int
  <2>. DEFINE Failing == {i \in D : value[i] \notin Int}
  <2>1. SUFFICES ASSUME Failing # {} PROVE FALSE
    OBVIOUS
  <2>2. PICK i \in Failing : \A k \in Failing : i <= k
    <3>1. Failing \in SUBSET Nat
      BY <1>1
    <3>. HIDE DEF Failing
    <3>. QED BY <2>1, <3>1, LeastNatural
  <2>. HIDE DEF value
  <2>3. i \in 1..Len(text) /\ value[i] \notin Int
    BY <1>1, <1>8, <2>2
  <2>4. i - 1 \in D /\ ~(i <= i - 1)
    BY <1>1, <2>3
  <2>5. value[i - 1] \in Int
    BY <2>2, <2>4
  <2>6. value[i - 1] * base \in Int
    BY <2>5
  <2>. QED BY <1>1, <1>8, <2>3, <2>6
<1>10. value = [i \in D |-> value[i]]
  <2>. HIDE DEF value
  <2>. QED BY <1>6
<1>11. Values(value, text, base)
  <2>. HIDE DEF value
  <2>. QED BY <1>8, <1>9, <1>10 DEF Values
<1>. HIDE DEF value
<1>. QED BY <1>7, <1>11

\* The value of a text's beginning does not depend on what follows.
LEMMA ValuesAgree ==
    ASSUME NEW base \in {10, 16}, NEW s, NEW t, NEW v, NEW w, Values(v, s, base), Values(w, t, base),
           NEW k \in Nat, Len(s) \in Nat, Len(t) \in Nat, k <= Len(s), k <= Len(t),
           \A i \in 1..k : s[i] = t[i]
    PROVE  v[k] = w[k]
<1>. DEFINE Apart == {i \in Nat : i <= k /\ v[i] # w[i]}
<1>1. SUFFICES ASSUME Apart # {} PROVE FALSE
  OBVIOUS
<1>2. PICK i \in Apart : \A j \in Apart : i <= j
  <2>1. Apart \in SUBSET Nat
    OBVIOUS
  <2>. HIDE DEF Apart
  <2>. QED BY <1>1, <2>1, LeastNatural
<1>3. i \in 1..k /\ v[i] # w[i]
  BY <1>2 DEF Values
<1>4. i - 1 \in Nat /\ i - 1 <= k /\ ~(i <= i - 1)
  BY <1>3
<1>5. v[i - 1] = w[i - 1]
  BY <1>2, <1>4
<1>6. i \in 1..Len(s) /\ i \in 1..Len(t) /\ s[i] = t[i]
  BY <1>3
<1>. QED BY <1>3, <1>5, <1>6 DEF Values

LEMMA ValueFacts ==
    ASSUME NEW base \in {10, 16}, NEW d \in 0..(base - 1)
    PROVE  /\ ValueOf(<<Digit[d + 1]>>, base) = d
           /\ \A text \in Seq(DigitsOf(base)) :
                 /\ ValueOf(text, base) \in Int
                 /\ ValueOf(Append(text, Digit[d + 1]), base) = (ValueOf(text, base) * base) + d
<1>1. Digit[d + 1] \in DigitsOf(base) /\ DigitValue(Digit[d + 1], base) = d
  BY DigitFacts, DigitValueFacts
<1>2. ValueOf(<<Digit[d + 1]>>, base) = d
  <2>. DEFINE s == <<Digit[d + 1]>>
  <2>1. s \in Seq(DigitsOf(base)) /\ Len(s) = 1 /\ s[1] = Digit[d + 1]
    BY <1>1
  <2>. HIDE DEF s
  <2>2. PICK v : Values(v, s, base) /\ ValueOf(s, base) = v[Len(s)]
    BY <2>1, ValuesExist
  <2>3. v[1] = (v[1 - 1] * base) + d /\ v[0] = 0 /\ 1 - 1 = 0
    <3>1. 1 \in 1..Len(s)
      BY <2>1
    <3>2. v[0] = 0 /\ \A i \in 1..Len(s) : v[i] = (v[i - 1] * base) + DigitValue(s[i], base)
      BY <2>2 DEF Values
    <3>3. v[1] = (v[1 - 1] * base) + DigitValue(s[1], base)
      BY <3>1, <3>2
    <3>. QED BY <1>1, <2>1, <3>2, <3>3
  <2>4. ValueOf(s, base) = d
    BY <2>1, <2>2, <2>3
  <2>. QED BY <2>4 DEF s
<1>3. ASSUME NEW text \in Seq(DigitsOf(base))
      PROVE  /\ ValueOf(text, base) \in Int
             /\ ValueOf(Append(text, Digit[d + 1]), base) = (ValueOf(text, base) * base) + d
  <2>. DEFINE s == Append(text, Digit[d + 1])  n == Len(text)
  <2>1. /\ s \in Seq(DigitsOf(base)) /\ n \in Nat /\ Len(s) = n + 1 /\ s[n + 1] = Digit[d + 1]
        /\ \A i \in 1..n : s[i] = text[i]
    BY <1>1, AppendProperties, LenProperties
  <2>. HIDE DEF s
  <2>2. PICK v : Values(v, s, base) /\ ValueOf(s, base) = v[Len(s)]
    BY <2>1, ValuesExist
  <2>3. PICK w : Values(w, text, base) /\ ValueOf(text, base) = w[Len(text)]
    BY ValuesExist
  <2>4. v[n] = w[n]
    <3>1. n <= Len(s) /\ n <= Len(text)
      BY <2>1
    <3>. HIDE DEF n
    <3>. QED BY <2>1, <2>2, <2>3, <3>1, ValuesAgree DEF n
  <2>5. w[n] \in Int
    BY <2>1, <2>3 DEF Values
  <2>6. n + 1 \in 1..Len(s) /\ (n + 1) - 1 = n
    BY <2>1
  <2>7. v[n + 1] = (v[n] * base) + d
    <3>. HIDE DEF n
    <3>. QED BY <1>1, <2>1, <2>2, <2>6 DEF Values
  <2>. QED BY <2>1, <2>2, <2>3, <2>4, <2>5, <2>7 DEF s
<1>. QED BY <1>2, <1>3

\* A numeral read again is the number.
LEMMA NumeralValue ==
    ASSUME NEW n \in Nat, NEW base \in {10, 16}
    PROVE  ValueOf(Numeral(n, base), base) = n
<1>. DEFINE Failing == {m \in Nat : ValueOf(Numeral(m, base), base) # m}
<1>1. SUFFICES ASSUME Failing # {} PROVE FALSE
  OBVIOUS
<1>2. PICK m \in Failing : \A k \in Failing : m <= k
  <2>1. Failing \in SUBSET Nat
    OBVIOUS
  <2>. HIDE DEF Failing
  <2>. QED BY <1>1, <2>1, LeastNatural
<1>3. m \in Nat /\ ValueOf(Numeral(m, base), base) # m
  BY <1>2
<1>4. CASE m < base
  <2>1. m \in 0..(base - 1) /\ Numeral(m, base) = <<Digit[m + 1]>>
    BY <1>3, <1>4, DigitFacts, NumeralFacts
  <2>. QED BY <1>3, <2>1, ValueFacts
<1>5. CASE ~(m < base)
  <2>. DEFINE q == m \div base  d == m % base
  <2>1. q \in Nat /\ q < m /\ d \in 0..(base - 1) /\ m = (q * base) + d
    <3>1. m >= base
      BY <1>3, <1>5
    <3>. QED BY <1>3, <3>1, DigitFacts
  <2>2. Numeral(m, base) = Append(Numeral(q, base), Digit[d + 1])
    BY <1>3, <1>5, NumeralFacts
  <2>. HIDE DEF q, d
  <2>3. ValueOf(Numeral(q, base), base) = q
    <3>1. ~(m <= q)
      BY <1>3, <2>1
    <3>. QED BY <1>2, <2>1, <3>1
  <2>4. Numeral(q, base) \in Seq(DigitsOf(base))
    BY <2>1, NumeralFacts
  <2>5. ValueOf(Append(Numeral(q, base), Digit[d + 1]), base) = (ValueOf(Numeral(q, base), base) * base) + d
    BY <2>1, <2>4, ValueFacts
  <2>. QED BY <1>3, <2>1, <2>2, <2>3, <2>5
<1>. QED BY <1>4, <1>5

\* A text in lower case has a character for each of the text's.
LEMMA InLowerFacts ==
    ASSUME NEW S, NEW text \in Seq(S)
    PROVE  /\ Len(InLower(text)) = Len(text)
           /\ InLower(text) \in Seq({Lower(c) : c \in S})
           /\ \A i \in 1..Len(text) : InLower(text)[i] = Lower(text[i])
<1>. DEFINE T == {Lower(c) : c \in S}
<1>1. Len(text) \in Nat /\ DOMAIN text = 1..Len(text) /\ \A i \in 1..Len(text) : Lower(text[i]) \in T
  BY SeqFacts
<1>2. InLower(text) = [i \in 1..Len(text) |-> Lower(text[i])]
  BY <1>1 DEF InLower
<1>3. InLower(text) \in [1..Len(text) -> T]
  <2>. HIDE DEF T
  <2>. QED BY <1>1, <1>2
<1>. QED BY <1>1, <1>2, <1>3, SeqDef

\* No two of the alphabet's letters are the same.
LEMMA AlphabetFacts ==
    /\ \A i, j \in 1..26 : Capitals[i] = Capitals[j] => i = j
    /\ \A i, j \in 1..26 : Smalls[i] = Smalls[j] => i = j
    /\ \A i, j \in 1..26 : Capitals[i] # Smalls[j]
<1>1. \A i, j \in 1..26 : Capitals[i] = Capitals[j] => i = j
  BY DEF Capitals
<1>2. \A i, j \in 1..26 : Smalls[i] = Smalls[j] => i = j
  BY DEF Smalls
<1>3. \A i, j \in 1..26 : Capitals[i] # Smalls[j]
  BY DEF Capitals, Smalls
<1>. QED BY <1>1, <1>2, <1>3

LEMMA LowerFacts ==
    /\ \A i \in 1..26 : Lower(Capitals[i]) = Smalls[i] /\ Lower(Smalls[i]) = Smalls[i]
    /\ \A c : (\A i \in 1..26 : Capitals[i] # c) => Lower(c) = c
<1>1. ASSUME NEW i \in 1..26
      PROVE  Lower(Capitals[i]) = Smalls[i]
  <2>1. (CHOOSE j \in 1..26 : Capitals[j] = Capitals[i]) = i
    BY AlphabetFacts
  <2>. QED BY <2>1 DEF Lower
<1>2. ASSUME NEW i \in 1..26
      PROVE  Lower(Smalls[i]) = Smalls[i]
  BY AlphabetFacts DEF Lower
<1>3. ASSUME NEW c, \A i \in 1..26 : Capitals[i] # c
      PROVE  Lower(c) = c
  BY <1>3 DEF Lower
<1>. QED BY <1>1, <1>2, <1>3

\* Two characters are the same in lower case exactly if they are alike.
LEMMA LowerAlike == \A a, b : Lower(a) = Lower(b) <=> Alike(a, b)
<1>. SUFFICES ASSUME NEW a, NEW b PROVE Lower(a) = Lower(b) <=> Alike(a, b)
  OBVIOUS
<1>1. ASSUME Alike(a, b) PROVE Lower(a) = Lower(b)
  <2>1. CASE a = b
    BY <2>1
  <2>2. ASSUME NEW i \in 1..26, {a, b} = {Capitals[i], Smalls[i]}
        PROVE  Lower(a) = Lower(b)
    <3>1. a \in {Capitals[i], Smalls[i]} /\ b \in {Capitals[i], Smalls[i]}
      BY <2>2
    <3>. QED BY <3>1, LowerFacts
  <2>. QED BY <1>1, <2>1, <2>2 DEF Alike
<1>2. ASSUME Lower(a) = Lower(b) PROVE Alike(a, b)
  <2>1. ASSUME NEW i \in 1..26, NEW j \in 1..26, a = Capitals[i], b = Capitals[j]
        PROVE  Alike(a, b)
    <3>1. Smalls[i] = Smalls[j]
      BY <1>2, <2>1, LowerFacts
    <3>2. i = j
      BY <3>1, AlphabetFacts
    <3>. QED BY <2>1, <3>2 DEF Alike
  <2>2. ASSUME NEW i \in 1..26, a = Capitals[i], \A j \in 1..26 : Capitals[j] # b
        PROVE  Alike(a, b)
    <3>1. b = Smalls[i]
      BY <1>2, <2>2, LowerFacts
    <3>. QED BY <2>2, <3>1 DEF Alike
  <2>3. ASSUME NEW j \in 1..26, b = Capitals[j], \A i \in 1..26 : Capitals[i] # a
        PROVE  Alike(a, b)
    <3>1. a = Smalls[j]
      BY <1>2, <2>3, LowerFacts
    <3>2. {a, b} = {Capitals[j], Smalls[j]}
      BY <2>3, <3>1
    <3>. QED BY <3>2 DEF Alike
  <2>4. ASSUME \A i \in 1..26 : Capitals[i] # a, \A j \in 1..26 : Capitals[j] # b
        PROVE  Alike(a, b)
    BY <1>2, <2>4, LowerFacts DEF Alike
  <2>. QED BY <2>1, <2>2, <2>3, <2>4
<1>. QED BY <1>1, <1>2

\* The first characters of two texts agree in lower case.
LEMMA InLowerParts ==
    ASSUME NEW S, NEW a \in Seq(S), NEW text \in Seq(S), NEW n \in Nat, n <= Len(a), n <= Len(text)
    PROVE  InLower(SubSeq(a, 1, n)) = InLower(SubSeq(text, 1, n)) <=>
             \A i \in 1..n : Lower(a[i]) = Lower(text[i])
<1>. DEFINE T == {Lower(c) : c \in S}
<1>1. ASSUME NEW s \in Seq(S), n <= Len(s)
      PROVE  /\ InLower(SubSeq(s, 1, n)) \in Seq(T)
             /\ Len(InLower(SubSeq(s, 1, n))) = n
             /\ \A i \in 1..n : InLower(SubSeq(s, 1, n))[i] = Lower(s[i])
  <2>1. \A i \in 1..n : s[i] \in S
    BY <1>1, SeqFacts
  <2>2. /\ SubSeq(s, 1, n) \in Seq(S)
        /\ Len(SubSeq(s, 1, n)) = IF 1 <= n THEN (n - 1) + 1 ELSE 0
        /\ \A i \in 1..((n - 1) + 1) : SubSeq(s, 1, n)[i] = s[(1 + i) - 1]
    BY <2>1, SubSeqProperties
  <2>3. SubSeq(s, 1, n) \in Seq(S) /\ Len(SubSeq(s, 1, n)) = n /\ \A i \in 1..n : SubSeq(s, 1, n)[i] = s[i]
    BY <2>2
  <2>. QED BY <2>3, InLowerFacts
<1>. HIDE DEF T
<1>2. /\ InLower(SubSeq(a, 1, n)) \in Seq(T) /\ Len(InLower(SubSeq(a, 1, n))) = n
      /\ InLower(SubSeq(text, 1, n)) \in Seq(T) /\ Len(InLower(SubSeq(text, 1, n))) = n
      /\ \A i \in 1..n : InLower(SubSeq(a, 1, n))[i] = Lower(a[i])
      /\ \A i \in 1..n : InLower(SubSeq(text, 1, n))[i] = Lower(text[i])
  BY <1>1
<1>3. ASSUME \A i \in 1..n : Lower(a[i]) = Lower(text[i])
      PROVE  InLower(SubSeq(a, 1, n)) = InLower(SubSeq(text, 1, n))
  <2>1. \A i \in 1..n : InLower(SubSeq(a, 1, n))[i] = InLower(SubSeq(text, 1, n))[i]
    BY <1>2, <1>3
  <2>. QED BY <1>2, <2>1, SeqEqual
<1>. QED BY <1>2, <1>3

\* A numeral has a digit.
LEMMA NumeralNotEmpty ==
    ASSUME NEW n \in Nat, NEW base \in {10, 16}
    PROVE  Len(Numeral(n, base)) \in Nat \ {0}
<1>1. CASE n < base
  <2>1. Numeral(n, base) = <<Digit[n + 1]>>
    BY <1>1, NumeralFacts
  <2>. QED BY <2>1
<1>2. CASE ~(n < base)
  <2>1. n \div base \in Nat /\ Digit[(n % base) + 1] \in DigitsOf(base)
    BY DigitFacts
  <2>2. Numeral(n \div base, base) \in Seq(DigitsOf(base))
    BY <2>1, NumeralFacts
  <2>3. Numeral(n, base) = Append(Numeral(n \div base, base), Digit[(n % base) + 1])
    BY <1>2, NumeralFacts
  <2>4. /\ Len(Append(Numeral(n \div base, base), Digit[(n % base) + 1])) = Len(Numeral(n \div base, base)) + 1
        /\ Len(Numeral(n \div base, base)) \in Nat
    BY <2>1, <2>2, AppendProperties, SeqFacts
  <2>. QED BY <2>3, <2>4
<1>. QED BY <1>1, <1>2

\* The characters of the answers.
Letters == {"N", "l", "i", "b", "u", "v", "C", "+", "c", "a", "m", "p", "j", "s", "T", "R", "y", "n", "o",
            "f", "r", "e"}
Printed == DigitsOf(16) \cup {"-"} \cup Letters

\* None of them ends a line.
LEMMA NotTheEnd == Lower("\n") = "\n" /\ \A c \in Printed : Lower(c) # "\n"
<1>1. \A i \in 1..26 : Capitals[i] # "\n" /\ Smalls[i] # "\n"
  BY DEF Capitals, Smalls
<1>2. ASSUME NEW c, c # "\n" PROVE Lower(c) # "\n"
  BY <1>1, <1>2, LowerFacts
<1>3. "\n" \notin DigitsOf(16)
  BY DEF DigitsOf, Digit
<1>4. Lower("\n") = "\n"
  BY <1>1, LowerFacts
<1>. QED BY <1>2, <1>3, <1>4 DEF Printed, Letters

\* What may be asked.
MathEntry(op, p1, p2) == [asks |-> <<op, p1, p2>>, answer |-> Decimal(Result(op, p1, p2))]
HexEntry(i)     == [asks |-> <<"hex", i>>, answer |-> Numeral(i, 16)]
DecimalEntry(i) == [asks |-> <<"dec", i>>, answer |-> Decimal(i)]

MathEntries == {MathEntry(op, p1, p2) : op \in {"+", "-", "*"}, p1 \in Nat, p2 \in Nat}
ConversionEntries == {HexEntry(i) : i \in Nat} \cup {DecimalEntry(i) : i \in Nat}

Entries == CannedQuestions \cup MathEntries \cup ConversionEntries

LEMMA DecimalFacts ==
    ASSUME NEW n \in Int
    PROVE  /\ Decimal(n) \in Seq(Printed) /\ Decimal(n) # <<>>
           /\ SignedValueOf(Decimal(n)) = n
<1>1. DigitsOf(10) \subseteq DigitsOf(16) /\ "-" \notin DigitsOf(10) /\ DigitsOf(16) \subseteq Printed
  BY DEF DigitsOf, Digit, Printed
<1>2. ASSUME NEW m \in Nat
      PROVE  /\ Numeral(m, 10) \in Seq(DigitsOf(10)) /\ Numeral(m, 10) \in Seq(Printed)
             /\ Numeral(m, 10) # <<>> /\ Numeral(m, 10)[1] # "-"
             /\ ValueOf(Numeral(m, 10), 10) = m
  <2>1. Numeral(m, 10) \in Seq(DigitsOf(10))
    BY NumeralFacts
  <2>2. Len(Numeral(m, 10)) \in Nat \ {0}
    BY NumeralNotEmpty
  <2>3. Numeral(m, 10) # <<>>
    BY <2>2, EmptySeq
  <2>4. Numeral(m, 10)[1] \in DigitsOf(10)
    BY <2>1, <2>2, ElementOfSeq
  <2>5. Numeral(m, 10) \in Seq(Printed)
    <3>1. DigitsOf(10) \subseteq Printed
      BY <1>1
    <3>. QED BY <2>1, <3>1, SeqMonotonic
  <2>. QED BY <1>1, <2>1, <2>3, <2>4, <2>5, NumeralValue
<1>3. CASE n < 0
  <2>. DEFINE m == -n  text == <<"-">> \o Numeral(m, 10)
  <2>1. m \in Nat /\ n = -m
    BY <1>3
  <2>2. "-" \in Printed
    BY DEF Printed
  <2>. HIDE DEF m
  <2>3. /\ text \in Seq(Printed) /\ text # <<>> /\ DOMAIN text = 1..(Len(Numeral(m, 10)) + 1) /\ text[1] = "-"
        /\ Len(Numeral(m, 10)) \in Nat
        /\ \A i \in 2..(Len(Numeral(m, 10)) + 1) : text[i] = Numeral(m, 10)[i - 1]
    BY <1>2, <2>1, <2>2, ConsFacts
  <2>. HIDE DEF text
  <2>4. Len(text) = Len(Numeral(m, 10)) + 1
    <3>1. Len(text) \in Nat /\ DOMAIN text = 1..Len(text)
      BY <2>3, SeqFacts
    <3>. QED BY <2>3, <3>1
  <2>5. Tail(text) = Numeral(m, 10)
    <3>1. /\ Tail(text) \in Seq(Printed) /\ Len(Tail(text)) = Len(text) - 1
          /\ \A i \in 1..Len(Tail(text)) : Tail(text)[i] = text[i + 1]
      BY <2>3, HeadTailProperties
    <3>2. \A i \in 1..Len(Tail(text)) : Tail(text)[i] = Numeral(m, 10)[i]
      <4>1. \A i \in 1..Len(Tail(text)) : i + 1 \in 2..(Len(Numeral(m, 10)) + 1) /\ (i + 1) - 1 = i
        BY <2>3, <2>4, <3>1
      <4>. QED BY <2>3, <3>1, <4>1
    <3>3. Len(Tail(text)) = Len(Numeral(m, 10)) /\ Numeral(m, 10) \in Seq(Printed)
      BY <1>2, <2>1, <2>3, <2>4, <3>1
    <3>. QED BY <3>1, <3>2, <3>3, SeqEqual
  <2>6. Decimal(n) = text
    BY <1>3 DEF Decimal, text, m
  <2>7. SignedValueOf(text) = -ValueOf(Numeral(m, 10), 10)
    BY <2>3, <2>5 DEF SignedValueOf
  <2>. QED BY <1>2, <2>1, <2>3, <2>6, <2>7
<1>4. CASE ~(n < 0)
  BY <1>2, <1>4 DEF Decimal, SignedValueOf
<1>. QED BY <1>3, <1>4

LEMMA EntryFacts ==
    ASSUME NEW q \in Entries
    PROVE  q.answer \in Seq(Printed) /\ q.answer # <<>>
<1>1. CASE q \in CannedQuestions
  <2>1. \/ q = [asks |-> <<"the gate">>, answer |-> <<"N">>]
        \/ q = [asks |-> <<"library of Node.js">>, answer |-> <<"l", "i", "b", "u", "v">>]
        \/ q = [asks |-> <<"language of libuv">>, answer |-> <<"C">>]
        \/ q = [asks |-> <<"language of v8">>, answer |-> <<"C", "+", "+">>]
        \/ q = [asks |-> <<"conference">>, answer |-> <<"c", "a", "m", "p", "j", "s">>]
        \/ q = [asks |-> <<"curator of campjs">>, answer |-> <<"T", "i", "m">>]
        \/ q = [asks |-> <<"creator of Node.js">>, answer |-> <<"R", "y", "a", "n">>]
        \/ q = [asks |-> <<"allocates memory">>, answer |-> <<"m", "a", "l", "l", "o", "c">>]
        \/ q = [asks |-> <<"releases memory">>, answer |-> <<"f", "r", "e", "e">>]
    BY <1>1 DEF CannedQuestions
  <2>2. \A c \in {"N", "l", "i", "b", "u", "v", "C", "+", "c", "a", "m", "p", "j", "s", "T", "R", "y", "n", "o",
                  "f", "r", "e"} : c \in Letters
    BY DEF Letters
  <2>3. q.answer \in Seq(Letters) \ {<<>>}
    <3>. HIDE DEF Letters
    <3>1. CASE q = [asks |-> <<"the gate">>, answer |-> <<"N">>]
      <4>1. <<"N">> \in Seq(Letters) \ {<<>>}
        BY <2>2
      <4>. QED BY <3>1, <4>1
    <3>2. CASE q = [asks |-> <<"library of Node.js">>, answer |-> <<"l", "i", "b", "u", "v">>]
      <4>1. <<"l", "i", "b", "u", "v">> \in Seq(Letters) \ {<<>>}
        BY <2>2
      <4>. QED BY <3>2, <4>1
    <3>3. CASE q = [asks |-> <<"language of libuv">>, answer |-> <<"C">>]
      <4>1. <<"C">> \in Seq(Letters) \ {<<>>}
        BY <2>2
      <4>. QED BY <3>3, <4>1
    <3>4. CASE q = [asks |-> <<"language of v8">>, answer |-> <<"C", "+", "+">>]
      <4>1. <<"C", "+", "+">> \in Seq(Letters) \ {<<>>}
        BY <2>2
      <4>. QED BY <3>4, <4>1
    <3>5. CASE q = [asks |-> <<"conference">>, answer |-> <<"c", "a", "m", "p", "j", "s">>]
      <4>1. <<"c", "a", "m", "p", "j", "s">> \in Seq(Letters) \ {<<>>}
        BY <2>2
      <4>. QED BY <3>5, <4>1
    <3>6. CASE q = [asks |-> <<"curator of campjs">>, answer |-> <<"T", "i", "m">>]
      <4>1. <<"T", "i", "m">> \in Seq(Letters) \ {<<>>}
        BY <2>2
      <4>. QED BY <3>6, <4>1
    <3>7. CASE q = [asks |-> <<"creator of Node.js">>, answer |-> <<"R", "y", "a", "n">>]
      <4>1. <<"R", "y", "a", "n">> \in Seq(Letters) \ {<<>>}
        BY <2>2
      <4>. QED BY <3>7, <4>1
    <3>8. CASE q = [asks |-> <<"allocates memory">>, answer |-> <<"m", "a", "l", "l", "o", "c">>]
      <4>1. <<"m", "a", "l", "l", "o", "c">> \in Seq(Letters) \ {<<>>}
        BY <2>2
      <4>. QED BY <3>8, <4>1
    <3>9. CASE q = [asks |-> <<"releases memory">>, answer |-> <<"f", "r", "e", "e">>]
      <4>1. <<"f", "r", "e", "e">> \in Seq(Letters) \ {<<>>}
        BY <2>2
      <4>. QED BY <3>9, <4>1
    <3>. QED BY <2>1, <3>1, <3>2, <3>3, <3>4, <3>5, <3>6, <3>7, <3>8, <3>9
  <2>4. Letters \subseteq Printed
    BY DEF Printed
  <2>. QED BY <2>3, <2>4, SeqMonotonic
<1>2. CASE q \in MathEntries
  <2>1. PICK op \in {"+", "-", "*"}, p1 \in Nat, p2 \in Nat : q.answer = Decimal(Result(op, p1, p2))
    BY <1>2 DEF MathEntries, MathEntry
  <2>2. Result(op, p1, p2) \in Int
    BY DEF Result
  <2>3. Decimal(Result(op, p1, p2)) \in Seq(Printed) /\ Decimal(Result(op, p1, p2)) # <<>>
    BY <2>2, DecimalFacts
  <2>. QED BY <2>1, <2>3
<1>3. CASE q \in ConversionEntries
  <2>1. PICK i \in Nat : q.answer = Numeral(i, 16) \/ q.answer = Decimal(i)
    BY <1>3 DEF ConversionEntries, HexEntry, DecimalEntry
  <2>2. Numeral(i, 16) \in Seq(Printed)
    <3>1. DigitsOf(16) \subseteq Printed
      BY DEF Printed
    <3>. QED BY <3>1, NumeralFacts, SeqMonotonic
  <2>3. Numeral(i, 16) # <<>>
    BY NumeralNotEmpty, EmptySeq
  <2>4. Decimal(i) \in Seq(Printed) /\ Decimal(i) # <<>>
    <3>1. i \in Int
      OBVIOUS
    <3>. QED BY <3>1, DecimalFacts
  <2>. QED BY <2>1, <2>2, <2>3, <2>4
<1>. QED BY <1>1, <1>2, <1>3 DEF Entries

LEMMA ProductFacts ==
    ASSUME NEW a \in Nat, NEW b \in Nat \ {0}
    PROVE  (b * a) % b = 0 /\ (b * a) \div b = a
<1>. DEFINE n == b * a  q == n \div b  r == n % b
<1>1. n \in Nat
  OBVIOUS
<1>2. q \in Int /\ r \in 0..(b - 1) /\ n = (b * q) + r
  BY <1>1
<1>3. CASE q = a
  BY <1>2, <1>3
<1>4. CASE q < a
  <2>1. a >= q + 1
    BY <1>2, <1>4
  <2>2. b * a >= b * (q + 1)
    BY <1>2, <2>1
  <2>. QED BY <1>2, <2>2
<1>5. CASE q > a
  <2>1. b * q >= b * (a + 1)
    BY <1>2, <1>5
  <2>. QED BY <1>2, <2>1
<1>. QED BY <1>2, <1>3, <1>4, <1>5

\* Questions are filled in from the three tables, and what clients send is a text.
Tables ==
    /\ math_questions \in Seq(MathEntries)
    /\ conversion_questions \in Seq(ConversionEntries)
    /\ question \in Entries \cup {Empty}
    /\ verdict \in {"none", "right", "wrong"}
    /\ verdict # "none" => /\ question # Empty /\ given \in Said
                           /\ verdict = "right" <=> Matches(question.answer, given)

LEMMA TablesInit == QuestionsInit => Tables
BY DEF QuestionsInit, Tables

LEMMA TablesStep == Tables /\ [QuestionsNext]_questionVars => Tables'
<1>. SUFFICES ASSUME Tables, [QuestionsNext]_questionVars PROVE Tables'
  OBVIOUS
<1>. USE DEF Tables
<1>1. CASE InitMathQuestion
  <2>. USE <1>1 DEF InitMathQuestion
  <2>. DEFINE below(op) == 0..((IF op = "*" THEN MaxFactor ELSE MaxTerm) - 1)
  <2>0. PICK op \in {"+", "-", "*"} : \E p1, p2 \in below(op) :
          math_questions' = Append(math_questions, MathEntry(op, p1, p2))
    BY DEF MathEntry
  <2>1. PICK p1 \in Nat, p2 \in Nat : math_questions' = Append(math_questions, MathEntry(op, p1, p2))
    <3>1. \A p \in below(op) : p \in Nat
      OBVIOUS
    <3>. HIDE DEF below
    <3>. QED BY <2>0, <3>1
  <2>2. MathEntry(op, p1, p2) \in MathEntries
    BY DEF MathEntries
  <2>3. math_questions' \in Seq(MathEntries)
    BY <2>1, <2>2, AppendFacts
  <2>. QED BY <2>3
<1>2. CASE InitConversionQuestions
  <2>. DEFINE i == Len(conversion_questions)
  <2>1. i \in Nat
    BY SeqFacts
  <2>2. HexEntry(i) \in ConversionEntries /\ DecimalEntry(i) \in ConversionEntries
    BY <2>1 DEF ConversionEntries
  <2>3. Conversions(i) = <<HexEntry(i), DecimalEntry(i)>>
    BY DEF Conversions, HexEntry, DecimalEntry
  <2>4. Conversions(i) \in Seq(ConversionEntries)
    <3>1. \A S : \A x, y \in S : <<x, y>> \in Seq(S)
      OBVIOUS
    <3>. QED BY <2>2, <2>3, <3>1
  <2>5. conversion_questions' \in Seq(ConversionEntries)
    BY <1>2, <2>4, ConcatProperties DEF InitConversionQuestions
  <2>. QED BY <1>2, <2>5 DEF InitConversionQuestions
<1>3. CASE Serve
  BY <1>3 DEF Serve
<1>4. CASE Ask
  <2>1. ToSet(math_questions) \subseteq MathEntries /\ ToSet(conversion_questions) \subseteq ConversionEntries
    BY ToSetFacts
  <2>. QED BY <1>4, <2>1 DEF Ask, Askable, Entries
<1>5. ASSUME NEW text \in Said, Judge(text) PROVE Tables'
  BY <1>5 DEF Judge
<1>6. CASE UNCHANGED questionVars
  BY <1>6 DEF questionVars
<1>. QED BY <1>1, <1>2, <1>3, <1>4, <1>5, <1>6 DEF QuestionsNext

LEMMA MathAnswer ==
    ASSUME NEW q \in MathEntries
    PROVE  LET a == SignedValueOf(q.answer)  p1 == q.asks[2]  p2 == q.asks[3] IN
           CASE q.asks[1] = "+" -> a - p1 = p2
             [] q.asks[1] = "-" -> a + p2 = p1
             [] OTHER           -> IF p1 = 0 THEN a = 0 ELSE a % p1 = 0 /\ a \div p1 = p2
<1>1. PICK op \in {"+", "-", "*"}, p1 \in Nat, p2 \in Nat :
        q = [asks |-> <<op, p1, p2>>, answer |-> Decimal(Result(op, p1, p2))]
  BY DEF MathEntries, MathEntry
<1>2. q.asks[1] = op /\ q.asks[2] = p1 /\ q.asks[3] = p2
  BY <1>1
<1>3. Result(op, p1, p2) \in Int
  BY DEF Result
<1>4. SignedValueOf(q.answer) = Result(op, p1, p2)
  BY <1>1, <1>3, DecimalFacts
<1>5. CASE op = "+"
  <2>1. Result(op, p1, p2) = p1 + p2
    BY <1>5 DEF Result
  <2>. QED BY <1>2, <1>4, <1>5, <2>1
<1>6. CASE op = "-"
  <2>1. Result(op, p1, p2) = p1 - p2
    BY <1>6 DEF Result
  <2>. QED BY <1>2, <1>4, <1>6, <2>1
<1>7. CASE op = "*"
  <2>1. Result(op, p1, p2) = p1 * p2
    BY <1>7 DEF Result
  <2>2. IF p1 = 0 THEN p1 * p2 = 0 ELSE (p1 * p2) % p1 = 0 /\ (p1 * p2) \div p1 = p2
    BY ProductFacts
  <2>. QED BY <1>2, <1>4, <1>7, <2>1, <2>2
<1>. QED BY <1>5, <1>6, <1>7

\* Every answer of the tables, for tables of any length and operands of any size,
\* is the number it is to be when it is read again, and no entry is asked that
\* was not set (init_math_questions, init_conversion_questions).
THEOREM AnswersRead == QuestionsSpec => []AnswersRight
<1>1. Tables => AnswersRight
  <2>. SUFFICES ASSUME Tables PROVE AnswersRight
    OBVIOUS
  <2>1. ToSet(math_questions) \subseteq MathEntries /\ ToSet(conversion_questions) \subseteq ConversionEntries
    BY ToSetFacts DEF Tables
  <2>2. Empty \notin Askable
    <3>1. Askable \subseteq Entries
      BY <2>1 DEF Askable, Entries
    <3>2. Empty.answer = <<>>
      BY DEF Empty
    <3>. QED BY <3>1, <3>2, EntryFacts
  <2>3. ASSUME NEW q \in ToSet(conversion_questions)
        PROVE  ValueOf(q.answer, IF q.asks[1] = "hex" THEN 16 ELSE 10) = q.asks[2]
    <3>1. PICK i \in Nat : \/ q = [asks |-> <<"hex", i>>, answer |-> Numeral(i, 16)]
                           \/ q = [asks |-> <<"dec", i>>, answer |-> Decimal(i)]
      BY <2>1 DEF ConversionEntries, HexEntry, DecimalEntry
    <3>2. CASE q = [asks |-> <<"hex", i>>, answer |-> Numeral(i, 16)]
      <4>1. q.asks[1] = "hex" /\ q.asks[2] = i /\ q.answer = Numeral(i, 16)
        BY <3>2
      <4>. QED BY <4>1, NumeralValue
    <3>3. CASE q = [asks |-> <<"dec", i>>, answer |-> Decimal(i)]
      <4>1. q.asks[1] = "dec" /\ q.asks[2] = i /\ q.answer = Numeral(i, 10)
        BY <3>3 DEF Decimal
      <4>. QED BY <4>1, NumeralValue
    <3>. QED BY <3>1, <3>2, <3>3
  <2>. QED BY <2>1, <2>2, <2>3, MathAnswer DEF AnswersRight
<1>. QED BY <1>1, TablesInit, TablesStep, PTL DEF QuestionsSpec

\* Whatever line a client sends to whatever question, it is judged right exactly
\* if it begins with the answer, its letters in capital or in small (onclient_msg).
THEOREM LinesJudged == QuestionsSpec => []LineJudged
<1>1. Tables => LineJudged
  <2>. SUFFICES ASSUME Tables, verdict # "none", Last(given) = "\n"
                PROVE  Matches(question.answer, given) <=>
                         /\ Len(question.answer) <= Len(given)
                         /\ \A i \in DOMAIN question.answer : Alike(question.answer[i], given[i])
    BY DEF Tables, LineJudged
  <2>. DEFINE a == question.answer
  <2>1. a \in Seq(Printed) /\ given \in Seq(STRING) /\ given # <<>>
    BY EntryFacts, QuestionsAssumption DEF Tables
  <2>2. /\ Len(a) \in Nat /\ DOMAIN a = 1..Len(a) /\ \A i \in 1..Len(a) : a[i] \in Printed
        /\ Len(given) \in Nat \ {0} /\ given[Len(given)] = "\n"
    BY <2>1, SeqFacts, EmptySeq DEF Last
  <2>3. a \in Seq(Printed \cup STRING) /\ given \in Seq(Printed \cup STRING)
    BY <2>1, SeqMonotonic
  <2>. HIDE DEF a
  <2>4. \A i \in 1..Len(a) : Lower(a[i]) # Lower("\n")
    BY <2>2, NotTheEnd
  <2>5. CASE Len(a) < Len(given)
    <3>1. Matches(a, given) <=> InLower(SubSeq(a, 1, Len(a))) = InLower(SubSeq(given, 1, Len(a)))
      BY <2>5 DEF Matches
    <3>2. InLower(SubSeq(a, 1, Len(a))) = InLower(SubSeq(given, 1, Len(a))) <=>
            \A i \in 1..Len(a) : Lower(a[i]) = Lower(given[i])
      <4>1. Len(a) <= Len(a) /\ Len(a) <= Len(given)
        BY <2>2, <2>5
      <4>. QED BY <2>2, <2>3, <4>1, InLowerParts
    <3>3. \A i \in 1..Len(a) : Lower(a[i]) = Lower(given[i]) <=> Alike(a[i], given[i])
      BY LowerAlike
    <3>. QED BY <2>2, <2>5, <3>1, <3>2, <3>3 DEF a
  <2>6. CASE ~(Len(a) < Len(given))
    <3>1. Matches(a, given) <=> InLower(SubSeq(a, 1, Len(given))) = InLower(SubSeq(given, 1, Len(given)))
      BY <2>6 DEF Matches
    <3>2. InLower(SubSeq(a, 1, Len(given))) = InLower(SubSeq(given, 1, Len(given))) <=>
            \A i \in 1..Len(given) : Lower(a[i]) = Lower(given[i])
      <4>1. Len(given) <= Len(a) /\ Len(given) <= Len(given)
        BY <2>2, <2>6
      <4>. QED BY <2>2, <2>3, <4>1, InLowerParts
    <3>3. Len(given) \in 1..Len(given) /\ Len(given) \in 1..Len(a)
      BY <2>2, <2>6
    <3>4. Lower(a[Len(given)]) # Lower(given[Len(given)])
      BY <2>2, <2>4, <3>3
    <3>5. ~Matches(a, given)
      BY <3>1, <3>2, <3>3, <3>4
    <3>6. ~Alike(a[Len(given)], given[Len(given)])
      BY <3>4, LowerAlike
    <3>. QED BY <2>2, <3>3, <3>5, <3>6 DEF a
  <2>. QED BY <2>5, <2>6
<1>. QED BY <1>1, TablesInit, TablesStep, PTL DEF QuestionsSpec

-----------------------------------------------------------------------------
(* The types of the horse race and of the echo server *)

\* A horse is done once, no further than the track is long, and is drawn where
\* it has been.
Tracked ==
    /\ race \in {"adding", "loop", "ended"} /\ wqSent \in BOOLEAN /\ sent \subseteq Horses
    /\ position \in [Horses -> 0..TRACK_WIDTH] /\ drawn \in [Horses -> 0..TRACK_WIDTH]
    /\ \A i, j \in 1..Len(arrivals) : arrivals[i] = arrivals[j] => i = j

LEMMA InitTracked == HorseInit => Tracked
<1>. SUFFICES ASSUME HorseInit PROVE Tracked
  OBVIOUS
<1>1. Len(arrivals) = 0 /\ \A i \in 1..0 : FALSE
  BY EmptySeq DEF HorseInit
<1>2. 0 \in 0..TRACK_WIDTH
  BY HorseAssumption
<1>. QED BY <1>1, <1>2 DEF HorseInit, Tracked

LEMMA StepTracked == HorseIInv /\ Tracked /\ [HorseNext]_horseVars => Tracked'
<1>. SUFFICES ASSUME HorseIInv, Tracked, [HorseNext]_horseVars PROVE Tracked'
  OBVIOUS
<1>1. CASE UNCHANGED <<race, wqSent, sent, position, drawn, arrivals>>
  BY <1>1 DEF Tracked
<1>2. ASSUME NEW h \in Horses, FinishWork(h)
      PROVE  Tracked'
  <2>1. /\ arrivals \in Seq(Horses) /\ arrivals' = Append(arrivals, h) /\ work[h] = "running"
        /\ UNCHANGED <<race, position, drawn, sent>> /\ wqSent' = TRUE
    BY <1>2 DEF FinishWork, loopVars, HorseIInv, HorseTypes
  <2>2. /\ Len(arrivals) \in Nat /\ Len(arrivals') = Len(arrivals) + 1 /\ arrivals'[Len(arrivals) + 1] = h
        /\ \A i \in 1..Len(arrivals) : arrivals'[i] = arrivals[i]
    BY <2>1, AppendProperties, SeqFacts
  <2>3. \A i \in 1..Len(arrivals) : arrivals[i] # h
    BY <2>1 DEF HorseIInv, Arrived
  <2>4. \A i \in 1..(Len(arrivals) + 1) : i \in 1..Len(arrivals) \/ i = Len(arrivals) + 1
    BY <2>2
  <2>5. ASSUME NEW i \in 1..(Len(arrivals) + 1), NEW j \in 1..(Len(arrivals) + 1), arrivals'[i] = arrivals'[j]
        PROVE  i = j
    BY <2>2, <2>3, <2>4, <2>5 DEF Tracked
  <2>. QED BY <2>1, <2>2, <2>5 DEF Tracked
<1>3. ASSUME NEW h \in Horses, Gallop(h)
      PROVE  Tracked'
  <2>1. position[h] + 1 \in 0..TRACK_WIDTH
    BY <1>3, HorseAssumption DEF Gallop, Tracked
  <2>. QED BY <1>3, <2>1 DEF Gallop, poolVars, loopVars, Tracked
<1>4. ASSUME NEW h \in Horses, Progress(h)
      PROVE  Tracked'
  BY <1>4 DEF Progress, threadVars, poolVars, Tracked
<1>5. ASSUME NEW h \in Horses, SendProgress(h)
      PROVE  Tracked'
  BY <1>5 DEF SendProgress, Sends, poolVars, loopVars, Tracked
<1>6. CASE TakeFinished
  BY <1>6 DEF TakeFinished, threadVars, loopVars, Tracked
<1>7. ASSUME NEW h \in Horses, InitAsync(h) \/ QueueWork(h) \/ TakeWork(h)
      PROVE  Tracked'
  BY <1>1, <1>7 DEF InitAsync, QueueWork, TakeWork, threadVars, poolVars, loopVars
<1>8. CASE RunLoop \/ EndRace
  BY <1>8 DEF RunLoop, EndRace, threadVars, poolVars, loopVars, Tracked
<1>9. CASE Wake \/ FinishedRace \/ NextHandle \/ CloseHandles
  BY <1>1, <1>9 DEF Wake, FinishedRace, NextHandle, CloseHandles, threadVars, poolVars, loopVars
<1>10. CASE UNCHANGED horseVars
  BY <1>1, <1>10 DEF horseVars, threadVars, poolVars, loopVars
<1>. QED BY <1>2, <1>3, <1>4, <1>5, <1>6, <1>7, <1>8, <1>9, <1>10 DEF HorseNext, HorseMain, HorseThread

\* There are as many places as horses, and no horse runs past the end of its track
\* or is drawn there.
THEOREM HorseTyped == HorseSpec => []HorseTypeOK
<1>1. HorseIInv /\ Tracked => HorseTypeOK
  <2>. SUFFICES ASSUME HorseIInv, Tracked PROVE HorseTypeOK
    OBVIOUS
  <2>1. HorseTypes /\ Order /\ Placed
    BY DEF HorseIInv
  <2>2. Len(arrivals) \in Nat /\ Len(taken) \in Nat /\ Len(finished) \in Nat /\ placement \in Nat \ {0}
    BY <2>1, SeqFacts DEF HorseTypes
  <2>3. Len(arrivals) <= TRACKS
    <3>1. TRACKS \in Nat \ {0}
      BY HorseAssumption
    <3>2. 0 \in Int /\ TRACKS - 1 \in Int /\ ~(0 > TRACKS - 1) /\ ((TRACKS - 1) - 0) + 1 = TRACKS
      BY <3>1
    <3>3. IsFiniteSet(Horses) /\ Cardinality(Horses) = TRACKS
      BY <3>2, FS_Interval DEF Horses
    <3>4. Len(arrivals) <= Cardinality(Horses)
      <4>1. arrivals \in Seq(Horses) /\ \A i, j \in 1..Len(arrivals) : arrivals[i] = arrivals[j] => i = j
        BY <2>1 DEF HorseTypes, Tracked
      <4>. QED BY <3>3, <4>1, DistinctLength
    <3>. QED BY <3>3, <3>4
  <2>4. placement \in 1..(TRACKS + 1)
    BY <2>1, <2>2, <2>3, HorseAssumption DEF Order
  <2>5. place \in [Horses -> 0..TRACKS]
    <3>1. place \in [Horses -> Nat] /\ \A h \in Horses : place[h] # 0 => place[h] < placement
      BY <2>1 DEF HorseTypes, Placed
    <3>2. \A h \in Horses : place[h] \in 0..TRACKS
      BY <2>2, <2>4, <3>1, HorseAssumption
    <3>. QED BY <3>1, <3>2
  <2>. QED BY <2>1, <2>4, <2>5 DEF HorseTypes, Tracked, HorseTypeOK, Works, Asyncs
<1>. QED BY <1>1, HorseInitIInv, HorseStepIInv, InitTracked, StepTracked, PTL DEF HorseSpec

\* The types of the echo server's handles, bytes and blocks.
THEOREM EchoTyped == EchoSpec => []EchoTypeOK
<1>. DEFINE Servers == {"up", "quit", "exit", "undefined"}
            Serving == server \in Servers
<1>1. EchoInit => Serving
  BY DEF EchoInit
<1>2. Serving /\ [EchoNext]_echoVars => Serving'
  <2>. SUFFICES ASSUME Serving, [EchoNext]_echoVars PROVE Serving'
    OBVIOUS
  <2>1. server' = server \/ server' \in Servers
    BY DEF EchoNext, EchoCallback, echoVars, PeerConnects, PeerSends, PeerEnds, PeerResets, Accept, EchoExit,
           ReadChunk, ResponseWritten, EndOfStream, StreamShutdown, StreamClosed
  <2>. QED BY <2>1
<1>3. EchoIInv /\ Answers /\ Serving => EchoTypeOK
  <2>. SUFFICES ASSUME EchoIInv, Answers, Serving, NEW c \in Peers
                PROVE  /\ peer[c] \in States /\ ended[c] \in {"no", "eof", "reset"}
                       /\ \A b \in ToSet(said[c]) \cup ToSet(arrived[c]) : b \in Bytes
                       /\ \A k \in Kinds : heap[c][k] \in Nat
    BY DEF EchoTypeOK, States
  <2>1. ASSUME NEW q \in Seq(Bytes), NEW b \in ToSet(q)
        PROVE  b \in Bytes
    BY <2>1, ToSetDef, SeqFacts
  <2>2. said[c] \in Seq(Bytes) /\ arrived[c] \in Seq(Bytes) /\ ended[c] \in {"no", "eof", "reset"}
    BY DEF Answers, Texts
  <2>. QED BY <2>1, <2>2 DEF EchoIInv, EchoTypes
<1>4. EchoIInv => EchoTypes
  BY DEF EchoIInv
<1>. HIDE DEF Serving
<1>. QED BY <1>1, <1>2, <1>3, <1>4, EchoInitIInv, EchoStepIInv, AnswersInit, StepAnswers, PTL DEF EchoSpec

-----------------------------------------------------------------------------
(* The programs together *)

\* In the instance that TLC checks, each program takes only steps of its own, so
\* that what is proved of each of them holds there.
THEOREM ExercisesApart ==
    ExercisesSpec => RaceSpec /\ QuestionsSpec /\ EchoSpec /\ HorseSpec /\ FilesSpec
<1>1. ExercisesInit => RaceInit /\ QuestionsInit /\ EchoInit /\ HorseInit /\ FilesInit
  BY DEF ExercisesInit
<1>2. [ExercisesNext]_exerciseVars =>
        /\ [RaceNext]_vars /\ [QuestionsNext]_questionVars /\ [EchoNext]_echoVars
        /\ [HorseNext]_horseVars /\ [FilesNext]_fileVars
  BY DEF ExercisesNext, exerciseVars, RaceStep, QuestionsStep, EchoStep, HorseStep, FilesStep
<1>. QED BY <1>1, <1>2, PTL DEF ExercisesSpec, RaceSpec, QuestionsSpec, EchoSpec, HorseSpec, FilesSpec

\* The variables of the five programs have their types.
THEOREM ExercisesTyped == ExercisesSpec => []ExercisesTypeOK
<1>1. TypeOK /\ EchoTypeOK /\ HorseTypeOK => ExercisesTypeOK
  BY DEF ExercisesTypeOK
<1>. QED BY <1>1, ExercisesApart, TypeCorrect, EchoTyped, HorseTyped, PTL

=============================================================================
