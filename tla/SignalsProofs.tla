---------------------------- MODULE SignalsProofs ----------------------------
(***************************************************************************)
(* Proofs about simulations that a signal may end at any point.            *)
(*                                                                         *)
(* Whatever moment the handler interrupts, the memory it finds is made up  *)
(* of the jobs that are in a place, the one being worked on perhaps with   *)
(* less left of it, and time has not gone back (ImageForm).  So a dump it  *)
(* writes is one of those DumpRestoreProofs is about, and the invariants   *)
(* there hold here too - except that a job may be late when it is dumped.  *)
(* Such a job stays late, and time stands still, until it is found         *)
(* (LateInv).                                                              *)
(***************************************************************************)
EXTENDS Signals, DumpRestoreProofs

(***************************************************************************)
(* What the handler finds                                                  *)
(***************************************************************************)

SameJob(i, j) == i.taskid = j.taskid /\ i.starttime = j.starttime

(* The jobs of which one may be caught between two places.                 *)
Heads == {jobq_peek(pq), jobq_peek(jq)}

(* The jobs of the scheduler queue, but for what is left of the one worked *)
(* on.                                                                     *)
Scheduled(Q) ==
    /\ Q \in SUBSET Jobs(Tasks) /\ IsFiniteSet(Q)
    /\ \A j \in Q : j.starttime <= j.deadline
    /\ pq.elems \ {jobq_peek(pq)} \subseteq Q
    /\ \E from \in [Q -> pq.elems] :
          /\ \A j \in Q : SameJob(j, from[j])
          /\ \A i, j \in Q : i # j => from[i] # from[j]

(* The raised job, if it has arrived by then. *)
Arrived(time) == {j \in Pending \ {NULL} : j.starttime <= time}

ImageOf(image, Q) ==
    /\ image.now \in Nat /\ now <= image.now
    /\ (Q \cup jq.elems) \ Heads \subseteq image.jobs
    /\ image.jobs \subseteq Q \cup jq.elems \cup Arrived(image.now)

LEMMA SameScheduled ==
    ASSUME DumpInv PROVE Scheduled(pq.elems)
<1> DEFINE Q == pq.elems
           from == [j \in Q |-> j]
<1>1. /\ Q \in SUBSET Jobs(Tasks) /\ IsFiniteSet(Q)
      /\ \A j \in Q : j.starttime <= j.deadline
  BY DEF DumpInv, DumpTypes, QueuesOK, JobQs
<1>2. from \in [Q -> pq.elems] /\ \A j \in Q : from[j] = j
  OBVIOUS
<1> HIDE DEF from
<1>3. \E g \in [Q -> pq.elems] : /\ \A j \in Q : SameJob(j, g[j])
                                 /\ \A i, j \in Q : i # j => g[i] # g[j]
  BY <1>2 DEF SameJob
<1> QED BY <1>1, <1>3 DEF Scheduled

LEMMA RootScheduled ==
    ASSUME DumpInv, pq.elems # {}, NEW w \in Jobs(Tasks),
           SameJob(w, jobq_peek(pq)), w.deadline = jobq_peek(pq).deadline
    PROVE  Scheduled(WriteRoot(pq, w).elems)
<1> DEFINE j == jobq_peek(pq)
           R == pq.elems \ {j}
           Q == R \cup {w}
           from == [i \in Q |-> IF i = w THEN j ELSE i]
<1>1. /\ pq.elems \subseteq Jobs(Tasks) /\ IsFiniteSet(pq.elems)
      /\ j \in pq.elems
      /\ \A i \in pq.elems : i.starttime <= i.deadline
  BY DEF DumpInv, DumpTypes, QueuesOK, JobQs, IsJobQ, Firsts, jobq_peek
<1>2. IsFiniteSet(Q)
  <2>1. IsFiniteSet(R)
    BY <1>1, FS_RemoveElement
  <2> HIDE DEF R
  <2> QED BY <2>1, FS_AddElement
<1>3. /\ Q \in SUBSET Jobs(Tasks) /\ pq.elems \ {j} \subseteq Q
      /\ \A i \in Q : i.starttime <= i.deadline
  BY <1>1 DEF SameJob
<1>4. /\ from \in [Q -> pq.elems]
      /\ \A i \in Q : from[i] = IF i = w THEN j ELSE i
      /\ \A i \in Q : i # w => i # j
  BY <1>1
<1>5. WriteRoot(pq, w).elems = Q
  BY DEF WriteRoot, jobq_peek
<1> HIDE DEF Q, from
<1>6. \E g \in [Q -> pq.elems] : /\ \A i \in Q : SameJob(i, g[i])
                                 /\ \A i, k \in Q : i # k => g[i] # g[k]
  <2>1. \A i \in Q : SameJob(i, from[i])
    BY <1>4 DEF SameJob
  <2>2. \A i, k \in Q : i # k => from[i] # from[k]
    BY <1>4
  <2> QED BY <1>4, <2>1, <2>2
<1> QED BY <1>2, <1>3, <1>5, <1>6 DEF Scheduled

(* In the middle of SpendBudget the job at the root may have changed.      *)
LEMMA SpendImage ==
    ASSUME DumpInv, NEW image \in InSpendBudget
    PROVE  \E Q : Scheduled(Q) /\ ImageOf(image, Q)
<1> DEFINE j    == jobq_peek(pq)
           work == runtime * speed
           c    == [j EXCEPT !.computation = @ - work]
           o    == [c EXCEPT !.overruntime = max(0, @ - work)]
<1>1. /\ Working /\ work <= j.computation
      /\ \E w \in {j, c, o} :
            image = Image(now + runtime, WriteRoot(pq, w).elems, jq.elems)
  BY DEF InSpendBudget
<1>2. /\ now \in Nat /\ runtime \in Nat /\ speed \in Nat /\ work \in Nat
      /\ pq.elems # {} /\ j \in pq.elems /\ j \in Jobs(Tasks)
  BY <1>1 DEF DumpInv, DumpTypes, Working, QueuesOK, IsJobQ, Firsts, JobQs,
              jobq_peek
<1>3. PICK w \in {j, c, o} :
         image = Image(now + runtime, WriteRoot(pq, w).elems, jq.elems)
  BY <1>1
<1>4. w \in Jobs(Tasks) /\ SameJob(w, j) /\ w.deadline = j.deadline
  <2>1. j.computation - work \in Nat
    BY <1>1, <1>2 DEF Jobs
  <2>2. max(0, j.overruntime - work) \in Nat
    BY <1>2 DEF max, Jobs
  <2>3. c \in Jobs(Tasks) /\ SameJob(c, j) /\ c.deadline = j.deadline
        /\ c.overruntime = j.overruntime
    BY <1>2, <2>1 DEF Jobs, SameJob
  <2> HIDE DEF c
  <2>4. o \in Jobs(Tasks) /\ SameJob(o, j) /\ o.deadline = j.deadline
    BY <2>2, <2>3 DEF Jobs, SameJob
  <2> QED BY <1>2, <1>3, <2>3, <2>4 DEF SameJob
<1> HIDE DEF c, o
<1> DEFINE Q == WriteRoot(pq, w).elems
<1>5. Scheduled(Q)
  BY <1>2, <1>4, RootScheduled
<1>6. ImageOf(image, Q)
  BY <1>2, <1>3 DEF Image, ImageOf
<1> QED BY <1>5, <1>6

(* In the middle of FinishJob time has moved on, and the job at the root   *)
(* may have left the queue.                                                *)
LEMMA FinishImage ==
    ASSUME DumpInv, NEW image \in InFinishJob
    PROVE  ImageOf(image, pq.elems)
<1> DEFINE j  == jobq_peek(pq)
           q  == j.computation \div speed
           dt == TimeToFinish(j.computation, speed)
<1>1. /\ Working /\ runtime * speed > j.computation
      /\ \/ image = Image(now + dt - q, pq.elems, jq.elems)
         \/ image = Image(now + dt, pq.elems, jq.elems)
         \/ image = Image(now + dt, pq.elems \ {j}, jq.elems)
  BY DEF InFinishJob
<1>2. /\ now \in Nat /\ runtime \in Nat /\ speed \in Nat
      /\ j \in Jobs(Tasks) /\ j.computation \in Nat
  BY <1>1 DEF DumpInv, DumpTypes, Working, QueuesOK, IsJobQ, Firsts, JobQs,
              jobq_peek, Jobs
<1>3. dt \in Nat /\ dt - q \in Nat
  <2>1. speed > 0
    BY <1>1, <1>2
  <2>2. q \in Nat
    BY <1>2, <2>1
  <2>3. dt = q \/ dt = q + 1
    <3>1. dt = q + (IF j.computation % speed > 0 THEN 1 ELSE 0)
      BY DEF TimeToFinish
    <3> HIDE DEF dt, q
    <3> QED BY <2>2, <3>1
  <2> HIDE DEF dt, q
  <2> QED BY <2>2, <2>3
<1> HIDE DEF dt, q
<1>4. /\ now + dt \in Nat /\ now <= now + dt
      /\ now + dt - q \in Nat /\ now <= now + dt - q
  <2>1. now + dt - q = now + (dt - q)
    BY <1>2, <1>3
  <2> QED BY <1>2, <1>3, <2>1
<1> QED BY <1>1, <1>4 DEF Image, ImageOf, Heads

(* In the middle of Arrival it is the time the raised job arrives, which   *)
(* is in two places, in one, or takes the place of the next.               *)
LEMMA ArrivalImage ==
    ASSUME DumpInv, NEW image \in InArrival
    PROVE  ImageOf(image, pq.elems)
<1> DEFINE at == nextjob.starttime
<1>1. /\ pc = "work"
      /\ \/ image = Image(at, pq.elems, jq.elems)
         \/ image = Image(at, pq.elems \cup {nextjob}, jq.elems)
         \/ image = Image(at, pq.elems \cup {nextjob}, jq.elems \ {jobq_peek(jq)})
  BY DEF InArrival, WindowDone, job_get_starttime
<1>2. LoopInv
  BY <1>1 DEF DumpInv, Simulating
<1>3. Pending = {nextjob} /\ nextjob \in Jobs(Tasks) /\ now <= at /\ at \in Nat
  BY <1>1, <1>2 DEF LoopInv, TypeOK, NextToArrive, Pending, job_get_starttime, Jobs
<1>4. nextjob \in Arrived(at)
  BY <1>3, JobGenAssumption DEF Arrived
<1> QED BY <1>1, <1>3, <1>4 DEF Image, ImageOf, Heads

LEMMA ImageForm ==
    ASSUME DumpInv, NEW image \in Images
    PROVE  \E Q : Scheduled(Q) /\ ImageOf(image, Q)
<1>1. CASE image = Image(now, pq.elems, jq.elems)
  <2>1. now \in Nat /\ now <= now
    BY DEF DumpInv, DumpTypes
  <2>2. ImageOf(image, pq.elems)
    BY <1>1, <2>1 DEF Image, ImageOf
  <2> QED BY <2>2, SameScheduled
<1>2. CASE image \in InSpendBudget
  BY <1>2, SpendImage
<1>3. CASE image \in InFinishJob \cup InArrival
  BY <1>3, FinishImage, ArrivalImage, SameScheduled
<1> QED BY <1>1, <1>2, <1>3 DEF Images

(* So it can be dumped, and the dump resumed. *)
LEMMA ImageEffect ==
    ASSUME DumpInv, pc \in {"idle", "top", "work"}, NEW image \in Images
    PROVE  /\ image.now \in Nat /\ now <= image.now
           /\ image.jobs \in SUBSET Jobs(Tasks) /\ IsFiniteSet(image.jobs)
           /\ \A j \in image.jobs : j.starttime <= j.deadline
           /\ (pq.elems \cup jq.elems) \ Heads \subseteq image.jobs
<1>1. PICK Q : Scheduled(Q) /\ ImageOf(image, Q)
  BY ImageForm
<1>2. /\ Arrived(image.now) \in SUBSET Jobs(Tasks)
      /\ \A j \in Arrived(image.now) : j.starttime <= j.deadline
  <2>1. CASE jq.elems = {}
    BY <2>1, NothingPending DEF Arrived
  <2>2. CASE jq.elems # {}
    <3>1. LoopInv
      BY <2>2 DEF DumpInv, Simulating
    <3> QED BY <3>1 DEF LoopInv, TypeOK, Arrived
  <2> QED BY <2>1, <2>2
<1>3. IsFiniteSet(Arrived(image.now))
  <2>1. PICK j : Pending = {j}
    BY DEF Pending
  <2>2. IsFiniteSet({j}) /\ Arrived(image.now) \subseteq {j}
    BY <2>1, FS_Singleton DEF Arrived
  <2> QED BY <2>2, FS_Subset
<1>4. /\ jq.elems \in SUBSET Jobs(Tasks) /\ IsFiniteSet(jq.elems)
      /\ \A j \in jq.elems : j.starttime <= j.deadline
  BY DEF DumpInv, DumpTypes, QueuesOK, JobQs
<1> DEFINE all == (Q \cup jq.elems) \cup Arrived(image.now)
<1>5. IsFiniteSet(all)
  <2>1. IsFiniteSet(Q \cup jq.elems)
    BY <1>1, <1>4, FS_Union DEF Scheduled
  <2> QED BY <1>3, <2>1, FS_Union
<1>6. all \in SUBSET Jobs(Tasks) /\ \A j \in all : j.starttime <= j.deadline
  BY <1>1, <1>2, <1>4 DEF Scheduled
<1>7. image.jobs \subseteq all
  BY <1>1 DEF ImageOf
<1> HIDE DEF all
<1>8. IsFiniteSet(image.jobs)
  BY <1>5, <1>7, FS_Subset
<1>9. (pq.elems \cup jq.elems) \ Heads \subseteq image.jobs
  BY <1>1 DEF ImageOf, Scheduled, Heads
<1>10. image.now \in Nat /\ now <= image.now
  BY <1>1 DEF ImageOf
<1> QED BY <1>6, <1>7, <1>8, <1>9, <1>10

(***************************************************************************)
(* The invariant of DumpRestoreProofs                                      *)
(***************************************************************************)

(* A process that dies has its memory and a file to leave behind.          *)
LEMMA DeadStep ==
    ASSUME DumpInv, Dies, FileOK(file)'
    PROVE  DumpInv'
<1>1. /\ pc' = "exited"
      /\ UNCHANGED <<jobgenvars, pq, now, counters, evl_nextjob, overflow,
                     allow_first_overrun, args, nextjob, runtime, overrun,
                     result, restores>>
  BY DEF Dies
<1>2. DumpTypes'
  BY <1>1 DEF DumpInv, DumpTypes, jobgenvars, counters, overflow, args
<1>3. QueuesOK'
  BY <1>1 DEF DumpInv, QueuesOK, jobgenvars, IsJobQ, Firsts, ByDeadline,
              ByStarttime
<1>4. ~Simulating' /\ jq' = jq /\ restores' = restores
  BY <1>1 DEF Simulating, jobgenvars
<1> QED BY <1>1, <1>2, <1>3, <1>4 DEF DumpInv

(* The handler's dump lists the jobs it found. *)
LEMMA SignalEffect ==
    ASSUME DumpInv, catch_signals
    PROVE  \E image \in Images :
              /\ Lists(file', image.now, image.jobs)
              /\ IsFiniteSet(image.jobs)
              /\ FileOK(file')
<1>1. /\ pc \in {"idle", "top", "work"}
      /\ \E image \in Images : file' \in Dumps(image.now, image.jobs)
  BY DEF catch_signals
<1>2. PICK image \in Images : file' \in Dumps(image.now, image.jobs)
  BY <1>1
<1>3. /\ image.now \in Nat
      /\ image.jobs \in SUBSET Jobs(Tasks) /\ IsFiniteSet(image.jobs)
      /\ \A j \in image.jobs : j.starttime <= j.deadline
  BY <1>1, ImageEffect
<1>4. Lists(file', image.now, image.jobs)
  BY <1>2, <1>3, DumpLists
<1>5. FileOK(file')
  BY <1>3, <1>4, ListsFileOK
<1> QED BY <1>3, <1>4, <1>5

LEMMA SignalStep ==
    ASSUME DumpInv, catch_signals \/ KilledEarly
    PROVE  DumpInv'
<1>1. CASE catch_signals
  <2>1. FileOK(file)'
    BY <1>1, SignalEffect DEF FileOK, InFile, RecordAt
  <2> QED BY <1>1, <2>1, DeadStep DEF catch_signals
<1>2. CASE KilledEarly
  <2>1. FileOK(file)'
    BY <1>2, SameFile DEF KilledEarly, DumpInv
  <2> QED BY <1>2, <2>1, DeadStep DEF KilledEarly
<1> QED BY <1>1, <1>2

LEMMA SignalSteps ==
    ASSUME [SignalNext]_signalvars
    PROVE  [DumpNext]_dumpvars \/ catch_signals \/ KilledEarly
BY DEF SignalNext, Undisturbed, signalvars

LEMMA NextSignal == DumpInv /\ [SignalNext]_signalvars => DumpInv'
  BY SignalSteps, SignalStep, NextDumpInv

LEMMA SignalInvariance == SignalSpec => []DumpInv
<1>1. SignalInit => DumpInv
  BY InitDumpInv DEF SignalInit
<1> QED BY <1>1, NextSignal, PTL DEF SignalSpec

(***************************************************************************)
(* Deadlines                                                               *)
(***************************************************************************)

(* While a job is late no run has ended at its breaktime, nor is one about *)
(* to: its window has time left, and the job is found after it.            *)
LateInv ==
    ~NoUndetectedMiss => /\ result # "EVL_OK"
                         /\ pc = "work" => now < breaktime

LEMMA NextLateInv == DumpInv /\ LateInv /\ [SignalNext]_signalvars => LateInv'
<1> SUFFICES ASSUME DumpInv, LateInv, [SignalNext]_signalvars, ~NoUndetectedMiss'
             PROVE  result' # "EVL_OK" /\ (pc' = "work" => now' < breaktime')
  BY DEF LateInv
<1>1. CASE Restore
  BY <1>1 DEF Restore
<1>2. CASE catch_signals \/ KilledEarly
  <2>1. /\ UNCHANGED <<pq, now, result>> /\ pc' = "exited"
    BY <1>2 DEF catch_signals, KilledEarly, Dies
  <2> QED BY <2>1 DEF LateInv, NoUndetectedMiss, job_get_deadline
<1>3. CASE [DumpNext]_dumpvars /\ ~Restore
  <2>1. /\ ~NoUndetectedMiss /\ now' = now /\ ~SpendBudget /\ ~FinishJob
    BY <1>3, NextDumpLate
  <2>2. result # "EVL_OK" /\ (pc = "work" => now < breaktime)
    BY <2>1 DEF LateInv
  <2>3. now \in Nat /\ breaktime \in Nat
    BY DEF DumpInv, DumpTypes
  <2>4. CASE Simulate
    <3>1. /\ InitFirst \/ InitSecond \/ Call \/ Run
          /\ pc = "top" => nextjob # NULL
      BY <2>4 DEF Simulate, Next
    <3>2. CASE InitFirst \/ InitSecond
      BY <2>2, <3>2 DEF InitFirst, InitSecond
    <3>3. CASE Call
      BY <2>2, <3>3 DEF Call, RunPass, RunStart
    <3>4. CASE CalcRuntime
      <4>1. jq.elems # {}
        BY <3>1, <3>4 DEF DumpInv, CalcRuntime
      <4>2. now < breaktime
        BY <3>4, <4>1 DEF CalcRuntime, DumpInv, Simulating, LoopInv
      <4> QED BY <2>1, <2>2, <3>4, <4>2 DEF CalcRuntime, args
    <3>5. CASE StopAtBreaktime
      <4>1. pc = "work" /\ now' = breaktime
        BY <3>5 DEF StopAtBreaktime, WindowDone
      <4> QED BY <2>1, <2>2, <2>3, <4>1
    <3>6. CASE StopAtOverrun
      BY <3>6 DEF StopAtOverrun, Return
    <3>7. CASE Arrival
      <4>1. now' < breaktime
        BY <2>1, <2>2, <3>7 DEF Arrival, WindowDone
      <4> QED BY <2>2, <3>7, <4>1 DEF Arrival
    <3> QED BY <2>1, <3>1, <3>2, <3>3, <3>4, <3>5, <3>6, <3>7 DEF Run
  <2>5. CASE eventloop_dump \/ DropJob \/ CutFile \/ RestoreAborts \/ Crash
    BY <2>2, <2>5 DEF eventloop_dump, DropJob, CutFile, RestoreAborts, Crash,
                      vars
  <2>6. CASE RestoreFirst \/ RestoreSecond
    BY <2>2, <2>6 DEF RestoreFirst, RestoreSecond
  <2>7. CASE UNCHANGED dumpvars
    BY <2>2, <2>7 DEF dumpvars, vars, args
  <2> QED BY <1>3, <2>4, <2>5, <2>6, <2>7 DEF DumpNext
<1> QED BY <1>1, <1>2, <1>3, SignalSteps

(* A job that was late in the dump of a signal, however often that         *)
(* happened, is not late behind a run that ended at its breaktime          *)
(* (eventloop.c 177-190).                                                  *)
THEOREM MissesAreFound == SignalSpec => []MissNotHidden
<1>1. SignalInit => LateInv
  BY DEF SignalInit, DumpInit, Init, jobq_init, LateInv, NoUndetectedMiss
<1>2. LateInv => MissNotHidden
  BY DEF LateInv, MissNotHidden
<1> QED BY <1>1, <1>2, NextLateInv, SignalInvariance, PTL DEF SignalSpec

(***************************************************************************)
(* Jobs of one task, in a simulation resumed once                          *)
(***************************************************************************)

(* Until its dump the first process has no late job, and none that is      *)
(* scheduled before its arrival.                                           *)
FirstInv ==
    restores = 0 /\ Simulating =>
        /\ NoUndetectedMiss
        /\ \A j \in pq.elems : j.starttime <= now

LEMMA NextFirstInv == DumpInv /\ FirstInv /\ [SignalNext]_signalvars => FirstInv'
<1> SUFFICES ASSUME DumpInv, FirstInv, [SignalNext]_signalvars,
                    restores' = 0, Simulating'
             PROVE  /\ NoUndetectedMiss'
                    /\ \A j \in pq'.elems : j.starttime <= now'
  BY DEF FirstInv
<1>1. restores \in Nat
  BY DEF DumpInv, DumpTypes
<1>2. CASE Simulate
  <2>1. /\ Next /\ restores' = restores
        /\ pc \in {"init1", "init2", "idle", "top", "work"}
    BY <1>2 DEF Simulate, Next, InitFirst, InitSecond, Call, Run, CalcRuntime,
         SpendBudget, FinishJob, StopAtBreaktime, StopAtOverrun, Arrival,
         WindowDone
  <2>2. restores = 0 /\ Simulating
    BY <2>1 DEF Simulating
  <2>3. LoopInv
    BY <1>1, <2>2 DEF DumpInv
  <2> QED BY <2>1, <2>2, <2>3, NextOnTime, NextArrived DEF FirstInv
<1>3. CASE UNCHANGED dumpvars
  <2>1. UNCHANGED <<pq, now, pc, restores>>
    BY <1>3 DEF dumpvars, vars
  <2> QED BY <2>1 DEF FirstInv, Simulating, NoUndetectedMiss, job_get_deadline
<1>4. CASE Restore
  BY <1>1, <1>4 DEF Restore
<1>5. CASE RestoreFirst \/ RestoreSecond
  <2>1. restores' = restores /\ pc \in {"read1", "read2"}
    BY <1>5 DEF RestoreFirst, RestoreSecond
  <2> QED BY <1>1, <2>1 DEF DumpInv
<1>6. CASE \/ eventloop_dump \/ DropJob \/ CutFile \/ RestoreAborts \/ Crash
           \/ catch_signals \/ KilledEarly
  <2>1. pc' \in {"exited", "aborted", "crashed"}
    BY <1>6 DEF eventloop_dump, DropJob, CutFile, RestoreAborts, Crash, vars,
                catch_signals, KilledEarly, Dies
  <2> QED BY <2>1 DEF Simulating
<1> QED BY <1>2, <1>3, <1>4, <1>5, <1>6, SignalSteps DEF DumpNext

LEMMA FirstInvariance == SignalSpec => []FirstInv
<1>1. SignalInit => FirstInv
  BY DEF SignalInit, DumpInit, Init, jobq_init, FirstInv, NoUndetectedMiss
<1> QED BY <1>1, NextFirstInv, SignalInvariance, PTL DEF SignalSpec

(* Jobs that can be resumed at a time. *)
Apart(jobs, time) ==
    \A a, b \in jobs : a # b =>
        /\ Ahead(a, b) \/ Ahead(b, a)
        /\ a.starttime > time /\ b.starttime > time => a.taskid # b.taskid

(* What the handler finds in the first process is apart. *)
LEMMA ImageApart ==
    ASSUME DumpInv, FirstInv, SepInv, restores = 0,
           pc \in {"idle", "top", "work"}, NEW image \in Images
    PROVE  Apart(image.jobs, image.now)
<1>1. PICK Q : Scheduled(Q) /\ ImageOf(image, Q)
  BY ImageForm
<1>2. PICK from \in [Q -> pq.elems] :
          /\ \A j \in Q : SameJob(j, from[j])
          /\ \A i, j \in Q : i # j => from[i] # from[j]
  BY <1>1 DEF Scheduled
<1> DEFINE P == Arrived(image.now)
<1>3. /\ P \subseteq Pending /\ \A a, b \in P : a = b
      /\ \A a \in P : a.starttime <= image.now
  BY DEF Arrived, Pending
<1>4. /\ \A a, b \in Q : a # b => Ahead(a, b) \/ Ahead(b, a)
      /\ \A a \in Q : \A b \in Pending \cup jq.elems : Ahead(a, b)
      /\ \A a \in Pending : \A b \in jq.elems : Ahead(a, b)
  BY <1>2 DEF SepInv, InLine, Ahead, SameJob
<1>5. \A a, b \in jq.elems : a # b => a.taskid # b.taskid
  BY DEF SepInv, OneEach
<1>6. /\ image.now \in Nat /\ now \in Nat /\ now <= image.now
      /\ image.jobs \subseteq Q \cup P \cup jq.elems
      /\ image.jobs \subseteq Jobs(Tasks)
  <2>1. image.jobs \in SUBSET Jobs(Tasks)
    BY ImageEffect
  <2> QED BY <1>1, <2>1 DEF ImageOf, DumpInv, DumpTypes
<1>7. ASSUME NEW a \in Q \cup P, a \in Jobs(Tasks)
      PROVE  ~(a.starttime > image.now)
  <2>1. a.starttime \in Nat
    BY <1>7 DEF Jobs
  <2>2. CASE a \in Q
    <3>1. a.starttime <= now
      BY <1>2, <2>2 DEF SameJob, FirstInv, Simulating
    <3> QED BY <1>6, <2>1, <3>1
  <2>3. CASE a \in P
    BY <1>3, <1>6, <2>1, <2>3
  <2> QED BY <2>2, <2>3
<1> SUFFICES ASSUME NEW a \in image.jobs, NEW b \in image.jobs, a # b
             PROVE  /\ Ahead(a, b) \/ Ahead(b, a)
                    /\ a.starttime > image.now /\ b.starttime > image.now
                       => a.taskid # b.taskid
  BY DEF Apart
<1> HIDE DEF P
<1>8. CASE a \in jq.elems /\ b \in jq.elems
  BY <1>5, <1>8 DEF Ahead
<1>9. CASE a \in Q \cup P \/ b \in Q \cup P
  <2>1. Ahead(a, b) \/ Ahead(b, a)
    BY <1>3, <1>4, <1>6, <1>9
  <2> QED BY <1>6, <1>7, <1>9, <2>1
<1> QED BY <1>6, <1>8, <1>9

LEMMA NextSignalSep ==
    ASSUME Restores <= 1
    PROVE  DumpInv /\ FirstInv /\ ResumeSepInv /\ [SignalNext]_signalvars
              => ResumeSepInv'
<1> SUFFICES ASSUME DumpInv, FirstInv, ResumeSepInv, [SignalNext]_signalvars
             PROVE  ResumeSepInv'
  OBVIOUS
<1>1. CASE [DumpNext]_dumpvars
  <2>1. FirstArrived
    BY DEF FirstInv, FirstArrived
  <2> QED BY <1>1, <2>1, NextResumeSep
<1>2. CASE catch_signals
  <2>1. /\ pc \in {"idle", "top", "work"} /\ restores < Restores
        /\ pc' = "exited" /\ UNCHANGED <<jobgenvars, pq, restores>>
    BY <1>2 DEF catch_signals, Dies
  <2>2. restores = 0
    BY <2>1, DumpRestoreAssumption DEF DumpInv, DumpTypes
  <2>3. jq.elems # {}
    BY <2>2 DEF DumpInv
  <2>4. SepInv
    BY <2>3 DEF ResumeSepInv, SepInv
  <2>5. PICK image \in Images : /\ Lists(file', image.now, image.jobs)
                                /\ IsFiniteSet(image.jobs)
    BY <1>2, SignalEffect
  <2>6. Apart(image.jobs, image.now)
    BY <2>1, <2>2, <2>4, ImageApart
  <2>7. FileSeparate(file')
    BY <2>5, <2>6, ListsSeparate DEF Apart
  <2>8. FileSeparate(file)'
    BY <2>7 DEF FileSeparate, InFile, RecordAt, Ahead
  <2>9. Pending' = {}
    BY <2>1 DEF Pending
  <2> QED BY <2>1, <2>8, <2>9, SameQueues
<1>3. CASE KilledEarly
  <2>1. /\ pc' = "exited" /\ UNCHANGED <<jobgenvars, pq, restores>> /\ file' = file
    BY <1>3 DEF KilledEarly, Dies
  <2>2. Pending' = {}
    BY <2>1 DEF Pending
  <2>3. restores = 0 => FileSeparate(file)'
    BY <2>1 DEF ResumeSepInv, FileSeparate, InFile, RecordAt, Ahead
  <2> QED BY <2>1, <2>2, <2>3, SameQueues
<1> QED BY <1>1, <1>2, <1>3, SignalSteps

LEMMA SignalSepInvariance ==
    Restores <= 1 => (SignalSpec => []ResumeSepInv)
<1> SUFFICES ASSUME Restores <= 1 PROVE SignalSpec => []ResumeSepInv
  OBVIOUS
<1>1. SignalInit => ResumeSepInv
  BY InitResumeSep DEF SignalInit
<1>2. DumpInv /\ FirstInv /\ ResumeSepInv /\ [SignalNext]_signalvars
         => ResumeSepInv'
  BY NextSignalSep
<1> QED BY <1>1, <1>2, FirstInvariance, SignalInvariance, PTL DEF SignalSpec

(* Jobs of one task stay a period apart over a signal and a resume, and    *)
(* none is in two places, whatever the handler interrupted (main.c 48-61,  *)
(* eventloop.c 155-172 and 203-205).                                       *)
THEOREM SignalledSporadic ==
    Restores <= 1 => (SignalSpec => []ResumedSeparation)
<1>1. DumpInv /\ ResumeSepInv => ResumedSeparation
  BY ResumeSepSeparates
<1> QED BY <1>1, SignalSepInvariance, SignalInvariance, PTL

(***************************************************************************)
(* Freeing jobs                                                            *)
(***************************************************************************)

(* The jobs a process has finished came before all that are still to come  *)
(* of their tasks.                                                         *)
FreedInv ==
    jq.elems # {} =>
        \A a \in Jobs(Tasks) :
            JobId(a) \in freed => \A b \in Pending \cup jq.elems : Ahead(a, b)

(* The jobs to come change only when the generator raises one. *)
LEMMA PendingSteps ==
    ASSUME LoopInv, Next
    PROVE  \/ UNCHANGED jobgenvars /\ Pending' \subseteq Pending
           \/ jobgen_rise /\ Pending' \subseteq {jobq_peek(jq)}
<1>1. CASE InitFirst \/ InitSecond
  BY <1>1 DEF InitFirst, InitSecond, Pending
<1>2. CASE Arrival
  BY <1>2 DEF Arrival, Return, Pending
<1>3. CASE Call
  BY <1>3 DEF Call, RunPass, RunStart, Pending
<1>4. CASE CalcRuntime
  BY <1>4 DEF CalcRuntime, Pending
<1>5. CASE SpendBudget \/ FinishJob
  BY <1>5 DEF SpendBudget, FinishJob, ProgressTo, Return, Pending
<1>6. CASE StopAtBreaktime \/ StopAtOverrun
  BY <1>6 DEF StopAtBreaktime, StopAtOverrun, WindowDone, Return, Pending
<1> QED BY <1>1, <1>2, <1>3, <1>4, <1>5, <1>6 DEF Next, Run

(* Only a job that is finished is counted. *)
LEMMA DoneSteps ==
    ASSUME Next, jobs_done \in Nat, ~FinishJob
    PROVE  jobs_done' = jobs_done
BY DEF Next, Run, InitFirst, InitSecond, Call, RunPass, RunStart, CalcRuntime,
       SpendBudget, StopAtBreaktime, StopAtOverrun, Arrival, counters

(* Raising a job keeps those ahead that were. *)
LEMMA RiseFreed ==
    ASSUME GeneratorInv, OneEach, jobgen_rise,
           FreedInv, jq.elems # {}, freed' = freed,
           Pending' \subseteq {jobq_peek(jq)}
    PROVE  FreedInv'
<1> SUFFICES ASSUME NEW a \in Jobs(Tasks), JobId(a) \in freed
             PROVE  \A b \in Pending' \cup jq'.elems : Ahead(a, b)
  BY DEF FreedInv, JobId, Ahead
<1>1. \A b \in jq.elems : Ahead(a, b)
  BY DEF FreedInv
<1>2. /\ jobq_peek(jq) \in jq.elems
      /\ \A b \in jq'.elems : Ahead(a, b)
  BY <1>1, RiseKeepsOne
<1> QED BY <1>1, <1>2

(* A step without a rise. *)
LEMMA StillFreed ==
    ASSUME FreedInv, UNCHANGED jobgenvars,
           jq.elems # {} => Pending' \subseteq Pending,
           freed' = freed
    PROVE  FreedInv'
BY DEF FreedInv, jobgenvars, JobId, Ahead

LEMMA NextFreed ==
    DumpInv /\ ResumeSepInv /\ FreedInv /\ [SignalNext]_signalvars => FreedInv'
<1> SUFFICES ASSUME DumpInv, ResumeSepInv, FreedInv, [SignalNext]_signalvars,
                    jq'.elems # {}
             PROVE  FreedInv'
  BY DEF FreedInv
<1>0. restores \in Nat /\ jobs_done \in Nat
  BY DEF DumpInv, DumpTypes
<1>1. CASE catch_signals \/ KilledEarly
  <2>1. freed' = freed /\ pc' = "exited" /\ UNCHANGED jobgenvars
    BY <1>1 DEF catch_signals, KilledEarly, Dies
  <2>2. Pending' = {}
    BY <2>1 DEF Pending
  <2> QED BY <2>1, <2>2, StillFreed
<1>2. CASE UNCHANGED signalvars
  <2>1. freed' = freed /\ UNCHANGED jobgenvars /\ Pending' = Pending
    BY <1>2 DEF signalvars, dumpvars, vars, Pending
  <2> QED BY <2>1, StillFreed
<1>3. CASE Undisturbed
  <2>0. /\ DumpNext
        /\ freed' = IF jobs_done' > jobs_done
                    THEN freed \cup {JobId(jobq_peek(pq))}
                    ELSE IF restores' > restores THEN {}
                    ELSE freed
    BY <1>3 DEF Undisturbed
  <2>1. ASSUME jobs_done' = jobs_done, restores' = restores
        PROVE  freed' = freed
    BY <1>0, <2>0, <2>1
  <2>2. CASE Simulate
    <3>1. /\ Next /\ restores' = restores
          /\ pc = "top" => nextjob # NULL
          /\ pc \in {"init1", "init2", "idle", "top", "work"}
      BY <2>2 DEF Simulate, Next, InitFirst, InitSecond, Call, Run, CalcRuntime,
         SpendBudget, FinishJob, StopAtBreaktime, StopAtOverrun, Arrival,
         WindowDone
    <3>2. jq.elems # {}
      <4> SUFFICES ASSUME jq.elems = {} PROVE FALSE
        OBVIOUS
      <4>1. Call
        BY <3>1 DEF DumpInv, Next, InitFirst, InitSecond, Run, CalcRuntime,
         SpendBudget, FinishJob, StopAtBreaktime, StopAtOverrun, Arrival,
         WindowDone
      <4> QED BY <4>1 DEF Call, RunPass, RunStart, jobgenvars
    <3>3. LoopInv /\ SepInv
      BY <3>1, <3>2 DEF DumpInv, Simulating, ResumeSepInv, SepInv
    <3>4. CASE FinishJob
      <4>1. /\ UNCHANGED jobgenvars /\ Pending' \subseteq Pending
            /\ jobs_done' = jobs_done + 1 /\ pq.elems # {}
        BY <3>4 DEF FinishJob, ProgressTo, Return, Pending
      <4>2. freed' = freed \cup {JobId(jobq_peek(pq))}
        BY <1>0, <2>0, <4>1
      <4>3. jobq_peek(pq) \in pq.elems
        BY <3>3, <4>1, RootIsEarliest
      <4>4. \A b \in Pending \cup jq.elems : Ahead(jobq_peek(pq), b)
        BY <3>3, <4>3 DEF SepInv, InLine
      <4>5. ASSUME NEW a \in Jobs(Tasks), JobId(a) \in freed'
            PROVE  \A b \in Pending \cup jq.elems : Ahead(a, b)
        <5>1. CASE JobId(a) \in freed
          BY <3>2, <5>1 DEF FreedInv
        <5>2. CASE JobId(a) = JobId(jobq_peek(pq))
          <6>1. /\ a.taskid = jobq_peek(pq).taskid
                /\ a.starttime = jobq_peek(pq).starttime
            BY <5>2 DEF JobId
          <6> QED BY <4>4, <6>1 DEF Ahead
        <5> QED BY <4>2, <4>5, <5>1, <5>2
      <4> QED BY <4>1, <4>5 DEF FreedInv, jobgenvars, JobId, Ahead
    <3>5. CASE ~FinishJob
      <4>1. freed' = freed
        BY <1>0, <2>1, <3>1, <3>5, DoneSteps
      <4>2. CASE UNCHANGED jobgenvars /\ Pending' \subseteq Pending
        BY <4>1, <4>2, StillFreed
      <4>3. CASE jobgen_rise /\ Pending' \subseteq {jobq_peek(jq)}
        BY <3>2, <3>3, <4>1, <4>3, RiseFreed DEF LoopInv, SepInv
      <4> QED BY <3>1, <3>3, <4>2, <4>3, PendingSteps
    <3> QED BY <3>4, <3>5
  <2>3. CASE Restore
    <3>1. jobs_done' = 0 /\ restores' = restores + 1
      BY <2>3 DEF Restore
    <3>2. freed' = {}
      BY <1>0, <2>0, <3>1
    <3> QED BY <3>2 DEF FreedInv
  <2>4. CASE RestoreFirst \/ RestoreSecond
    <3>1. /\ jobgen_rise /\ UNCHANGED counters /\ restores' = restores
          /\ Pending' \subseteq {jobq_peek(jq)}
      BY <2>4 DEF RestoreFirst, RestoreSecond, Pending
    <3>2. freed' = freed
      BY <2>1, <3>1 DEF counters
    <3>3. jq.elems # {}
      BY <3>1 DEF jobgen_rise, jobgenvars
    <3>4. GeneratorInv
      BY <3>3, QueuesGenerator
    <3> QED BY <3>1, <3>2, <3>3, <3>4, RiseFreed DEF ResumeSepInv
  <2>5. CASE eventloop_dump \/ DropJob \/ CutFile \/ RestoreAborts \/ Crash
    <3>1. /\ UNCHANGED jobgenvars /\ jobs_done' = jobs_done
          /\ restores' = restores
          /\ pc' \in {"exited", "aborted", "crashed"}
      BY <2>5 DEF eventloop_dump, DropJob, CutFile, RestoreAborts, Crash, vars,
                  counters
    <3>2. Pending' = {}
      BY <3>1 DEF Pending
    <3> QED BY <2>1, <3>1, <3>2, StillFreed
  <2> QED BY <2>0, <2>2, <2>3, <2>4, <2>5 DEF DumpNext
<1> QED BY <1>1, <1>2, <1>3 DEF SignalNext

(* A process that exits between two calls frees the raised job and the     *)
(* jobs of both queues, which are all different and none of them finished  *)
(* (main.c 63-70, eventloop.c 60-65).                                      *)
THEOREM ExitsFreeOnce ==
    Restores <= 1 => (SignalSpec => []ExitFreesOnce)
<1>1. SignalInit => FreedInv
  BY DEF SignalInit, FreedInv
<1>2. DumpInv /\ ResumeSepInv /\ FreedInv => ExitFreesOnce
  <2> SUFFICES ASSUME DumpInv, ResumeSepInv, FreedInv, pc = "idle",
                      evl_nextjob # NULL,
                      JobId(evl_nextjob) \in Ids(pq.elems) \cup Ids(jq.elems)
                                                           \cup freed
               PROVE  FALSE
    BY DEF ExitFreesOnce, CleanupFreesOnce, Ids
  <2> DEFINE j == evl_nextjob
  <2>1. j \in Pending
    BY DEF Pending
  <2>2. jq.elems # {}
    BY <2>1, NothingPending
  <2>3. LoopInv /\ InLine
    BY <2>2 DEF DumpInv, Simulating, ResumeSepInv
  <2>4. j \in Jobs(Tasks) /\ TaskSystem[j.taskid].period \in Nat \ {0}
    BY <2>1, <2>3, JobGenAssumption DEF LoopInv, TypeOK, TaskAssumption, Jobs
  <2>5. ASSUME NEW a, JobId(a) = JobId(j), Ahead(a, j) \/ Ahead(j, a)
        PROVE  FALSE
    <3>1. a.taskid = j.taskid /\ a.starttime = j.starttime
      BY <2>5 DEF JobId
    <3> QED BY <2>4, <2>5, <3>1 DEF Ahead, Jobs
  <2>6. CASE JobId(j) \in Ids(pq.elems) \cup Ids(jq.elems)
    <3>1. PICK a \in pq.elems \cup jq.elems : JobId(a) = JobId(j)
      BY <2>6 DEF Ids
    <3>2. Ahead(a, j) \/ Ahead(j, a)
      BY <2>1, <2>3 DEF InLine
    <3> QED BY <2>5, <3>1, <3>2
  <2>7. CASE JobId(j) \in freed
    <3>1. Ahead(j, j)
      BY <2>1, <2>2, <2>4, <2>7 DEF FreedInv
    <3> QED BY <2>5, <3>1
  <2> QED BY <2>6, <2>7
<1> QED BY <1>1, <1>2, NextFreed, SignalSepInvariance, SignalInvariance, PTL
    DEF SignalSpec

(***************************************************************************)
(* What a resume finds again                                               *)
(***************************************************************************)

(* The first dump has a record of every job that was in a queue, but for   *)
(* the two that may have been caught between places.                       *)
KeptInv ==
    pc = "exited" /\ restores = 0 =>
        \A j \in (pq.elems \cup jq.elems) \ Heads :
            \E k \in Nat : InFile(file, k) /\ RecordAt(file, k) = j

LEMMA NextKept ==
    ASSUME ~Drops, ~Cuts
    PROVE  DumpInv /\ KeptInv /\ [SignalNext]_signalvars => KeptInv'
<1> SUFFICES ASSUME DumpInv, KeptInv, [SignalNext]_signalvars,
                    pc' = "exited", restores' = 0,
                    NEW j \in ((pq.elems \cup jq.elems) \ Heads)'
             PROVE  \E k \in Nat : InFile(file', k) /\ RecordAt(file', k) = j
  BY DEF KeptInv, InFile, RecordAt
<1>0. restores \in Nat
  BY DEF DumpInv, DumpTypes
<1>1. CASE eventloop_dump
  <2>1. file' \in Dumps(now, DumpedJobs) /\ UNCHANGED <<jobgenvars, pq>>
    BY <1>1 DEF eventloop_dump
  <2>2. Lists(file', now, DumpedJobs) /\ IsFiniteSet(DumpedJobs)
    BY <2>1, DumpEffect
  <2>3. j \in DumpedJobs
    BY <2>1 DEF DumpedJobs, jobgenvars
  <2> QED BY <2>2, <2>3, ListsAll
<1>2. CASE catch_signals
  <2>1. PICK image \in Images : /\ Lists(file', image.now, image.jobs)
                                /\ IsFiniteSet(image.jobs)
    BY <1>2, SignalEffect
  <2>2. UNCHANGED <<jobgenvars, pq>> /\ pc \in {"idle", "top", "work"}
    BY <1>2 DEF catch_signals, Dies
  <2>3. j \in (pq.elems \cup jq.elems) \ Heads
    BY <2>2 DEF jobgenvars, Heads, jobq_peek
  <2>4. j \in image.jobs
    BY <2>2, <2>3, ImageEffect
  <2> QED BY <2>1, <2>4, ListsAll
<1>3. CASE KilledEarly
  <2>1. restores' = restores /\ pc \in {"read1", "read2"}
    BY <1>3 DEF KilledEarly, Dies
  <2> QED BY <1>0, <2>1 DEF DumpInv
<1>4. CASE UNCHANGED dumpvars
  BY <1>4 DEF dumpvars, vars, jobgenvars, KeptInv, InFile, RecordAt, Heads,
              jobq_peek
<1>5. CASE Simulate
  <2>1. pc' # "exited"
    BY <1>5 DEF Simulate, Next, InitFirst, InitSecond, Call, RunPass, RunStart,
         Run, CalcRuntime, SpendBudget, FinishJob, ProgressTo, StopAtBreaktime,
         StopAtOverrun, Arrival, WindowDone, Return
  <2> QED BY <2>1
<1>6. CASE DropJob \/ CutFile
  BY <1>6 DEF DropJob, CutFile
<1>7. CASE Restore \/ RestoreAborts \/ RestoreFirst \/ RestoreSecond \/ Crash
  BY <1>7 DEF Restore, RestoreAborts, RestoreFirst, RestoreSecond, Crash
<1> QED BY <1>1, <1>2, <1>3, <1>4, <1>5, <1>6, <1>7, SignalSteps DEF DumpNext

(* A simulation ended by a signal at any point, and resumed, goes on with  *)
(* every job that was in a queue, but for the one worked on and the one    *)
(* being raised, if nobody changes the dump (main.c 48-61, eventloop.c     *)
(* 155-172 and 203-205).                                                   *)
THEOREM QueuedJobsAreKept ==
    Restores <= 1 /\ ~Drops /\ ~Cuts => (SignalSpec => QueuedJobsKept)
<1> SUFFICES ASSUME Restores <= 1, ~Drops, ~Cuts
             PROVE  SignalSpec => QueuedJobsKept
  OBVIOUS
<1>1. SignalInit => KeptInv
  BY DEF SignalInit, DumpInit, Init, KeptInv
<1>2. DumpInv /\ KeptInv /\ [SignalNext]_signalvars => KeptInv'
  BY NextKept
<1> DEFINE Kept == Ids((pq.elems \cup jq.elems) \ {jobq_peek(pq), jobq_peek(jq)})
                      \subseteq Ids(pq'.elems \cup jq'.elems)
<1>3. DumpInv /\ KeptInv /\ [SignalNext]_signalvars => (Restore => Kept)
  <2> SUFFICES ASSUME DumpInv, KeptInv, Restore,
                      NEW j \in (pq.elems \cup jq.elems) \ Heads, j # NULL
               PROVE  JobId(j) \in Ids(pq'.elems \cup jq'.elems)
    BY DEF Ids, Heads
  <2>1. pc = "exited" /\ IsWhole /\ FileOK(file) /\ restores = 0
    BY DumpRestoreAssumption DEF Restore, DumpInv, DumpTypes
  <2>2. PICK k \in Nat : InFile(file, k) /\ RecordAt(file, k) = j
    BY <2>1 DEF KeptInv
  <2>3. k \in 0..JobsRead-1 /\ ReadJob(k) = j /\ ReadJob(k) \in Jobs(Tasks)
        /\ RestoredTime \in Nat
    <3>1. k < JobsRead /\ JobsRead \in Nat
      BY <2>1, <2>2, WholeFile
    <3>2. k \in 0..JobsRead-1
      BY <3>1
    <3> QED BY <2>1, <2>2, <3>2, WholeFile DEF ReadJob, RecordAt
  <2>4. j \in Due(JobsRead) \cup Coming(JobsRead)
    BY <2>3 DEF Due, Coming, Jobs
  <2>5. j \in pq'.elems \cup jq'.elems
    BY <2>1, <2>4, RestoreEffect
  <2> QED BY <2>5 DEF Ids
<1> QED BY <1>1, <1>2, <1>3, SignalInvariance, PTL DEF SignalSpec, QueuedJobsKept
=============================================================================
