----------------------------- MODULE DumpRestore -----------------------------
(***************************************************************************)
(* Simulations that end with a state dump and are resumed from it by a new *)
(* process (eventloop_dump and eventloop_read_json in src/eventloop.c, the *)
(* array helpers of src/dump.c, and the order in which src/main.c calls    *)
(* them).                                                                  *)
(*                                                                         *)
(* A process runs its simulation once, dumps it and exits; the variables   *)
(* of the event loop and the generator keep the dead process's values      *)
(* until the next one overwrites them all.  The points of the code added   *)
(* to those of EventLoop are                                               *)
(*                                                                         *)
(*   "exited"          the process is gone, the dump is on disk            *)
(*   "read1", "read2"  in eventloop_read_json, before its two jobgen_rise  *)
(*   "crashed"         at line 90 with nextjob NULL                        *)
(*   "aborted"         in eventloop_read_json, at the assertion of         *)
(*                     selist_get that there is such an element            *)
(*                                                                         *)
(* A dump is the list of its numbers, the only part of the JSON text that  *)
(* reading it looks at (callback_append): the time, then five for a job.   *)
(***************************************************************************)
EXTENDS EventLoop, SequencesExt

CONSTANTS
    Restores, \* bound: how often a simulation is resumed
    Drops,    \* whether jobs may be taken out of a dump before it is resumed
    Cuts      \* whether a dump may be cut short, as by a full disk

ASSUME DumpRestoreAssumption ==
    /\ IsFiniteSet(Tasks)
    /\ Restores \in Nat
    /\ Drops \in BOOLEAN
    /\ Cuts \in BOOLEAN

VARIABLES
    file,     \* the numbers of the dump on disk
    restores  \* how often the simulation was resumed

dumpvars == <<vars, file, restores>>

-----------------------------------------------------------------------------
(* eventloop_dump                                                          *)

(* What the dump says of a job. *)
Fields(j) ==
    <<j.taskid, j.starttime, j.overruntime, j.deadline, j.computation>>

(* merge and uniq of the two queues' jobs. *)
DumpedJobs == jq.elems \cup pq.elems

(* A dump of jobs at a time.  uniq sorts the jobs by address, that is in   *)
(* any order.                                                              *)
Dumps(time, jobs) ==
    {<<time>> \o FlattenSeq([k \in DOMAIN order |-> Fields(order[k])]) :
        order \in SetToSeqs(jobs)}

(* The process exits after the dump, and its memory is freed. *)
eventloop_dump ==
    /\ pc = "idle"
    /\ result # "none"
    /\ file' \in Dumps(now, DumpedJobs)
    /\ pc' = "exited"
    /\ UNCHANGED <<jobgenvars, pq, now, counters, evl_nextjob, overflow,
                   allow_first_overrun, args, nextjob, runtime, overrun,
                   result, restores>>

(* The user takes a job out of the dump, as the comments at lines 318 and  *)
(* 356 expect.                                                             *)
DropJob ==
    /\ Drops
    /\ pc = "exited" /\ restores < Restores
    /\ \E k \in 0..(Len(file) \div 5) - 1 :
          file' = SubSeq(file, 1, 5 * k + 1) \o SubSeq(file, 5 * k + 7, Len(file))
    /\ UNCHANGED <<vars, restores>>

(* The end of the file is lost.  What is left reads as the beginning of its *)
(* numbers (RoundTrip of JsonFile); that the document is not complete goes *)
(* unnoticed.                                                              *)
CutFile ==
    /\ Cuts
    /\ pc = "exited" /\ restores < Restores
    /\ \E k \in 0..Len(file) - 1 : file' = SubSeq(file, 1, k)
    /\ UNCHANGED <<vars, restores>>

-----------------------------------------------------------------------------
(* eventloop_init without init set, and eventloop_read_json                *)

(* The time, and five numbers for each job.  Anything else ends in an      *)
(* assertion of selist_get.                                                *)
IsWhole == Len(file) % 5 = 1

(* Fault: two fields are read in the wrong order. *)
ReadJob_Swapped(k) ==
    job_init(file[5 * k + 2], file[5 * k + 3], file[5 * k + 5],
             file[5 * k + 4], file[5 * k + 6])

(* The job with number k, counted from 0, of the dump. *)
ReadJob(k) ==
    job_init(file[5 * k + 2], file[5 * k + 3], file[5 * k + 4],
             file[5 * k + 5], file[5 * k + 6])

(* Fault: the loop ends before the last job. *)
JobsRead_LastLeft == max(0, Len(file) \div 5 - 1)

JobsRead == Len(file) \div 5

RestoredTime == file[1]

(* Fault: the computation is not added back. *)
RestoredClock_NoComputation(j) ==
    j.starttime + (TaskSystem[j.taskid].period - j.computation)

(* The clock of its task when j has gone to the generator.                 *)
RestoredClock(j) ==
    j.starttime + j.computation + (TaskSystem[j.taskid].period - j.computation)

(* Jobs that arrive after the dumped time go to the generator, the others  *)
(* are scheduled.                                                          *)
Enqueue(queues, j) ==
    IF j.starttime > RestoredTime
    THEN [queues EXCEPT
             !.generator = jobq_insert_by(@, j, ByStarttime),
             !.simtimes = [@ EXCEPT ![j.taskid] = RestoredClock(j)]]
    ELSE [queues EXCEPT !.scheduler = jobq_insert_by(@, j, ByDeadline)]

(* The new queues and clocks after n turns of the loop over the list.      *)
Restored[n \in 0..JobsRead] ==
    IF n = 0
    THEN [scheduler |-> jobq_init, generator |-> jobq_init,
          simtimes  |-> [t \in Tasks |-> 0]]
    ELSE Enqueue(Restored[n - 1], ReadJob(n - 1))

(* A new process reads the dump. *)
Restore ==
    LET queues == Restored[JobsRead]
    IN  /\ pc = "exited"
        /\ restores < Restores
        /\ IsWhole
        /\ restores' = restores + 1
        /\ now' = RestoredTime
        /\ pq' = queues.scheduler
        /\ jq' = queues.generator
        /\ simtime_state' = queues.simtimes
        /\ events_done' = 0 /\ jobs_done' = 0
        /\ evl_nextjob' = NULL
        /\ had_overrun' = FALSE /\ overflowing' = NULL
        /\ allow_first_overrun' \in AllowFirstOverrun
        /\ breaktime' = 0 /\ speed' = 0 /\ overrunbreak' = FALSE
        /\ pc' = "read1"
        /\ result' = "none"
        /\ UNCHANGED <<nextjob, runtime, overrun, file>>

(* The first job of the generator, if there is one, becomes currentjob and *)
(* is scheduled.  The code does so after the second jobgen_rise, which     *)
(* does not look at the scheduler queue, and if that raised a job too: it  *)
(* always does, for the first refilled its task.                           *)
RestoreFirst ==
    /\ pc = "read1"
    /\ IF jq.elems = {}
       THEN pq' = pq
       ELSE pq' = jobq_insert_by(pq, jobq_peek(jq), ByDeadline)
    /\ jobgen_rise
    /\ pc' = "read2"
    /\ UNCHANGED <<now, counters, evl_nextjob, overflow, allow_first_overrun,
                   args, nextjob, runtime, overrun, result, file, restores>>

RestoreSecond ==
    /\ pc = "read2"
    /\ evl_nextjob' = jobq_peek(jq)
    /\ jobgen_rise
    /\ pc' = "idle"
    /\ UNCHANGED <<pq, now, counters, overflow, allow_first_overrun, args,
                   nextjob, runtime, overrun, result, file, restores>>

RestoreAborts ==
    /\ pc = "exited"
    /\ restores < Restores
    /\ ~ IsWhole
    /\ pc' = "aborted"
    /\ UNCHANGED <<jobgenvars, pq, now, counters, evl_nextjob, overflow,
                   allow_first_overrun, args, nextjob, runtime, overrun,
                   result, file, restores>>

DumpInit == Init /\ file = <<>> /\ restores = 0

(* The event loop is entered without a job to come. *)
Crash ==
    /\ pc = "top"
    /\ nextjob = NULL
    /\ pc' = "crashed"
    /\ UNCHANGED <<jobgenvars, pq, now, counters, evl_nextjob, overflow,
                   allow_first_overrun, args, nextjob, runtime, overrun,
                   result, file, restores>>

Simulate ==
    /\ pc = "top" => nextjob # NULL
    /\ Next
    /\ UNCHANGED <<file, restores>>

DumpNext == \/ Simulate
            \/ eventloop_dump
            \/ DropJob
            \/ CutFile
            \/ Restore
            \/ RestoreAborts
            \/ RestoreFirst
            \/ RestoreSecond
            \/ Crash

DumpSpec == DumpInit /\ [][DumpNext]_dumpvars

-----------------------------------------------------------------------------
(* Properties                                                              *)

(* What still holds of a simulation that was resumed: both queues keep     *)
(* their order, no deadline of a waiting job has passed, no job to come is *)
(* in the past or behind its task's clock, and the raised job is the first *)
(* of those to come.  (ArrivalOrder does not hold: see below.)             *)
ResumeInv ==
    /\ IsJobQ(pq, ByDeadline) /\ IsJobQ(jq, ByStarttime)
    /\ NoUndetectedMiss
    /\ \A j \in jq.elems : /\ now <= j.starttime
                           /\ j.starttime <= simtime_state[j.taskid]
                           /\ j.starttime <= j.deadline
    /\ \A j \in Pending \ {NULL} :
          /\ now <= j.starttime
          /\ \A k \in jq.elems : j.starttime <= k.starttime

(* Two jobs of one task arrive at least a period apart, also those before  *)
(* and after a resume, and no job is in two places at once.                *)
ResumedSeparation ==
    \A a, b \in {p \in Placed : p[2] # NULL} :
        a # b /\ a[2].taskid = b[2].taskid =>
            LET gap == TaskSystem[a[2].taskid].period
            IN  \/ a[2].starttime + gap <= b[2].starttime
                \/ b[2].starttime + gap <= a[2].starttime

(* The event loop is entered without a job to come only if the dump has    *)
(* none.                                                                   *)
NextJobThere ==
    pc = "crashed" =>
        \A k \in 0..Len(file) \div 5 - 1 :
            job_get_starttime(ReadJob(k)) <= file[1]

(* A resumed simulation has every job that the dumped one had in a queue   *)
(* or raised (dump.h:16-18).                                               *)
Waiting == {JobId(j) : j \in pq.elems \cup jq.elems
                               \cup ({evl_nextjob} \ {NULL})}

JobsKept == [][Restore => Waiting \subseteq Waiting']_dumpvars

(* The jobs that are to come according to the dump being resumed.           *)
DumpedAhead ==
    {ReadJob(k) : k \in {i \in 0..Len(file) \div 5 - 1 :
                            job_get_starttime(ReadJob(i)) > file[1]}}

(* A task goes on releasing jobs if the dump has a job of it to come.  (If *)
(* its job is dropped, cut off or due at the very time of the dump, it     *)
(* never releases one again: lines 326-335 refill no generator.)           *)
DumpedTaskReleases ==
    restores > 0 /\ pc \in {"idle", "top", "work"} =>
        \A d \in DumpedAhead : \E j \in jq.elems : j.taskid = d.taskid

(* Only one job is ever scheduled before its arrival: the first of those   *)
(* to come at the time of the dump, which the restore schedules at once    *)
(* (lines 370-374).                                                        *)
EarlyOnlyFirst ==
    pc \in {"read1", "read2", "idle", "top", "work"} =>
    \A j \in pq.elems :
        job_get_starttime(j) > now =>
            /\ restores > 0
            /\ \A d \in DumpedAhead : job_get_starttime(j) <= job_get_starttime(d)
            /\ \A k \in pq.elems : job_get_starttime(k) > now => k = j
=============================================================================
