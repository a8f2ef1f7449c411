------------------------------ MODULE Signals ------------------------------
(***************************************************************************)
(* Simulations that SIGTERM or SIGINT may end at any point (catch_signals  *)
(* and atexit_cleanup in src/main.c).                                      *)
(*                                                                         *)
(* The handler dumps what is in memory and exits, and exit runs            *)
(* atexit_cleanup, which frees the jobs of both queues and evl->nextjob.   *)
(* The dump goes to a file of its own; file is the one written last, from  *)
(* which a next process may resume.                                        *)
(*                                                                         *)
(* Between two actions of EventLoop the memory is what the model says.     *)
(* Within one the handler sees some of its writes, in the order of the     *)
(* code; a queue is taken to change at once (a heap torn in the middle of  *)
(* bubbling is left out).  Before the handlers are installed a signal ends *)
(* the process and leaves nothing.  Bound: a signal comes only to a        *)
(* process whose dump can still be resumed.                                *)
(***************************************************************************)
EXTENDS DumpRestore

VARIABLE freed  \* the jobs the event loop of this process has freed

signalvars == <<dumpvars, freed>>

Ids(jobs) == {JobId(j) : j \in jobs \ {NULL}}

(* atexit_cleanup, that is eventloop_free and jobgen_free, would free each *)
(* job once and none that is free already. *)
CleanupFreesOnce ==
    Ids({evl_nextjob}) \cap (Ids(pq.elems) \cup Ids(jq.elems) \cup freed) = {}

-----------------------------------------------------------------------------
(* What the handler may find in memory                                     *)

Image(time, scheduled, generated) ==
    [now |-> time, jobs |-> scheduled \cup generated]

Working == pc = "work" /\ runtime > 0 /\ pq.elems # {}

(* Line 155 done, then 156, then 157, and no miss noticed yet.             *)
InSpendBudget ==
    LET j    == jobq_peek(pq)
        work == runtime * speed
        c    == [j EXCEPT !.computation = @ - work]
        o    == [c EXCEPT !.overruntime = max(0, @ - work)]
    IN  IF Working /\ work <= j.computation
        THEN {Image(now + runtime, WriteRoot(pq, w).elems, jq.elems) : w \in {j, c, o}}
        ELSE {}

(* Line 166 done, then 169, then 172. *)
InFinishJob ==
    LET j  == jobq_peek(pq)
        dt == TimeToFinish(j.computation, speed)
    IN  IF Working /\ runtime * speed > j.computation
        THEN {Image(now + dt - j.computation \div speed, pq.elems, jq.elems),
              Image(now + dt, pq.elems, jq.elems),
              Image(now + dt, pq.elems \ {j}, jq.elems)}
        ELSE {}

(* Line 203 done, then 204, then the jobq_pop in jobgen_rise. *)
InArrival ==
    LET at == job_get_starttime(nextjob)
    IN  IF WindowDone /\ ~ AtBreaktime /\ ~ AtOverrun
        THEN {Image(at, pq.elems, jq.elems),
              Image(at, pq.elems \cup {nextjob}, jq.elems),
              Image(at, pq.elems \cup {nextjob}, jq.elems \ {jobq_peek(jq)})}
        ELSE {}

Images == {Image(now, pq.elems, jq.elems)}
             \cup InSpendBudget \cup InFinishJob \cup InArrival

-----------------------------------------------------------------------------

SignalInit == DumpInit /\ freed = {}

(* What the process does undisturbed.  Bound: the last one does not dump.  *)
Undisturbed ==
    /\ pc = "idle" /\ result # "none" => restores < Restores
    /\ DumpNext
    /\ freed' = IF jobs_done' > jobs_done THEN freed \cup {JobId(jobq_peek(pq))}
                ELSE IF restores' > restores THEN {}
                ELSE freed

(* What a signal leaves alone. *)
Dies ==
    /\ pc' = "exited"
    /\ UNCHANGED <<jobgenvars, pq, now, counters, evl_nextjob, overflow,
                   allow_first_overrun, args, nextjob, runtime, overrun,
                   result, restores, freed>>

(* Fault: only the jobs in the scheduler queue are dumped. *)
catch_signals_QueueOnly ==
    /\ pc \in {"idle", "top", "work"}
    /\ restores < Restores
    /\ \E image \in Images :
          file' \in Dumps(image.now, image.jobs \cap pq.elems)
    /\ Dies

catch_signals ==
    /\ pc \in {"idle", "top", "work"}
    /\ restores < Restores
    /\ \E image \in Images : file' \in Dumps(image.now, image.jobs)
    /\ Dies

(* The process that was to resume from a dump dies; the dump is still there. *)
KilledEarly ==
    /\ pc \in {"read1", "read2"}
    /\ file' = file
    /\ Dies

SignalNext == Undisturbed \/ catch_signals \/ KilledEarly

SignalSpec == SignalInit /\ [][SignalNext]_signalvars

-----------------------------------------------------------------------------
(* Properties                                                              *)

(* A process that exits between two calls frees every job once: nextjob    *)
(* was written back, and is in no queue (main.c 63-70, eventloop.c 60-65). *)
ExitFreesOnce == pc = "idle" => CleanupFreesOnce

(* The handlers "free memory on exit and ... state dump on signals"        *)
(* (main.c:200): a signal in the middle of a run frees no job twice.       *)
SignalFreesOnce == pc \in {"idle", "top", "work"} => CleanupFreesOnce

(* A simulation that was ended at any point and resumed from what the      *)
(* handler wrote goes on with every job that was in a queue but the one    *)
(* being worked on and the one being raised (main.c 48-61, eventloop.c     *)
(* 155-172 and 203-205).                                                   *)
QueuedJobsKept ==
    [][Restore => Ids((pq.elems \cup jq.elems) \ {jobq_peek(pq), jobq_peek(jq)})
                     \subseteq Ids(pq'.elems \cup jq'.elems)]_signalvars

(* A deadline that had passed when a signal came is not lost sight of in   *)
(* the resumed simulation: no run ends at its breaktime with such a job    *)
(* waiting (eventloop.c 177-190).  It may end in an overrun: a late job    *)
(* dumped with an overruntime of 0 gets windows of length 0 (lines         *)
(* 100-118), and the run breaks for it before its deadline is looked at.   *)
MissNotHidden == result = "EVL_OK" => NoUndetectedMiss
=============================================================================
