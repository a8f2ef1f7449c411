------------------------------ MODULE EventLoop ------------------------------
(***************************************************************************)
(* The event loop (src/eventloop.c): a uniprocessor on which the jobs the  *)
(* generator raises are scheduled earliest deadline first.                 *)
(*                                                                         *)
(* The state is struct eventloop, the arguments and locals of the call of  *)
(* eventloop_run in progress, and pc, the point of the code reached:       *)
(*                                                                         *)
(*   "init1", "init2"   in eventloop_init, before its two jobgen_rise      *)
(*   "idle"             between two calls                                  *)
(*   "top"              at the head of the while over windows              *)
(*   "work"             at the head of the inner while, runtime computed   *)
(*                                                                         *)
(* A window reaches from now to the next arrival, or to the breaktime if   *)
(* that is not later; an expected overrun shortens it.  evl->currentjob is *)
(* left out: each value stored in it is overwritten before it is read.     *)
(*                                                                         *)
(* A definition under a comment that starts with "Fault:" is a faulty form *)
(* of the next one; it is used only to see that a property would notice.   *)
(***************************************************************************)
EXTENDS JobGen, FiniteSets

CONSTANTS
    BreakTimes,        \* the breaktimes a caller may ask for
    Speeds,            \* the speeds a caller may ask for
    OverrunBreak,      \* the values of -b
    AllowFirstOverrun, \* the values of -a
    ContinueAfter      \* the results after which the caller runs on

VARIABLES
    \* struct eventloop
    pq, now, events_done, jobs_done, evl_nextjob, had_overrun,
    allow_first_overrun,
    \* arguments of the call of eventloop_run in progress, or of the last one
    breaktime, speed, overrunbreak,
    \* its locals
    nextjob, runtime, overrun,
    \* the point reached, the last result, the job reported as overflowing
    pc, result, overflowing

counters == <<events_done, jobs_done>>
args     == <<breaktime, speed, overrunbreak>>
overflow == <<had_overrun, overflowing>>
vars == <<jobgenvars, pq, now, counters, evl_nextjob, overflow,
          allow_first_overrun, args, nextjob, runtime, overrun, pc, result>>

Results == {"none", "EVL_OK", "EVL_DEADLINEMISS", "EVL_PASS", "EVL_OVERRUN"}

ASSUME EventLoopAssumption ==
    /\ BreakTimes \subseteq Nat
    /\ Speeds \subseteq Nat
    /\ OverrunBreak \subseteq BOOLEAN
    /\ AllowFirstOverrun \subseteq BOOLEAN
    /\ ContinueAfter \subseteq Results

(* Fault: the overruntime is not clamped at zero. *)
max_NotClamped(a, b) == b

max(a, b) == IF a > b THEN a ELSE b

(* Fault: the truncation of the division is left as it is. *)
TimeToFinish_Truncated(c, s) == c \div s

(* The time a job with c units of computation left occupies a processor    *)
(* that does s > 0 units per timestep; a broken timestep is wasted.        *)
TimeToFinish(c, s) == c \div s + (IF c % s > 0 THEN 1 ELSE 0)

-----------------------------------------------------------------------------
(* eventloop_init with init set: the first job is raised and scheduled,    *)
(* the second is raised and waits for its arrival.                         *)

Init ==
    /\ jobgen_init
    /\ pq = jobq_init
    /\ now = 0
    /\ events_done = 0 /\ jobs_done = 0
    /\ evl_nextjob = NULL
    /\ had_overrun = FALSE /\ overflowing = NULL
    /\ allow_first_overrun \in AllowFirstOverrun
    /\ breaktime = 0 /\ speed = 0 /\ overrunbreak = FALSE
    /\ nextjob = NULL /\ runtime = 0 /\ overrun = 0
    /\ pc = "init1"
    /\ result = "none"

InitFirst ==
    /\ pc = "init1"
    /\ pq' = jobq_insert_by(pq, jobq_peek(jq), ByDeadline)
    /\ now' = job_get_starttime(jobq_peek(jq))
    /\ jobgen_rise
    /\ pc' = "init2"
    /\ UNCHANGED <<counters, evl_nextjob, overflow, allow_first_overrun, args,
                   nextjob, runtime, overrun, result>>

InitSecond ==
    /\ pc = "init2"
    /\ evl_nextjob' = jobq_peek(jq)
    /\ jobgen_rise
    /\ pc' = "idle"
    /\ UNCHANGED <<pq, now, counters, overflow, allow_first_overrun, args,
                   nextjob, runtime, overrun, result>>

-----------------------------------------------------------------------------
(* eventloop_run                                                           *)

(* Fault: nextjob is not written back. *)
Return_NoWriteBack(r, next) ==
    /\ result' = r
    /\ evl_nextjob' = evl_nextjob
    /\ nextjob' = NULL
    /\ runtime' = 0
    /\ overrun' = 0
    /\ pc' = "idle"

(* Every return of a call that simulated something writes nextjob back.    *)
(* The locals die; they get a fixed value.                                 *)
Return(r, next) ==
    /\ result' = r
    /\ evl_nextjob' = next
    /\ nextjob' = NULL
    /\ runtime' = 0
    /\ overrun' = 0
    /\ pc' = "idle"

RunPass(b, s, o) ==
    /\ b <= now
    /\ breaktime' = b /\ speed' = s /\ overrunbreak' = o
    /\ result' = "EVL_PASS"
    /\ UNCHANGED <<jobgenvars, pq, now, counters, evl_nextjob, overflow,
                   allow_first_overrun, nextjob, runtime, overrun, pc>>

RunStart(b, s, o) ==
    /\ b > now
    /\ breaktime' = b /\ speed' = s /\ overrunbreak' = o
    /\ result' = "none"
    /\ nextjob' = evl_nextjob
    /\ pc' = "top"
    /\ UNCHANGED <<jobgenvars, pq, now, counters, evl_nextjob, overflow,
                   allow_first_overrun, runtime, overrun>>

Call ==
    /\ pc = "idle"
    /\ result \in ContinueAfter \cup {"none"}
    /\ \E b \in BreakTimes, s \in Speeds, o \in OverrunBreak :
          RunPass(b, s, o) \/ RunStart(b, s, o)

(* Fault: the window ignores the next arrival. *)
WindowLength_NoArrival == breaktime - now

(* The time to the end of the window as it is before overruns count.       *)
WindowLength ==
    LET arrival == job_get_starttime(nextjob)
    IN  (IF arrival < breaktime THEN arrival ELSE breaktime) - now

(* The job at the root of pq at the start of the window is going to work   *)
(* past its budget, and in this window.                                    *)
OverrunExpected ==
    /\ overrunbreak
    /\ pq.elems # {}
    /\ jobq_peek(pq).overruntime <= jobq_peek(pq).computation
    /\ jobq_peek(pq).overruntime <= WindowLength

CalcRuntime ==
    /\ pc = "top"
    /\ overrun' = IF pq.elems = {} THEN 0 ELSE now + jobq_peek(pq).overruntime
    /\ had_overrun' = (had_overrun \/ OverrunExpected)
    /\ IF OverrunExpected /\ (allow_first_overrun => had_overrun)
       THEN runtime' = jobq_peek(pq).overruntime
       ELSE runtime' = WindowLength
    /\ IF OverrunExpected /\ allow_first_overrun /\ ~had_overrun
       THEN overflowing' = JobId(jobq_peek(pq))
       ELSE overflowing' = overflowing
    /\ pc' = "work"
    /\ UNCHANGED <<jobgenvars, pq, now, counters, evl_nextjob,
                   allow_first_overrun, args, nextjob, result>>

(* Fault: the deadline is checked against the time before the work. *)
ProgressTo_LateCheck(t, rest, j) ==
    /\ events_done' = events_done + 1
    /\ IF now > job_get_deadline(j)
       THEN /\ now' = job_get_deadline(j)
            /\ Return("EVL_DEADLINEMISS", nextjob)
       ELSE /\ now' = t
            /\ runtime' = rest
            /\ UNCHANGED <<evl_nextjob, nextjob, overrun, pc, result>>
    /\ UNCHANGED <<jobgenvars, overflow, allow_first_overrun, args>>

(* The end of an iteration of the inner loop that worked on j until t and  *)
(* left rest of the window: a job found past its deadline ends the run at  *)
(* that deadline.                                                          *)
ProgressTo(t, rest, j) ==
    /\ events_done' = events_done + 1
    /\ IF t > job_get_deadline(j)
       THEN /\ now' = job_get_deadline(j)
            /\ Return("EVL_DEADLINEMISS", nextjob)
       ELSE /\ now' = t
            /\ runtime' = rest
            /\ UNCHANGED <<evl_nextjob, nextjob, overrun, pc, result>>
    /\ UNCHANGED <<jobgenvars, overflow, allow_first_overrun, args>>

SpendBudget ==
    LET j         == jobq_peek(pq)
        workdelta == runtime * speed
    IN  /\ pc = "work"
        /\ runtime > 0
        /\ pq.elems # {}
        /\ workdelta <= j.computation
        /\ pq' = WriteRoot(pq, [j EXCEPT
                    !.computation = @ - workdelta,
                    !.overruntime = max(0, @ - workdelta)])
        /\ jobs_done' = jobs_done
        /\ ProgressTo(now + runtime, 0, j)

FinishJob ==
    LET j  == jobq_peek(pq)
        dt == TimeToFinish(j.computation, speed)
    IN  /\ pc = "work"
        /\ runtime > 0
        /\ pq.elems # {}
        /\ runtime * speed > j.computation
        /\ pq' \in jobq_pop(pq, ByDeadline)
        /\ jobs_done' = jobs_done + 1
        /\ ProgressTo(now + dt, runtime - dt, j)

(* Fault: only an empty queue ends the inner loop. *)
WindowDone_OnlyBreak == pc = "work" /\ pq.elems = {}

(* The inner loop is left with the window used up or nothing to work on.   *)
WindowDone == pc = "work" /\ (runtime = 0 \/ pq.elems = {})

AtBreaktime == now = breaktime \/ now + runtime = breaktime

(* Fault: the loop stops at an overrun instant nobody reached by overrun. *)
AtOverrun_Unchecked == overrunbreak /\ now = overrun

AtOverrun == overrunbreak /\ now = overrun /\ had_overrun

(* Fault: time is not moved to the breaktime. *)
StopAtBreaktime_NowLeft ==
    /\ WindowDone
    /\ AtBreaktime
    /\ Return("EVL_OK", nextjob)
    /\ UNCHANGED <<jobgenvars, pq, now, counters, overflow,
                   allow_first_overrun, args>>

StopAtBreaktime ==
    /\ WindowDone
    /\ AtBreaktime
    /\ now' = breaktime
    /\ Return("EVL_OK", nextjob)
    /\ UNCHANGED <<jobgenvars, pq, counters, overflow, allow_first_overrun,
                   args>>

StopAtOverrun ==
    /\ WindowDone
    /\ ~AtBreaktime
    /\ AtOverrun
    /\ Return("EVL_OVERRUN", nextjob)
    /\ UNCHANGED <<jobgenvars, pq, now, counters, overflow,
                   allow_first_overrun, args>>

Arrival ==
    /\ WindowDone
    /\ ~AtBreaktime
    /\ ~AtOverrun
    /\ now' = job_get_starttime(nextjob)
    /\ pq' = jobq_insert_by(pq, nextjob, ByDeadline)
    /\ jobgen_rise
    /\ events_done' = events_done + 1
    /\ IF now' < breaktime
       THEN /\ nextjob' = jobq_peek(jq)
            /\ runtime' = 0 /\ overrun' = 0
            /\ pc' = "top"
            /\ UNCHANGED <<evl_nextjob, result>>
       ELSE Return("EVL_OK", jobq_peek(jq))
    /\ UNCHANGED <<jobs_done, overflow, allow_first_overrun, args>>

Run == \/ CalcRuntime
       \/ SpendBudget
       \/ FinishJob
       \/ StopAtBreaktime
       \/ StopAtOverrun
       \/ Arrival

Next == \/ InitFirst
        \/ InitSecond
        \/ Call
        \/ Run

Spec == Init /\ [][Next]_vars

(* One thread executes a call; nothing in it waits.                        *)
FairSpec == Spec /\ WF_vars(Run)

-----------------------------------------------------------------------------
(* Properties                                                              *)

(* The job raised but not yet arrived, where the code keeps it. *)
Pending == CASE pc \in {"top", "work"} -> {nextjob}
             [] pc = "idle"            -> {evl_nextjob}
             [] OTHER                  -> {}

JobQs == [elems : SUBSET Jobs(Tasks), head : Jobs(Tasks) \cup {NULL}]

(* Every variable has its type: times are never negative, so assert(!(     *)
(* runtime < 0)) at line 144 holds, and a raised job is never NULL.        *)
TypeOK ==
    /\ jq \in JobQs /\ jq.elems # {}
    /\ pq \in JobQs
    /\ simtime_state \in [Tasks -> Nat]
    /\ now \in Nat /\ events_done \in Nat /\ jobs_done \in Nat
    /\ had_overrun \in BOOLEAN /\ allow_first_overrun \in BOOLEAN
    /\ breaktime \in Nat /\ speed \in Nat /\ overrunbreak \in BOOLEAN
    /\ runtime \in Nat /\ overrun \in Nat
    /\ pc \in {"init1", "init2", "idle", "top", "work"}
    /\ result \in Results
    /\ nextjob \in Jobs(Tasks) \cup {NULL}
    /\ evl_nextjob \in Jobs(Tasks) \cup {NULL}
    /\ overflowing \in (Tasks \X Nat) \cup {NULL}
    /\ Pending \subseteq Jobs(Tasks)

(* The deadline of no job still to be worked on has passed: a job that is  *)
(* left waiting, or finished behind another, is never late without the run *)
(* having ended in EVL_DEADLINEMISS (lines 177-183 look at one job only).  *)
NoUndetectedMiss == \A j \in pq.elems : now <= job_get_deadline(j)

(* The raised job is not late, and no job of the generator comes sooner. *)
NextToArrive ==
    \A j \in Pending :
        /\ now <= job_get_starttime(j)
        /\ \A k \in jq.elems : job_get_starttime(j) <= job_get_starttime(k)

(* Time stands between what has arrived and what has not: a job is in the  *)
(* scheduler queue only after its arrival, the raised job is the next to   *)
(* arrive, and the generator's jobs come no sooner (lines 45, 89, 203).    *)
ArrivalOrder ==
    /\ \A j \in pq.elems : job_get_starttime(j) <= now
    /\ NextToArrive

(* What is left of a window ends no later than the next arrival and the    *)
(* breaktime, so working through it overtakes neither (lines 92-144).      *)
WindowBounded ==
    pc = "work" => /\ now + runtime <= job_get_starttime(nextjob)
                   /\ now + runtime <= breaktime

(* The generator always holds exactly one job of every task, and the time  *)
(* of the one after it is at least a period later: raising a job never     *)
(* leaves a task out (jobgen.c 98-143).                                    *)
GeneratorCoversTasks ==
    \A t \in Tasks :
        \E j \in jq.elems :
            /\ \A k \in jq.elems : k.taskid = t <=> k = j
            /\ j.starttime + TaskSystem[t].period <= simtime_state[t]

(* The places a job can be in, each with the job there. *)
Placed == ({"pq"} \X pq.elems) \cup ({"next"} \X Pending)
             \cup ({"jq"} \X jq.elems)

(* Two jobs of one task, wherever they are, arrive at least a period apart *)
(* - so the task system is sporadic, and no job is in two places at once   *)
(* or in one place twice (a job is freed by its place).                    *)
SporadicSeparation ==
    \A a, b \in Placed :
        a # b /\ a[2].taskid = b[2].taskid =>
            LET gap == TaskSystem[a[2].taskid].period
            IN  \/ a[2].starttime + gap <= b[2].starttime
                \/ b[2].starttime + gap <= a[2].starttime

(* A run that ends without an error ends at the breaktime asked for        *)
(* (eventloop.h:199).                                                      *)
OKAtBreaktime == result = "EVL_OK" => now = breaktime

(* An overrun that the first call of a process reports, at speed 1 and to  *)
(* a caller who tolerates none, is one: the root of the queue, a job not   *)
(* yet taken out as finished, has worked past its budget c1 - all of       *)
(* c1 + 1, the work to its overrun, is used up (lines 100-118, 193-197).   *)
OverrunGenuine ==
    result = "EVL_OVERRUN" /\ ~allow_first_overrun /\ speed = 1 =>
        /\ pq.elems # {}
        /\ jobq_peek(pq).overruntime = 0

(* The first overrun is tolerated if the caller says so: EVL_OVERRUN is not *)
(* returned for the job whose overrun was reported as tolerated, which     *)
(* works on until it is finished (eventloop.c:194-196, eventloop.h:46).    *)
FirstOverrunTolerated ==
    result = "EVL_OVERRUN" /\ allow_first_overrun =>
        JobId(jobq_peek(pq)) # overflowing

(* The generator's queue is ordered, no deadline in it lies before the     *)
(* arrival, and no clock is behind all the jobs of its task.               *)
GeneratorInv ==
    /\ jq \in JobQs
    /\ jq.elems # {}
    /\ simtime_state \in [Tasks -> Nat]
    /\ IsJobQ(jq, ByStarttime)
    /\ \A j \in jq.elems :
          /\ j.starttime <= j.deadline
          /\ \E k \in jq.elems : /\ k.taskid = j.taskid
                                 /\ k.starttime <= simtime_state[k.taskid]

SchedulerOrdered == IsJobQ(pq, ByDeadline)

WindowExact ==
    pc = "work" /\ pq.elems # {} =>
        \/ now + runtime = job_get_starttime(nextjob)
        \/ now + runtime = breaktime
        \/ overrunbreak /\ had_overrun /\ now + runtime = overrun

(* What the steps of the event loop rely on, in a resumed simulation too   *)
(* and also if a job in it is late.  Beside the properties it says that    *)
(* both roots are minimal, that no deadline lies before the arrival, where *)
(* now stands at each pc, and that a window with work in it uses up        *)
(* exactly its length unless an overrun shortened it.                      *)
LoopInv ==
    /\ TypeOK
    /\ GeneratorInv
    /\ SchedulerOrdered
    /\ NextToArrive
    /\ \A j \in pq.elems \cup Pending : j.starttime <= j.deadline
    /\ WindowBounded
    /\ WindowExact
    /\ pc = "init1" => now = 0 /\ pq.elems = {}
    /\ pc = "init2" => \A k \in jq.elems : now <= k.starttime
    /\ pc = "top"   => now < breaktime

(* The inductive invariant behind the safety properties. *)
IInv ==
    /\ LoopInv
    /\ NoUndetectedMiss
    /\ ArrivalOrder
    /\ \A j \in jq.elems : j.starttime <= simtime_state[j.taskid]

(* The jobs that are ready to run, as EDF describes them. *)
AsReady(j) == [id       |-> JobId(j),
               release  |-> job_get_starttime(j),
               deadline |-> job_get_deadline(j),
               left     |-> j.computation]
ReadyJobs == {AsReady(j) : j \in pq.elems}

Abs == INSTANCE EDF WITH ready <- ReadyJobs,
                         missed <- result = "EVL_DEADLINEMISS"

(* The event loop schedules earliest deadline first: the detailed          *)
(* specification implements EDF.                                           *)
ImplementsEDF == Abs!Spec

(* Without random delays a task's jobs arrive a period apart, and its      *)
(* clock stands at the arrival of the next one.                            *)
Created == UNION {{<<t, n * TaskSystem[t].period>> :
                      n \in 0..simtime_state[t] \div TaskSystem[t].period - 1} :
                  t \in Tasks}

InSystem == {JobId(p[2]) : p \in Placed}

(* Every job created was finished, or is in a place: the scheduler queue,  *)
(* the raised job or the generator.  No call loses a job or takes one      *)
(* twice (lines 86, 172, 180, 199, 204, 209).                              *)
JobsConserved ==
    /\ InSystem \subseteq Created
    /\ jobs_done = Cardinality(Created \ InSystem)

(* Simulation time never runs backwards, a deadline miss included, which   *)
(* sets it back to the deadline.                                           *)
TimeMonotone == [][now <= now']_vars

(* A call of eventloop_run returns. *)
RunTerminates == pc = "top" ~> pc = "idle"
=============================================================================
