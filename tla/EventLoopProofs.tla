--------------------------- MODULE EventLoopProofs ---------------------------
(***************************************************************************)
(* Proofs about the event loop for every task system and every caller.     *)
(*                                                                         *)
(* First its inductive invariant, then what rests on it: the jobs it       *)
(* schedules are those of a sporadic task system, each in one place and    *)
(* none lost; a run that is not to break on overruns ends at its           *)
(* breaktime, and one that is breaks for a real overrun; and the loop      *)
(* implements the abstract scheduler EDF.                                  *)
(***************************************************************************)
EXTENDS EventLoop, FiniteSetTheorems, TLAPS

(***************************************************************************)
(* The job queues.                                                         *)
(***************************************************************************)

(* The keys of jobs are natural numbers. *)
LEMMA KeyNat ==
    ASSUME NEW j \in Jobs(Tasks), NEW by \in Keys
    PROVE  j[by] \in Nat
  BY DEF Jobs, Keys, ByStarttime, ByDeadline

(* Inserting a job into a well-formed queue leaves a well-formed queue     *)
(* that also holds the job.                                                *)
LEMMA InsertJob ==
    ASSUME NEW q \in JobQs, NEW j \in Jobs(Tasks), NEW by \in Keys,
           IsJobQ(q, by)
    PROVE  LET r == jobq_insert_by(q, j, by)
           IN  /\ r \in JobQs
               /\ r.elems = q.elems \cup {j}
               /\ IsJobQ(r, by)
<1> DEFINE r == jobq_insert_by(q, j, by)
<1>1. q.elems \subseteq Jobs(Tasks)
  BY DEF JobQs
<1>2. \A k \in q.elems \cup {j} : k[by] \in Nat
  BY <1>1, KeyNat
<1>3. q.elems # {} => /\ q.head \in q.elems
                      /\ \A k \in q.elems : q.head[by] <= k[by]
  BY DEF IsJobQ, Firsts
<1>4. /\ r.elems = q.elems \cup {j}
      /\ r.head = IF q.elems = {} \/ j[by] < q.head[by] THEN j ELSE q.head
      /\ r = [elems |-> r.elems, head |-> r.head]
  BY DEF jobq_insert_by
<1>5. r.head \in r.elems /\ \A k \in r.elems : r.head[by] <= k[by]
  <2>1. CASE q.elems = {}
    BY <2>1, <1>2, <1>4
  <2>2. CASE q.elems # {} /\ j[by] < q.head[by]
    BY <2>2, <1>2, <1>3, <1>4
  <2>3. CASE q.elems # {} /\ ~(j[by] < q.head[by])
    BY <2>3, <1>2, <1>3, <1>4
  <2> QED
    BY <2>1, <2>2, <2>3
<1>6. r \in JobQs
  BY <1>1, <1>4, <1>5 DEF JobQs
<1> QED
  BY <1>4, <1>5, <1>6 DEF IsJobQ, Firsts

(* Taking the root off a queue leaves a well-formed queue of the others.   *)
LEMMA PopRoot ==
    ASSUME NEW q \in JobQs, NEW by \in Keys, NEW r \in jobq_pop(q, by)
    PROVE  /\ r \in JobQs
           /\ r.elems = q.elems \ {q.head}
           /\ IsJobQ(r, by)
  BY DEF jobq_pop, jobq_init, IsJobQ, Firsts, JobQs

(***************************************************************************)
(* The job generator.                                                      *)
(***************************************************************************)

(* A random draw of a computation demand is a natural number. *)
LEMMA GammaNat ==
    ASSUME NEW t \in Tasks
    PROVE  Gamma(t) \subseteq Nat
<1> SUFFICES ASSUME NEW s \in Segments(t)
             PROVE  TaskSystem[t].comp[2 * s + 1]
                        .. TaskSystem[t].comp[2 * s + 2] \subseteq Nat
  BY DEF Gamma
<1>1. s \in {0, 1, 2}
  BY DEF Segments
<1>2. 2 * s + 1 \in 1..6 /\ 2 * s + 2 \in 1..6
  BY <1>1
<1>3. TaskSystem[t].comp \in [1..6 -> Nat]
  BY JobGenAssumption DEF TaskAssumption
<1>4. /\ TaskSystem[t].comp[2 * s + 1] \in Nat
      /\ TaskSystem[t].comp[2 * s + 2] \in Nat
  BY <1>2, <1>3
<1> QED
  BY <1>4

(* A new job is a job of its task that arrives when it should, with its    *)
(* deadline no earlier.                                                    *)
LEMMA NewJobType ==
    ASSUME NEW t \in Tasks, NEW alpha \in Nat, NEW j \in NewJobs(t, alpha)
    PROVE  /\ j \in Jobs(Tasks)
           /\ j.taskid = t
           /\ j.starttime = alpha
           /\ j.starttime <= j.deadline
<1>1. TaskSystem[t].reldead \in Nat /\ TaskSystem[t].comp \in [1..6 -> Nat]
  BY JobGenAssumption DEF TaskAssumption
<1>2. PICK gamma \in Gamma(t) :
          j = job_init(t, alpha, Overruntime(t, gamma),
                       alpha + TaskSystem[t].reldead, gamma)
  BY DEF NewJobs
<1>3. gamma \in Nat
  BY <1>2, GammaNat
<1>4. TaskSystem[t].comp[2] \in Nat
  BY <1>1
<1>5. Overruntime(t, gamma) \in Nat
  BY <1>3, <1>4 DEF Overruntime
<1> QED
  BY <1>1, <1>2, <1>3, <1>5 DEF job_init, Jobs

(* jobgen_init establishes the generator's invariant. *)
LEMMA GeneratorInit ==
    ASSUME jobgen_init
    PROVE  /\ GeneratorInv
           /\ \A j \in jq.elems : j.starttime <= simtime_state[j.taskid]
<1>1. PICK new \in [Tasks -> UNION {NewJobs(t, 0) : t \in Tasks}],
           first \in Tasks :
          /\ \A t \in Tasks : new[t] \in NewJobs(t, 0)
          /\ jq = [elems |-> {new[t] : t \in Tasks}, head |-> new[first]]
  BY DEF jobgen_init
<1>2. PICK rho \in [Tasks -> Rho] :
          simtime_state = [t \in Tasks |-> TaskSystem[t].period + rho[t]]
  BY DEF jobgen_init
<1>3. simtime_state \in [Tasks -> Nat]
  <2> SUFFICES ASSUME NEW t \in Tasks
               PROVE  TaskSystem[t].period + rho[t] \in Nat
    BY <1>2
  <2>1. TaskSystem[t].period \in Nat
    BY JobGenAssumption DEF TaskAssumption
  <2>2. rho[t] \in Nat
    BY JobGenAssumption
  <2> QED
    BY <2>1, <2>2
<1>4. \A t \in Tasks : /\ new[t] \in Jobs(Tasks)
                       /\ new[t].taskid = t
                       /\ new[t].starttime = 0
                       /\ new[t].starttime <= new[t].deadline
  BY <1>1, NewJobType
<1>5. jq \in JobQs /\ jq.elems # {}
  BY <1>1, <1>4 DEF JobQs
<1>6. IsJobQ(jq, ByStarttime)
  <2>1. jq.elems # {} /\ jq.head \in jq.elems
    BY <1>1
  <2>2. \A j \in jq.elems : j.starttime = 0
    BY <1>1, <1>4
  <2>3. \A k \in jq.elems : jq.head.starttime <= k.starttime
    BY <2>1, <2>2
  <2> QED
    BY <2>1, <2>3 DEF IsJobQ, Firsts, ByStarttime, job_get_starttime
<1>7. \A j \in jq.elems : /\ j.starttime <= j.deadline
                          /\ j.starttime <= simtime_state[j.taskid]
  BY <1>1, <1>3, <1>4
<1>8. \A j \in jq.elems :
         \E k \in jq.elems : /\ k.taskid = j.taskid
                              /\ k.starttime <= simtime_state[k.taskid]
  BY <1>7
<1> QED
  BY <1>3, <1>5, <1>6, <1>7, <1>8 DEF GeneratorInv

(* jobgen_rise preserves the generator's invariant and raises the first of *)
(* its jobs: none left in the queue or put there arrives earlier.          *)
LEMMA GeneratorRise ==
    ASSUME GeneratorInv, jobgen_rise
    PROVE  /\ GeneratorInv'
           /\ jobq_peek(jq) \in jq.elems
           /\ jobq_peek(jq) \in Jobs(Tasks)
           /\ \A k \in jq.elems :
                 job_get_starttime(jobq_peek(jq)) <= job_get_starttime(k)
           /\ \A k \in jq'.elems :
                 job_get_starttime(jobq_peek(jq)) <= job_get_starttime(k)
<1> DEFINE raised == jobq_peek(jq)
           t      == raised.taskid
<1>1. /\ jq \in JobQs /\ jq.elems # {}
      /\ simtime_state \in [Tasks -> Nat]
      /\ IsJobQ(jq, ByStarttime)
      /\ \A j \in jq.elems :
            /\ j.starttime <= j.deadline
            /\ \E k \in jq.elems : /\ k.taskid = j.taskid
                                   /\ k.starttime <= simtime_state[k.taskid]
  BY DEF GeneratorInv
<1>2. /\ raised \in jq.elems
      /\ \A k \in jq.elems : job_get_starttime(raised) <= job_get_starttime(k)
  BY <1>1 DEF IsJobQ, Firsts, ByStarttime, job_get_starttime, jobq_peek
<1>3. jq.elems \subseteq Jobs(Tasks)
  BY <1>1 DEF JobQs
<1>4. raised \in Jobs(Tasks) /\ t \in Tasks
  BY <1>2, <1>3 DEF Jobs
<1>5. PICK q \in jobq_pop(jq, ByStarttime) : refill_generator(q, t)
  BY <1>1 DEF jobgen_rise
<1>6. /\ q \in JobQs
      /\ q.elems = jq.elems \ {raised}
      /\ IsJobQ(q, ByStarttime)
  BY <1>1, <1>5, PopRoot DEF Keys, jobq_peek
<1>7. PICK new \in NewJobs(t, simtime_state[t]) :
          jq' = jobq_insert_by(q, new, ByStarttime)
  BY <1>5 DEF refill_generator
<1>8. PICK rho \in Rho :
          simtime_state' = [simtime_state EXCEPT
                               ![t] = @ + TaskSystem[t].period + rho]
  BY <1>5 DEF refill_generator
<1>9. TaskSystem[t].period \in Nat /\ rho \in Nat /\ simtime_state[t] \in Nat
  BY <1>1, <1>4, JobGenAssumption DEF TaskAssumption
<1>10. /\ simtime_state' \in [Tasks -> Nat]
       /\ \A u \in Tasks : simtime_state[u] <= simtime_state'[u]
  BY <1>1, <1>4, <1>8, <1>9
<1>11. /\ new \in Jobs(Tasks)
       /\ new.taskid = t
       /\ new.starttime = simtime_state[t]
       /\ new.starttime <= new.deadline
  BY <1>4, <1>7, <1>9, NewJobType
<1>12. /\ jq' \in JobQs
       /\ jq'.elems = (jq.elems \ {raised}) \cup {new}
       /\ IsJobQ(jq', ByStarttime)
  BY <1>6, <1>7, <1>11, InsertJob DEF Keys
<1>13. \A j \in jq'.elems :
          /\ j.starttime <= j.deadline
          /\ \E k \in jq'.elems : /\ k.taskid = j.taskid
                                  /\ k.starttime <= simtime_state'[k.taskid]
  <2> SUFFICES ASSUME NEW j \in jq'.elems
               PROVE  \E k \in jq'.elems :
                         /\ k.taskid = j.taskid
                         /\ k.starttime <= simtime_state'[k.taskid]
    BY <1>1, <1>11, <1>12
  <2>1. CASE j.taskid = t
    BY <2>1, <1>4, <1>9, <1>10, <1>11, <1>12
  <2>2. CASE j.taskid # t
    <3>1. PICK k \in jq.elems : /\ k.taskid = j.taskid
                                /\ k.starttime <= simtime_state[k.taskid]
      BY <2>2, <1>1, <1>11, <1>12
    <3>2. k \in jq'.elems /\ k.taskid \in Tasks /\ k.starttime \in Nat
      BY <3>1, <2>2, <1>3, <1>12 DEF Jobs
    <3>3. k.starttime <= simtime_state'[k.taskid]
      BY <3>1, <3>2, <1>1, <1>10
    <3> QED
      BY <3>1, <3>2, <3>3
  <2> QED
    BY <2>1, <2>2
<1>14. GeneratorInv'
  <2>1. jq'.elems # {}
    BY <1>12
  <2>2. IsJobQ(jq, ByStarttime)'
    BY <1>12 DEF IsJobQ, Firsts, ByStarttime, job_get_starttime
  <2> QED
    BY <2>1, <2>2, <1>10, <1>12, <1>13 DEF GeneratorInv, JobQs
<1>15. \A k \in jq'.elems : job_get_starttime(raised) <= job_get_starttime(k)
  <2>1. PICK k \in jq.elems : /\ k.taskid = t
                              /\ k.starttime <= simtime_state[t]
    BY <1>1, <1>2
  <2>2. /\ raised.starttime <= k.starttime /\ k.starttime \in Nat
        /\ raised.starttime \in Nat
    BY <2>1, <1>2, <1>3 DEF Jobs, job_get_starttime
  <2>3. job_get_starttime(raised) <= job_get_starttime(new)
    BY <2>1, <2>2, <1>9, <1>11 DEF job_get_starttime
  <2> QED
    BY <2>3, <1>2, <1>12
<1> QED
  BY <1>2, <1>4, <1>14, <1>15

(***************************************************************************)
(* The event loop.                                                         *)
(***************************************************************************)

(* A job with less computation left than the rest of the window allows is  *)
(* finished within it.                                                     *)
LEMMA FinishWithin ==
    ASSUME NEW c \in Nat, NEW s \in Nat, NEW r \in Nat, r * s > c
    PROVE  TimeToFinish(c, s) \in 0..r
<1> DEFINE q == c \div s
           m == c % s
<1>1. s > 0
  BY SMT
<1>2. q \in Nat /\ m \in 0..(s - 1) /\ c = s * q + m
  BY <1>1
<1>3. q < r
  <2>1. SUFFICES ASSUME r <= q PROVE FALSE
    BY <1>2
  <2>2. r * s <= q * s
    BY <2>1, <1>1, <1>2
  <2>3. q * s <= c
    BY <1>2
  <2> QED
    BY <2>2, <2>3, <1>1, <1>2
<1>4. (IF m > 0 THEN 1 ELSE 0) \in {0, 1}
  OBVIOUS
<1> HIDE DEF q, m
<1> QED
  BY <1>2, <1>3, <1>4 DEF TimeToFinish, q, m

(* The initial states satisfy the invariant. *)
LEMMA InitLoopInv == Init => LoopInv
<1> SUFFICES ASSUME Init PROVE LoopInv
  OBVIOUS
<1> USE DEF Init
<1>1. GeneratorInv
  BY GeneratorInit
<1>2. Pending = {}
  BY DEF Pending
<1>3. pq.elems = {} /\ pq.head = NULL
  BY DEF jobq_init
<1>4. SchedulerOrdered
  BY <1>3 DEF SchedulerOrdered, IsJobQ
<1>5. pq \in JobQs
  BY DEF jobq_init, JobQs
<1>6. allow_first_overrun \in BOOLEAN
  BY EventLoopAssumption
<1>7. TypeOK
  BY <1>1, <1>2, <1>5, <1>6 DEF TypeOK, GeneratorInv, Results
<1> QED
  BY <1>1, <1>2, <1>3, <1>4, <1>7
     DEF LoopInv, NextToArrive, WindowBounded, WindowExact

(* The root of a queue that is not empty has the earliest deadline in it. *)
LEMMA RootIsEarliest ==
    ASSUME LoopInv, pq.elems # {}
    PROVE  /\ jobq_peek(pq) \in pq.elems
           /\ jobq_peek(pq) \in Jobs(Tasks)
           /\ pq.elems \subseteq Jobs(Tasks)
           /\ \A k \in pq.elems : jobq_peek(pq).deadline <= k.deadline
  BY DEF LoopInv, TypeOK, JobQs, SchedulerOrdered, IsJobQ, Firsts, ByDeadline,
         jobq_peek, job_get_deadline

LEMMA InitFirstStep ==
    ASSUME LoopInv, InitFirst
    PROVE  LoopInv'
<1> DEFINE j == jobq_peek(jq)
<1>0. UNCHANGED <<counters, evl_nextjob, overflow, allow_first_overrun, args,
                  nextjob, runtime, overrun, result>>
  BY DEF InitFirst
<1>1. TypeOK /\ GeneratorInv /\ now = 0 /\ pq.elems = {} /\ pq \in JobQs
  BY DEF LoopInv, TypeOK, InitFirst
<1>2. /\ GeneratorInv'
      /\ j \in jq.elems /\ j \in Jobs(Tasks)
      /\ \A k \in jq'.elems : job_get_starttime(j) <= job_get_starttime(k)
  BY <1>1, GeneratorRise DEF InitFirst
<1>3. /\ j.starttime \in Nat /\ j.deadline \in Nat
      /\ j.starttime <= j.deadline
  BY <1>1, <1>2 DEF Jobs, GeneratorInv
<1>4. /\ pq' \in JobQs /\ pq'.elems = {j}
      /\ pq'.head = j
  BY <1>1, <1>2 DEF InitFirst, jobq_insert_by, JobQs
<1>5. SchedulerOrdered'
  BY <1>3, <1>4 DEF SchedulerOrdered, IsJobQ, Firsts, ByDeadline,
                    job_get_deadline
<1>6. now' = j.starttime /\ Pending' = {} /\ pc' = "init2"
  BY DEF InitFirst, Pending, job_get_starttime
<1>7. TypeOK'
  BY <1>0, <1>1, <1>2, <1>3, <1>4, <1>6
     DEF TypeOK, GeneratorInv, counters, args, overflow
<1>8. NextToArrive'
  BY <1>6 DEF NextToArrive
<1>9. WindowBounded' /\ WindowExact'
  BY <1>6 DEF WindowBounded, WindowExact
<1>10. \A k \in jq'.elems : now' <= k.starttime
  BY <1>2, <1>6 DEF job_get_starttime
<1> QED
  BY <1>2, <1>3, <1>4, <1>5, <1>6, <1>7, <1>8, <1>9, <1>10 DEF LoopInv

LEMMA InitSecondStep ==
    ASSUME LoopInv, InitSecond
    PROVE  LoopInv'
<1> DEFINE j == jobq_peek(jq)
<1>0. UNCHANGED <<pq, now, counters, overflow, allow_first_overrun, args,
                  nextjob, runtime, overrun, result>>
  BY DEF InitSecond
<1>1. /\ TypeOK /\ GeneratorInv /\ SchedulerOrdered /\ NextToArrive
      /\ \A k \in jq.elems : now <= k.starttime
  BY DEF LoopInv, InitSecond
<1>2. /\ GeneratorInv'
      /\ j \in jq.elems /\ j \in Jobs(Tasks)
      /\ \A k \in jq'.elems : job_get_starttime(j) <= job_get_starttime(k)
  BY <1>1, GeneratorRise DEF InitSecond
<1>3. now' = now /\ pq' = pq /\ pc' = "idle" /\ Pending' = {j}
  BY <1>0 DEF InitSecond, Pending
<1>4. j.starttime <= j.deadline /\ now <= j.starttime
  BY <1>1, <1>2 DEF GeneratorInv
<1>5. SchedulerOrdered'
  BY <1>1, <1>3 DEF SchedulerOrdered, IsJobQ, Firsts, ByDeadline,
                    job_get_deadline
<1>3a. evl_nextjob' = j
  BY DEF InitSecond
<1>6. TypeOK'
  BY <1>0, <1>1, <1>2, <1>3, <1>3a DEF TypeOK, GeneratorInv, counters, args,
                                       overflow
<1>7. NextToArrive'
  BY <1>2, <1>3, <1>4 DEF NextToArrive, job_get_starttime
<1>8. WindowBounded' /\ WindowExact'
  BY <1>3 DEF WindowBounded, WindowExact
<1> QED
  BY <1>2, <1>3, <1>4, <1>5, <1>6, <1>7, <1>8 DEF LoopInv

(* Calling eventloop_run: nothing but its arguments and locals changes.    *)
LEMMA CallStep ==
    ASSUME LoopInv, Call
    PROVE  LoopInv'
<1>0. UNCHANGED <<jobgenvars, pq, now, counters, evl_nextjob, overflow,
                  allow_first_overrun, runtime, overrun>>
  BY DEF Call, RunPass, RunStart
<1>1. /\ TypeOK /\ GeneratorInv /\ SchedulerOrdered
      /\ NextToArrive /\ pc = "idle"
      /\ \A j \in pq.elems \cup Pending : j.starttime <= j.deadline
  BY DEF LoopInv, Call
<1>2. /\ breaktime' \in Nat /\ speed' \in Nat /\ overrunbreak' \in BOOLEAN
      /\ result' \in Results
      /\ \/ pc' = "idle" /\ nextjob' = nextjob
         \/ pc' = "top" /\ nextjob' = evl_nextjob /\ breaktime' > now
  BY EventLoopAssumption DEF Call, RunPass, RunStart, Results
<1>3. Pending' = Pending
  BY <1>0, <1>1, <1>2 DEF Pending
<1>4. TypeOK'
  BY <1>0, <1>1, <1>2, <1>3 DEF TypeOK, jobgenvars, counters, overflow, Pending
<1>5. GeneratorInv' /\ SchedulerOrdered'
  BY <1>0, <1>1 DEF jobgenvars, GeneratorInv, SchedulerOrdered,
                    IsJobQ, Firsts, ByStarttime, job_get_starttime,
                    job_get_deadline
<1>6. NextToArrive'
  BY <1>0, <1>1, <1>3 DEF jobgenvars, NextToArrive, job_get_starttime
<1>7. WindowBounded' /\ WindowExact'
  BY <1>2 DEF WindowBounded, WindowExact
<1> QED
  BY <1>0, <1>1, <1>2, <1>3, <1>4, <1>5, <1>6, <1>7 DEF LoopInv

(* Computing the length of a window: it reaches neither past the next      *)
(* arrival nor past the breaktime, and stops short of both only at an      *)
(* expected overrun.                                                       *)
LEMMA CalcRuntimeStep ==
    ASSUME LoopInv, CalcRuntime
    PROVE  LoopInv'
<1> DEFINE j == jobq_peek(pq)
<1>0. UNCHANGED <<jobgenvars, pq, now, counters, evl_nextjob,
                  allow_first_overrun, args, nextjob, result>>
  BY DEF CalcRuntime
<1>1. /\ TypeOK /\ GeneratorInv /\ SchedulerOrdered
      /\ NextToArrive /\ pc = "top"
      /\ \A k \in pq.elems \cup Pending : k.starttime <= k.deadline
      /\ now < breaktime
  BY DEF LoopInv, CalcRuntime
<1>2. Pending = {nextjob} /\ Pending' = {nextjob} /\ pc' = "work"
  BY <1>0, <1>1 DEF Pending, CalcRuntime
<1>3. /\ nextjob \in Jobs(Tasks) /\ nextjob.starttime \in Nat
      /\ now <= nextjob.starttime /\ now \in Nat /\ breaktime \in Nat
  BY <1>1, <1>2 DEF TypeOK, NextToArrive, Jobs, job_get_starttime
<1>4. /\ WindowLength \in Nat
      /\ now + WindowLength <= nextjob.starttime
      /\ now + WindowLength <= breaktime
      /\ \/ now + WindowLength = nextjob.starttime
         \/ now + WindowLength = breaktime
  BY <1>1, <1>3 DEF WindowLength, job_get_starttime
<1>5. pq.elems # {} => /\ j.overruntime \in Nat
                       /\ overrun' = now + j.overruntime
                       /\ JobId(j) \in Tasks \X Nat
  <2> SUFFICES ASSUME pq.elems # {}
               PROVE  /\ j.overruntime \in Nat
                      /\ overrun' = now + j.overruntime
                      /\ JobId(j) \in Tasks \X Nat
    OBVIOUS
  <2>1. j \in Jobs(Tasks)
    BY RootIsEarliest
  <2> QED
    BY <2>1 DEF CalcRuntime, Jobs, JobId
<1>6. overrun' \in Nat
  BY <1>3, <1>5 DEF CalcRuntime
<1>7. /\ overflowing' \in (Tasks \X Nat) \cup {NULL}
      /\ had_overrun' \in BOOLEAN
  <2>1. overflowing \in (Tasks \X Nat) \cup {NULL} /\ had_overrun \in BOOLEAN
    BY <1>1 DEF TypeOK
  <2>2. overflowing' = overflowing \/ (pq.elems # {} /\ overflowing' = JobId(j))
    BY DEF CalcRuntime, OverrunExpected
  <2>3. had_overrun' = (had_overrun \/ OverrunExpected)
    BY DEF CalcRuntime
  <2> QED
    BY <2>1, <2>2, <2>3, <1>5
<1>8. \/ runtime' = WindowLength
      \/ /\ pq.elems # {} /\ overrunbreak /\ had_overrun'
         /\ runtime' = j.overruntime
         /\ j.overruntime <= WindowLength
  BY DEF CalcRuntime, OverrunExpected
<1>9. runtime' \in Nat /\ runtime' <= WindowLength
  BY <1>4, <1>5, <1>8
<1>10. WindowBounded'
  <2>1. now' = now /\ nextjob' = nextjob /\ breaktime' = breaktime
    BY <1>0 DEF args
  <2>2. \A r \in Nat : r <= WindowLength =>
            now + r <= nextjob.starttime /\ now + r <= breaktime
    BY <1>3, <1>4
  <2>3. now + runtime' <= nextjob.starttime /\ now + runtime' <= breaktime
    BY <2>2, <1>9
  <2> QED
    BY <2>1, <2>3 DEF WindowBounded, job_get_starttime
<1>11. WindowExact'
  BY <1>0, <1>3, <1>4, <1>5, <1>8 DEF WindowExact, args, job_get_starttime
<1>12. TypeOK'
  BY <1>0, <1>1, <1>2, <1>6, <1>7, <1>9
     DEF TypeOK, jobgenvars, counters, args
<1>13. GeneratorInv' /\ SchedulerOrdered'
  BY <1>0, <1>1 DEF jobgenvars, GeneratorInv, SchedulerOrdered,
                    IsJobQ, Firsts, ByStarttime, job_get_starttime,
                    job_get_deadline
<1>14. NextToArrive'
  BY <1>0, <1>1, <1>2 DEF jobgenvars, NextToArrive, job_get_starttime
<1> QED
  BY <1>0, <1>1, <1>2, <1>10, <1>11, <1>12, <1>13, <1>14 DEF LoopInv

(* What the two ways to work on the root of the queue share: time moves    *)
(* into the window by what the window shrinks, unless a missed deadline    *)
(* stops it, and the jobs left keep their arrivals and deadlines.          *)
LEMMA ProgressStep ==
    ASSUME LoopInv, pc = "work", pq.elems # {},
           NEW t \in Nat, NEW rest \in Nat,
           now <= t, t + rest = now + runtime,
           ProgressTo(t, rest, jobq_peek(pq)),
           jobs_done' \in Nat, pq' \in JobQs, SchedulerOrdered',
           \A k \in pq'.elems : \E i \in pq.elems :
               k.starttime = i.starttime /\ k.deadline = i.deadline
    PROVE  LoopInv'
<1> DEFINE j == jobq_peek(pq)
<1>0. /\ UNCHANGED <<jobgenvars, overflow, allow_first_overrun, args>>
      /\ events_done' = events_done + 1
  BY DEF ProgressTo
<1>1. /\ TypeOK /\ GeneratorInv /\ NextToArrive
      /\ WindowBounded /\ WindowExact
      /\ \A k \in pq.elems \cup Pending : k.starttime <= k.deadline
  BY DEF LoopInv
<1>2. /\ j \in pq.elems /\ j \in Jobs(Tasks) /\ j.deadline \in Nat
      /\ pq.elems \subseteq Jobs(Tasks)
      /\ \A k \in pq.elems : j.deadline <= k.deadline
  BY RootIsEarliest DEF Jobs
<1>3. now \in Nat /\ runtime \in Nat
  BY <1>1 DEF TypeOK
<1>4. Pending = {nextjob} /\ nextjob \in Jobs(Tasks) /\ nextjob.starttime \in Nat
  BY <1>1 DEF Pending, TypeOK, Jobs
<1>5. now + runtime <= nextjob.starttime /\ now + runtime <= breaktime
  BY <1>1 DEF WindowBounded, job_get_starttime
<1>6. /\ Pending' = Pending
      /\ now' \in Nat /\ now' <= nextjob.starttime
      /\ pc' \in {"work", "idle"}
      /\ pc' = "work" => /\ now' = t /\ runtime' = rest
                         /\ nextjob' = nextjob /\ overrun' = overrun
      /\ runtime' \in Nat /\ overrun' \in Nat /\ result' \in Results
      /\ nextjob' \in Jobs(Tasks) \cup {NULL}
      /\ evl_nextjob' \in Jobs(Tasks) \cup {NULL}
  <2>1. CASE t > j.deadline
    <3>1. /\ now' = j.deadline /\ pc' = "idle" /\ nextjob' = NULL
          /\ evl_nextjob' = nextjob /\ runtime' = 0 /\ overrun' = 0
          /\ result' = "EVL_DEADLINEMISS"
      BY <2>1 DEF ProgressTo, Return, job_get_deadline
    <3> QED
      BY <3>1, <2>1, <1>2, <1>3, <1>4, <1>5 DEF Pending, Results
  <2>2. CASE ~(t > j.deadline)
    <3>1. /\ now' = t /\ runtime' = rest
          /\ UNCHANGED <<evl_nextjob, nextjob, overrun, pc, result>>
      BY <2>2 DEF ProgressTo, job_get_deadline
    <3> QED
      BY <3>1, <2>2, <1>1, <1>2, <1>3, <1>4, <1>5 DEF Pending, TypeOK
  <2> QED
    BY <2>1, <2>2
<1>7. TypeOK'
  BY <1>0, <1>1, <1>6
     DEF TypeOK, jobgenvars, overflow, args
<1>8. GeneratorInv'
  BY <1>0, <1>1 DEF jobgenvars, GeneratorInv, IsJobQ, Firsts, ByStarttime,
                    job_get_starttime
<1>9. \A k \in pq'.elems : k.starttime <= k.deadline
  BY <1>1
<1>10. NextToArrive'
  BY <1>0, <1>1, <1>4, <1>6 DEF jobgenvars, NextToArrive, job_get_starttime
<1>11. WindowBounded' /\ WindowExact'
  <2> SUFFICES ASSUME pc' = "work"
               PROVE  WindowBounded' /\ WindowExact'
    BY DEF WindowBounded, WindowExact
  <2>1. now' + runtime' = now + runtime
    BY <1>6
  <2> QED
    BY <2>1, <1>0, <1>1, <1>6
       DEF WindowBounded, WindowExact, args, overflow
<1> QED
  BY <1>1, <1>6, <1>7, <1>8, <1>9, <1>10, <1>11 DEF LoopInv

LEMMA SpendBudgetStep ==
    ASSUME LoopInv, SpendBudget
    PROVE  LoopInv'
<1> DEFINE j == jobq_peek(pq)
           k == [j EXCEPT !.computation = @ - runtime * speed,
                          !.overruntime = max(0, @ - runtime * speed)]
<1>1. /\ pc = "work" /\ pq.elems # {} /\ jobs_done' = jobs_done
      /\ runtime * speed <= j.computation
      /\ pq' = WriteRoot(pq, k)
      /\ ProgressTo(now + runtime, 0, j)
  BY DEF SpendBudget
<1>2. /\ now \in Nat /\ runtime \in Nat /\ speed \in Nat /\ jobs_done \in Nat
      /\ pq \in JobQs
  BY DEF LoopInv, TypeOK
<1>3. /\ j \in pq.elems /\ j \in Jobs(Tasks)
      /\ pq.elems \subseteq Jobs(Tasks)
      /\ \A i \in pq.elems : j.deadline <= i.deadline
  BY <1>1, RootIsEarliest
<1>4. runtime * speed \in Nat
  BY <1>2
<1>5. /\ k \in Jobs(Tasks)
      /\ k.starttime = j.starttime /\ k.deadline = j.deadline
  <2> DEFINE w == runtime * speed
  <2> HIDE DEF w
  <2>1. w \in Nat /\ w <= j.computation
    BY <1>1, <1>4 DEF w
  <2>2. /\ j.computation - w \in Nat
        /\ max(0, j.overruntime - w) \in Nat
    BY <2>1, <1>3 DEF Jobs, max
  <2>3. k = [j EXCEPT !.computation = j.computation - w,
                      !.overruntime = max(0, j.overruntime - w)]
    BY <1>3 DEF w, Jobs
  <2> HIDE DEF k
  <2> QED
    BY <2>2, <2>3, <1>3 DEF Jobs
<1> HIDE DEF k
<1>6. pq'.elems = (pq.elems \ {j}) \cup {k} /\ pq'.head = k
  BY <1>1 DEF WriteRoot, jobq_peek
<1>7. pq' \in JobQs
  BY <1>1, <1>3, <1>5, <1>6 DEF WriteRoot, JobQs, jobq_peek
<1>8. SchedulerOrdered'
  BY <1>3, <1>5, <1>6 DEF SchedulerOrdered, IsJobQ, Firsts, ByDeadline,
                          job_get_deadline,
                          Jobs
<1>9. \A i \in pq'.elems : \E h \in pq.elems :
          i.starttime = h.starttime /\ i.deadline = h.deadline
  BY <1>3, <1>5, <1>6
<1>10. now + runtime \in Nat /\ now <= now + runtime
  BY <1>2
<1>11. (now + runtime) + 0 = now + runtime
  BY <1>2
<1> QED
  BY <1>1, <1>2, <1>7, <1>8, <1>9, <1>10, <1>11, ProgressStep

LEMMA FinishJobStep ==
    ASSUME LoopInv, FinishJob
    PROVE  LoopInv'
<1> DEFINE j  == jobq_peek(pq)
           dt == TimeToFinish(j.computation, speed)
<1>1. /\ pc = "work" /\ pq.elems # {} /\ jobs_done' = jobs_done + 1
      /\ runtime * speed > j.computation
      /\ ProgressTo(now + dt, runtime - dt, j)
  BY DEF FinishJob
<1>2. /\ now \in Nat /\ runtime \in Nat /\ speed \in Nat /\ jobs_done \in Nat
      /\ pq \in JobQs
  BY DEF LoopInv, TypeOK
<1>3. j \in Jobs(Tasks) /\ j.computation \in Nat
  BY <1>1, RootIsEarliest DEF Jobs
<1>4. dt \in 0..runtime
  BY <1>1, <1>2, <1>3, FinishWithin
<1> HIDE DEF dt
<1>5. /\ now + dt \in Nat /\ now <= now + dt /\ runtime - dt \in Nat
      /\ (now + dt) + (runtime - dt) = now + runtime
  BY <1>2, <1>4
<1>6. /\ pq' \in JobQs
      /\ pq'.elems = pq.elems \ {j}
      /\ IsJobQ(pq', ByDeadline)
  BY <1>2, PopRoot DEF Keys, FinishJob, jobq_peek
<1>7. SchedulerOrdered'
  BY <1>6 DEF SchedulerOrdered, IsJobQ, Firsts, ByDeadline, job_get_deadline
<1>8. \A i \in pq'.elems : \E h \in pq.elems :
          i.starttime = h.starttime /\ i.deadline = h.deadline
  BY <1>6
<1>9. jobs_done' \in Nat
  BY <1>1, <1>2
<1>10. pq' \in JobQs
  BY <1>6
<1> QED
  BY <1>1, <1>5, <1>7, <1>8, <1>9, <1>10, ProgressStep

(* The two returns without an arrival. *)
LEMMA StopStep ==
    ASSUME LoopInv, StopAtBreaktime \/ StopAtOverrun
    PROVE  LoopInv'
<1>0. /\ UNCHANGED <<jobgenvars, pq, counters, overflow,
                     allow_first_overrun, args>>
      /\ pc = "work" /\ pc' = "idle" /\ evl_nextjob' = nextjob
      /\ nextjob' = NULL /\ runtime' = 0 /\ overrun' = 0 /\ result' \in Results
      /\ runtime = 0 \/ pq.elems = {}
      /\ now' = now \/ (now' = breaktime /\ AtBreaktime)
  BY DEF StopAtBreaktime, StopAtOverrun, Return, Results, WindowDone
<1>1. /\ TypeOK /\ GeneratorInv /\ SchedulerOrdered
      /\ NextToArrive /\ WindowBounded
      /\ \A k \in pq.elems \cup Pending : k.starttime <= k.deadline
  BY DEF LoopInv
<1>2. Pending = {nextjob} /\ Pending' = {nextjob} /\ nextjob \in Jobs(Tasks)
  BY <1>0, <1>1 DEF Pending, TypeOK
<1>3. /\ now \in Nat /\ runtime \in Nat /\ breaktime \in Nat
      /\ nextjob.starttime \in Nat
      /\ now + runtime <= nextjob.starttime /\ now + runtime <= breaktime
  BY <1>0, <1>1, <1>2 DEF TypeOK, WindowBounded, Jobs, job_get_starttime
<1>4. now' \in Nat /\ now' <= nextjob.starttime
  BY <1>0, <1>3 DEF AtBreaktime
<1>5. TypeOK'
  BY <1>0, <1>1, <1>2, <1>4 DEF TypeOK, jobgenvars, counters, overflow, args
<1>6. GeneratorInv' /\ SchedulerOrdered'
  BY <1>0, <1>1 DEF jobgenvars, GeneratorInv, SchedulerOrdered,
                    IsJobQ, Firsts, ByStarttime, job_get_starttime,
                    job_get_deadline
<1>7. NextToArrive'
  BY <1>0, <1>1, <1>2, <1>4 DEF jobgenvars, NextToArrive, job_get_starttime
<1>8. WindowBounded' /\ WindowExact'
  BY <1>0 DEF WindowBounded, WindowExact
<1> QED
  BY <1>0, <1>1, <1>2, <1>5, <1>6, <1>7, <1>8 DEF LoopInv

LEMMA ArrivalStep ==
    ASSUME LoopInv, Arrival
    PROVE  LoopInv'
<1> DEFINE j == jobq_peek(jq)
<1>0. /\ pc = "work" /\ (runtime = 0 \/ pq.elems = {})
      /\ ~AtBreaktime /\ ~AtOverrun
      /\ now' = nextjob.starttime
      /\ events_done' = events_done + 1
      /\ \/ /\ now' < breaktime /\ pc' = "top" /\ nextjob' = j
            /\ runtime' = 0 /\ overrun' = 0
            /\ UNCHANGED <<evl_nextjob, result>>
         \/ /\ pc' = "idle" /\ evl_nextjob' = j /\ nextjob' = NULL
            /\ runtime' = 0 /\ overrun' = 0 /\ result' = "EVL_OK"
      /\ UNCHANGED <<jobs_done, overflow, allow_first_overrun, args>>
  BY DEF Arrival, WindowDone, Return, job_get_starttime
<1>1. /\ TypeOK /\ GeneratorInv /\ NextToArrive
      /\ \A k \in pq.elems \cup Pending : k.starttime <= k.deadline
  BY DEF LoopInv
<1>2. Pending = {nextjob} /\ nextjob \in Jobs(Tasks)
  BY <1>0, <1>1 DEF Pending, TypeOK
<1>3. /\ now \in Nat /\ events_done \in Nat /\ breaktime \in Nat
      /\ nextjob.starttime \in Nat /\ nextjob.deadline \in Nat
      /\ nextjob.starttime <= nextjob.deadline
      /\ now <= nextjob.starttime
  BY <1>1, <1>2 DEF TypeOK, Jobs, NextToArrive, job_get_starttime
<1>4. /\ GeneratorInv'
      /\ j \in jq.elems /\ j \in Jobs(Tasks)
      /\ \A k \in jq'.elems : job_get_starttime(j) <= job_get_starttime(k)
  BY <1>1, GeneratorRise DEF Arrival
<1>5. j.starttime <= j.deadline /\ nextjob.starttime <= j.starttime
  BY <1>1, <1>2, <1>4 DEF GeneratorInv, NextToArrive, job_get_starttime
<1>6. /\ pq' \in JobQs
      /\ pq'.elems = pq.elems \cup {nextjob}
      /\ SchedulerOrdered'
  <2>1. pq \in JobQs /\ IsJobQ(pq, ByDeadline)
    BY DEF LoopInv, TypeOK, SchedulerOrdered
  <2>2. pq' = jobq_insert_by(pq, nextjob, ByDeadline)
    BY DEF Arrival
  <2>3. /\ pq' \in JobQs
        /\ pq'.elems = pq.elems \cup {nextjob}
        /\ IsJobQ(pq', ByDeadline)
    BY <2>1, <2>2, <1>2, InsertJob DEF Keys
  <2> QED
    BY <2>3 DEF SchedulerOrdered, IsJobQ, Firsts, ByDeadline, job_get_deadline
<1>8. Pending' = {j}
  BY <1>0 DEF Pending
<1>9. events_done' \in Nat
  BY <1>0, <1>3
<1>10. TypeOK'
  <2>1. /\ jq' \in JobQs /\ jq'.elems # {}
        /\ simtime_state' \in [Tasks -> Nat]
    BY <1>4 DEF GeneratorInv
  <2> QED
    BY <2>1, <1>0, <1>1, <1>3, <1>4, <1>6, <1>8, <1>9
       DEF TypeOK, overflow, args, Results
<1>12. NextToArrive'
  BY <1>0, <1>4, <1>5, <1>8 DEF NextToArrive, job_get_starttime
<1>13. WindowBounded' /\ WindowExact'
  BY <1>0 DEF WindowBounded, WindowExact
<1>14. pc' = "top" => now' < breaktime'
  BY <1>0 DEF args
<1>15. \A k \in pq'.elems \cup Pending' : k.starttime <= k.deadline
  BY <1>1, <1>3, <1>5, <1>6, <1>8
<1> QED
  BY <1>0, <1>4, <1>6, <1>8, <1>10, <1>12, <1>13, <1>14, <1>15
     DEF LoopInv

(* Every step preserves the invariant. *)
LEMMA NextLoopInv == LoopInv /\ [Next]_vars => LoopInv'
<1> SUFFICES ASSUME LoopInv, [Next]_vars
             PROVE  LoopInv'
  OBVIOUS
<1>1. CASE InitFirst
  BY <1>1, InitFirstStep
<1>2. CASE InitSecond
  BY <1>2, InitSecondStep
<1>3. CASE Call
  BY <1>3, CallStep
<1>4. CASE CalcRuntime
  BY <1>4, CalcRuntimeStep
<1>5. CASE SpendBudget
  BY <1>5, SpendBudgetStep
<1>6. CASE FinishJob
  BY <1>6, FinishJobStep
<1>7. CASE StopAtBreaktime \/ StopAtOverrun
  BY <1>7, StopStep
<1>8. CASE Arrival
  BY <1>8, ArrivalStep
<1>9. CASE UNCHANGED vars
  BY <1>9 DEF vars, jobgenvars, counters, args, overflow, LoopInv, TypeOK,
              GeneratorInv, SchedulerOrdered, IsJobQ, Firsts,
              NextToArrive, Pending, WindowBounded, WindowExact,
              job_get_deadline, job_get_starttime
<1> QED
  BY <1>1, <1>2, <1>3, <1>4, <1>5, <1>6, <1>7, <1>8, <1>9 DEF Next, Run

(* Whoever has been worked on is on time, or time stands at its deadline,  *)
(* and the others have later ones: working leaves nothing late behind.     *)
LEMMA ProgressOnTime ==
    ASSUME LoopInv, pq.elems # {}, NEW t \in Nat, NEW rest,
           ProgressTo(t, rest, jobq_peek(pq)),
           \A k \in pq'.elems : \E i \in pq.elems : k.deadline = i.deadline
    PROVE  NoUndetectedMiss'
<1> DEFINE j == jobq_peek(pq)
<1>1. /\ j.deadline \in Nat /\ pq.elems \subseteq Jobs(Tasks)
      /\ \A k \in pq.elems : j.deadline <= k.deadline
  BY RootIsEarliest DEF Jobs
<1>2. now' \in Nat /\ now' <= j.deadline
  BY <1>1 DEF ProgressTo, job_get_deadline
<1> QED
  BY <1>1, <1>2 DEF NoUndetectedMiss, job_get_deadline, Jobs

LEMMA WorkOnTime ==
    ASSUME LoopInv, SpendBudget \/ FinishJob
    PROVE  NoUndetectedMiss'
<1> DEFINE j == jobq_peek(pq)
           dt == TimeToFinish(j.computation, speed)
<1>0. /\ now \in Nat /\ runtime \in Nat /\ speed \in Nat /\ pq \in JobQs
      /\ pq.elems # {} /\ j \in pq.elems /\ j \in Jobs(Tasks)
  BY RootIsEarliest DEF LoopInv, TypeOK, SpendBudget, FinishJob
<1>1. CASE SpendBudget
  <2> DEFINE k == [j EXCEPT !.computation = @ - runtime * speed,
                            !.overruntime = max(0, @ - runtime * speed)]
  <2>1. k.deadline = j.deadline
    BY <1>0 DEF Jobs
  <2>2. pq'.elems = (pq.elems \ {j}) \cup {k}
    BY <1>1 DEF SpendBudget, WriteRoot, jobq_peek
  <2> HIDE DEF k
  <2>3. \A i \in pq'.elems : \E h \in pq.elems : i.deadline = h.deadline
    BY <1>0, <2>1, <2>2
  <2>4. ProgressTo(now + runtime, 0, j) /\ now + runtime \in Nat
    BY <1>0, <1>1 DEF SpendBudget
  <2> QED
    BY <1>0, <2>3, <2>4, ProgressOnTime
<1>2. CASE FinishJob
  <2>1. /\ runtime * speed > j.computation /\ j.computation \in Nat
        /\ ProgressTo(now + dt, runtime - dt, j)
    BY <1>0, <1>2 DEF FinishJob, Jobs
  <2>2. dt \in 0..runtime
    BY <1>0, <2>1, FinishWithin
  <2> HIDE DEF dt
  <2>3. now + dt \in Nat
    BY <1>0, <2>2
  <2>4. pq'.elems = pq.elems \ {j}
    BY <1>0, <1>2, PopRoot DEF FinishJob, Keys, jobq_peek
  <2>5. \A i \in pq'.elems : \E h \in pq.elems : i.deadline = h.deadline
    BY <2>4
  <2> QED
    BY <1>0, <2>1, <2>3, <2>5, ProgressOnTime
<1> QED
  BY <1>1, <1>2

(* So a step that leaves a job late found it late, and let no time pass:   *)
(* with work left in the queue a window was used up exactly, so an arrival *)
(* does not jump over it; on an idle processor it may.                     *)
LEMMA NextLate ==
    ASSUME LoopInv, [Next]_vars, ~NoUndetectedMiss'
    PROVE  /\ ~NoUndetectedMiss
           /\ now' = now /\ pq.elems # {}
           /\ ~InitFirst /\ ~SpendBudget /\ ~FinishJob
<1>1. ~InitFirst
  <2> SUFFICES ASSUME InitFirst PROVE FALSE
    OBVIOUS
  <2> DEFINE j == jobq_peek(jq)
  <2>1. GeneratorInv /\ pq.elems = {}
    BY DEF LoopInv, InitFirst
  <2>2. j \in Jobs(Tasks) /\ j.starttime <= j.deadline
    BY <2>1, GeneratorRise DEF InitFirst, GeneratorInv
  <2>3. pq'.elems = {j} /\ now' = j.starttime
    BY <2>1 DEF InitFirst, jobq_insert_by, job_get_starttime
  <2> HIDE DEF j
  <2> QED
    BY <2>2, <2>3 DEF NoUndetectedMiss, job_get_deadline
<1>2. ~SpendBudget /\ ~FinishJob
  BY WorkOnTime
<1>3. CASE now' = now /\ pq' = pq
  BY <1>1, <1>2, <1>3 DEF NoUndetectedMiss, job_get_deadline
<1>4. PICK l \in pq'.elems : ~(now' <= l.deadline)
  BY DEF NoUndetectedMiss, job_get_deadline
<1>5. /\ now \in Nat /\ runtime \in Nat /\ breaktime \in Nat
      /\ WindowExact
      /\ \A k \in pq.elems \cup Pending : k.starttime <= k.deadline
  BY DEF LoopInv, TypeOK
<1>6. CASE StopAtBreaktime
  <2>1. pq' = pq /\ now' = breaktime /\ AtBreaktime /\ WindowDone
    BY <1>6 DEF StopAtBreaktime
  <2>2. runtime = 0
    BY <1>4, <2>1 DEF WindowDone
  <2>3. now' = now
    BY <1>5, <2>1, <2>2 DEF AtBreaktime
  <2> QED
    BY <1>3, <2>1, <2>3
<1>7. CASE Arrival
  <2>1. /\ WindowDone /\ pc = "work" /\ ~AtBreaktime /\ ~AtOverrun
        /\ now' = nextjob.starttime
        /\ pq'.elems = pq.elems \cup {nextjob}
    BY <1>7 DEF Arrival, WindowDone, jobq_insert_by, job_get_starttime
  <2>2. nextjob.starttime <= nextjob.deadline
    BY <1>5, <2>1 DEF Pending
  <2>3. l \in pq.elems
    BY <1>4, <2>1, <2>2
  <2>4. now' = now
    <3>1. runtime = 0 /\ now + runtime = now
      BY <1>5, <2>1, <2>3 DEF WindowDone
    <3> QED
      BY <1>5, <2>1, <2>3, <3>1
         DEF WindowExact, AtBreaktime, AtOverrun, job_get_starttime
  <2> QED
    BY <1>1, <1>2, <1>4, <2>3, <2>4 DEF NoUndetectedMiss, job_get_deadline
<1> QED
  BY <1>1, <1>2, <1>3, <1>6, <1>7
     DEF Next, Run, vars, InitSecond, Call, RunPass, RunStart, CalcRuntime,
         StopAtOverrun

LEMMA NextOnTime == LoopInv /\ NoUndetectedMiss /\ [Next]_vars => NoUndetectedMiss'
  BY NextLate

(* No step sets time back while no job is late.                            *)
LEMMA NextMonotone == LoopInv /\ NoUndetectedMiss /\ [Next]_vars => now <= now'
<1> SUFFICES ASSUME LoopInv, NoUndetectedMiss, [Next]_vars
             PROVE  now <= now'
  OBVIOUS
<1> DEFINE j  == jobq_peek(pq)
           dt == TimeToFinish(j.computation, speed)
<1>0. /\ TypeOK /\ NoUndetectedMiss /\ NextToArrive
      /\ now \in Nat /\ runtime \in Nat /\ speed \in Nat /\ breaktime \in Nat
  BY DEF LoopInv, TypeOK
<1>1. CASE now' = now
  BY <1>1, <1>0
<1>2. CASE InitFirst
  <2>1. now = 0 /\ jobq_peek(jq) \in Jobs(Tasks)
    BY <1>2, GeneratorRise DEF LoopInv, InitFirst
  <2> QED
    BY <2>1, <1>2 DEF InitFirst, Jobs, job_get_starttime
<1>3. ASSUME pq.elems # {}, NEW t \in Nat, NEW rest \in Nat, now <= t,
             ProgressTo(t, rest, j)
      PROVE  now <= now'
  <2>1. now <= j.deadline
    BY <1>3, <1>0, RootIsEarliest DEF NoUndetectedMiss, job_get_deadline
  <2>2. now' = j.deadline \/ now' = t
    BY <1>3 DEF ProgressTo, job_get_deadline
  <2> QED
    BY <2>1, <2>2, <1>3
<1>4. CASE SpendBudget
  <2>1. now + runtime \in Nat /\ now <= now + runtime /\ 0 \in Nat
    BY <1>0
  <2>2. pq.elems # {} /\ ProgressTo(now + runtime, 0, j)
    BY <1>4 DEF SpendBudget
  <2> QED
    BY <2>1, <2>2, <1>3
<1>5. CASE FinishJob
  <2>1. /\ pq.elems # {} /\ runtime * speed > j.computation
        /\ ProgressTo(now + dt, runtime - dt, j)
    BY <1>5 DEF FinishJob
  <2>2. j.computation \in Nat
    BY <2>1, RootIsEarliest DEF Jobs
  <2>3. dt \in 0..runtime
    BY <2>1, <2>2, <1>0, FinishWithin
  <2> HIDE DEF dt
  <2>4. now + dt \in Nat /\ now <= now + dt /\ runtime - dt \in Nat
    BY <2>3, <1>0
  <2> QED
    BY <2>1, <2>4, <1>3
<1>6. CASE StopAtBreaktime \/ Arrival
  <2>1. pc = "work"
    BY <1>6 DEF StopAtBreaktime, Arrival, WindowDone
  <2>2. nextjob \in Jobs(Tasks) /\ now <= nextjob.starttime
    BY <2>1, <1>0 DEF Pending, TypeOK, NextToArrive, job_get_starttime
  <2>3. now + runtime <= breaktime
    BY <2>1 DEF LoopInv, WindowBounded
  <2> QED
    BY <2>2, <2>3, <1>0, <1>6
       DEF StopAtBreaktime, Arrival, Return, job_get_starttime
<1> QED
  BY <1>1, <1>2, <1>4, <1>5, <1>6
     DEF Next, Run, vars, InitSecond, Call, RunPass, RunStart, CalcRuntime,
         StopAtOverrun

(* A job enters the scheduler queue when it arrives: time is moved to the  *)
(* arrival, not past it, and never back behind it.                         *)
LEMMA NextArrived ==
    ASSUME LoopInv, NoUndetectedMiss, [Next]_vars,
           \A j \in pq.elems : j.starttime <= now
    PROVE  \A j \in pq'.elems : j.starttime <= now'
<1>0. /\ pq \in JobQs /\ pq.elems \subseteq Jobs(Tasks) /\ now \in Nat
      /\ now' \in Nat /\ now <= now'
  BY NextMonotone, NextLoopInv DEF LoopInv, TypeOK, JobQs
<1>1. ASSUME \A k \in pq'.elems : \/ \E i \in pq.elems : k.starttime = i.starttime
                                 \/ k.starttime = now'
      PROVE  \A j \in pq'.elems : j.starttime <= now'
  BY <1>0, <1>1 DEF Jobs
<1>2. CASE InitFirst
  BY <1>2, <1>1 DEF InitFirst, jobq_insert_by, job_get_starttime
<1>3. CASE SpendBudget
  <2> DEFINE j == jobq_peek(pq)
             k == [j EXCEPT !.computation = @ - runtime * speed,
                            !.overruntime = max(0, @ - runtime * speed)]
  <2>1. j \in pq.elems /\ j \in Jobs(Tasks)
    BY <1>3, RootIsEarliest DEF SpendBudget
  <2>2. k.starttime = j.starttime
    BY <2>1 DEF Jobs
  <2> HIDE DEF k
  <2>3. pq'.elems = (pq.elems \ {j}) \cup {k}
    BY <1>3 DEF SpendBudget, WriteRoot, jobq_peek, k
  <2> QED
    BY <2>1, <2>2, <2>3, <1>1
<1>4. CASE FinishJob
  <2>1. pq'.elems = pq.elems \ {jobq_peek(pq)}
    BY <1>4, <1>0, PopRoot DEF FinishJob, Keys, jobq_peek
  <2> QED
    BY <2>1, <1>1
<1>5. CASE Arrival
  BY <1>5, <1>1 DEF Arrival, jobq_insert_by, job_get_starttime
<1>6. CASE pq' = pq
  BY <1>6, <1>1
<1> QED
  BY <1>2, <1>3, <1>4, <1>5, <1>6
     DEF Next, Run, vars, InitSecond, Call, RunPass, RunStart, CalcRuntime,
         StopAtBreaktime, StopAtOverrun

(* No clock falls behind a job of its task. *)
LEMMA NextClocks ==
    ASSUME LoopInv, [Next]_vars,
           \A j \in jq.elems : j.starttime <= simtime_state[j.taskid]
    PROVE  \A j \in jq'.elems : j.starttime <= simtime_state'[j.taskid]
<1>1. CASE UNCHANGED jobgenvars
  BY <1>1 DEF jobgenvars
<1>2. CASE jobgen_rise
  <2>1. /\ jq \in JobQs /\ jq.elems \subseteq Jobs(Tasks) /\ jq.elems # {}
        /\ simtime_state \in [Tasks -> Nat] /\ IsJobQ(jq, ByStarttime)
    BY DEF LoopInv, GeneratorInv, JobQs
  <2> DEFINE t == jobq_peek(jq).taskid
  <2>2. t \in Tasks
    BY <2>1 DEF IsJobQ, Firsts, jobq_peek, Jobs
  <2>3. PICK q \in jobq_pop(jq, ByStarttime) : refill_generator(q, t)
    BY <1>2, <2>1 DEF jobgen_rise
  <2>4. PICK new \in NewJobs(t, simtime_state[t]) :
            jq' = jobq_insert_by(q, new, ByStarttime)
    BY <2>3 DEF refill_generator
  <2>5. PICK rho \in Rho :
            simtime_state' = [simtime_state EXCEPT
                                 ![t] = @ + TaskSystem[t].period + rho]
    BY <2>3 DEF refill_generator
  <2>6. /\ TaskSystem[t].period \in Nat /\ rho \in Nat
        /\ simtime_state[t] \in Nat
    BY <2>1, <2>2, JobGenAssumption DEF TaskAssumption
  <2>7. \A u \in Tasks : simtime_state[u] <= simtime_state'[u]
    BY <2>1, <2>2, <2>5, <2>6
  <2>8. simtime_state' \in [Tasks -> Nat]
    BY <2>1, <2>2, <2>5, <2>6
  <2>9. new.taskid = t /\ new.starttime = simtime_state[t]
    BY <2>2, <2>4, <2>6, NewJobType
  <2>10. \A j \in jq'.elems : j = new \/ j \in jq.elems
    BY <2>1, <2>3, <2>4, PopRoot DEF jobq_insert_by, Keys
  <2>11. \A j \in jq.elems : j.taskid \in Tasks /\ j.starttime \in Nat
    BY <2>1 DEF Jobs
  <2> QED
    BY <2>1, <2>2, <2>6, <2>7, <2>8, <2>9, <2>10, <2>11
<1> QED
  BY <1>1, <1>2 DEF Next, Run, vars, InitFirst, InitSecond, Call, RunPass,
       RunStart, CalcRuntime, SpendBudget, FinishJob, ProgressTo,
       StopAtBreaktime, StopAtOverrun, Arrival

(* The initial states satisfy the invariant, and every step preserves it.  *)
LEMMA InitIInv == Init => IInv
<1> SUFFICES ASSUME Init PROVE IInv
  OBVIOUS
<1>1. LoopInv
  BY InitLoopInv
<1>2. ArrivalOrder
  BY <1>1 DEF Init, jobq_init, ArrivalOrder, LoopInv
<1>4. NoUndetectedMiss
  BY DEF Init, jobq_init, NoUndetectedMiss
<1>3. \A j \in jq.elems : j.starttime <= simtime_state[j.taskid]
  BY GeneratorInit DEF Init
<1> QED
  BY <1>1, <1>2, <1>3, <1>4 DEF IInv

LEMMA NextIInv == IInv /\ [Next]_vars => IInv'
<1> SUFFICES ASSUME IInv, [Next]_vars
             PROVE  IInv'
  OBVIOUS
<1>1. LoopInv'
  BY NextLoopInv DEF IInv
<1>2. \A j \in pq.elems : j.starttime <= now
  BY DEF IInv, ArrivalOrder, job_get_starttime
<1>3. \A j \in pq'.elems : j.starttime <= now'
  BY <1>2, NextArrived DEF IInv
<1>4. ArrivalOrder'
  BY <1>1, <1>3 DEF ArrivalOrder, LoopInv, job_get_starttime
<1>5. \A j \in jq'.elems : j.starttime <= simtime_state'[j.taskid]
  BY NextClocks DEF IInv
<1>6. NoUndetectedMiss'
  BY NextOnTime DEF IInv
<1> QED
  BY <1>1, <1>4, <1>5, <1>6 DEF IInv

(* The inductive invariant holds in every reachable state, for every task  *)
(* system, every set of delays and every sequence of calls.                *)
THEOREM Invariance == Spec => []IInv
  BY InitIInv, NextIInv, PTL DEF Spec

LEMMA LoopInvariance == Spec => [](LoopInv /\ NoUndetectedMiss)
<1>1. IInv => LoopInv /\ NoUndetectedMiss
  BY DEF IInv
<1> QED
  BY <1>1, Invariance, PTL

(* Types: no time is ever negative and no job is raised as NULL.           *)
THEOREM TypeCorrect == Spec => []TypeOK
<1>1. IInv => TypeOK
  BY DEF IInv, LoopInv
<1> QED
  BY <1>1, Invariance, PTL

(* No deadline of a job that waits in the scheduler queue ever passes      *)
(* unnoticed, although eventloop_run compares now only with the deadline   *)
(* of the job it has just worked on.                                       *)
THEOREM DeadlinesSafe == Spec => []NoUndetectedMiss
<1>1. IInv => NoUndetectedMiss
  BY DEF IInv
<1> QED
  BY <1>1, Invariance, PTL

(* Jobs enter the scheduler queue at their arrival, in order of arrival.   *)
THEOREM ArrivalsOrdered == Spec => []ArrivalOrder
<1>1. IInv => ArrivalOrder
  BY DEF IInv
<1> QED
  BY <1>1, Invariance, PTL

(* Work done in a window reaches neither past the next arrival nor past    *)
(* the breaktime, at any processor speed and with or without overruns.     *)
THEOREM WindowsBounded == Spec => []WindowBounded
<1>1. IInv => WindowBounded
  BY DEF IInv, LoopInv
<1> QED
  BY <1>1, Invariance, PTL

(* Simulation time never runs backwards, not even when a missed deadline   *)
(* sets it back.                                                           *)
THEOREM TimeNeverBackwards == Spec => TimeMonotone
<1>1. IInv /\ [Next]_vars => now <= now'
  BY NextMonotone DEF IInv
<1> QED
  BY <1>1, Invariance, PTL DEF Spec, TimeMonotone

(***************************************************************************)
(* Jobs of one task                                                        *)
(***************************************************************************)

(* Job a arrives at least a period before job b, if both are of one task.  *)
Ahead(a, b) ==
    a.taskid = b.taskid => a.starttime + TaskSystem[a.taskid].period <= b.starttime

(* The jobs of a task stand in a line from the scheduler queue over the    *)
(* raised job to the generator, and a period lies between any two.         *)
InLine ==
    /\ \A a, b \in pq.elems : a # b => Ahead(a, b) \/ Ahead(b, a)
    /\ \A a \in pq.elems : \A b \in Pending \cup jq.elems : Ahead(a, b)
    /\ \A a \in Pending : \A b \in jq.elems : Ahead(a, b)

(* The generator has no more than one job of a task, a period or more      *)
(* before the next.                                                        *)
OneEach ==
    \A j \in jq.elems :
        /\ \A k \in jq.elems : k.taskid = j.taskid => k = j
        /\ j.starttime + TaskSystem[j.taskid].period <= simtime_state[j.taskid]

SepInv == OneEach /\ InLine

(* What jobgen_rise does to the queue and the clocks of the generator.     *)
LEMMA RiseEffect ==
    ASSUME GeneratorInv, jobgen_rise
    PROVE  LET raised == jobq_peek(jq)
               t      == raised.taskid
           IN  /\ raised \in jq.elems /\ raised \in Jobs(Tasks)
               /\ TaskSystem[t].period \in Nat \ {0}
               /\ \E new \in Jobs(Tasks) :
                     /\ new.taskid = t
                     /\ new.starttime = simtime_state[t]
                     /\ jq'.elems = (jq.elems \ {raised}) \cup {new}
               /\ simtime_state'[t] \in Nat
               /\ simtime_state[t] + TaskSystem[t].period <= simtime_state'[t]
               /\ \A u \in Tasks \ {t} : simtime_state'[u] = simtime_state[u]
<1> DEFINE raised == jobq_peek(jq)
           t      == raised.taskid
<1>1. /\ jq \in JobQs /\ jq.elems # {}
      /\ simtime_state \in [Tasks -> Nat]
      /\ IsJobQ(jq, ByStarttime)
  BY DEF GeneratorInv
<1>2. raised \in jq.elems /\ raised \in Jobs(Tasks) /\ t \in Tasks
  BY <1>1 DEF IsJobQ, Firsts, jobq_peek, JobQs, Jobs
<1>3. PICK q \in jobq_pop(jq, ByStarttime) : refill_generator(q, t)
  BY <1>1 DEF jobgen_rise
<1>4. q \in JobQs /\ q.elems = jq.elems \ {raised} /\ IsJobQ(q, ByStarttime)
  BY <1>1, <1>3, PopRoot DEF Keys, jobq_peek
<1>5. PICK new \in NewJobs(t, simtime_state[t]) :
          jq' = jobq_insert_by(q, new, ByStarttime)
  BY <1>3 DEF refill_generator
<1>6. PICK rho \in Rho :
          simtime_state' = [simtime_state EXCEPT
                               ![t] = @ + TaskSystem[t].period + rho]
  BY <1>3 DEF refill_generator
<1>7. TaskSystem[t].period \in Nat \ {0} /\ rho \in Nat /\ simtime_state[t] \in Nat
  BY <1>1, <1>2, JobGenAssumption DEF TaskAssumption
<1>8. new \in Jobs(Tasks) /\ new.taskid = t /\ new.starttime = simtime_state[t]
  BY <1>2, <1>5, <1>7, NewJobType
<1>9. jq'.elems = (jq.elems \ {raised}) \cup {new}
  BY <1>4, <1>5, <1>8, InsertJob DEF Keys
<1>10. /\ simtime_state'[t] = simtime_state[t] + TaskSystem[t].period + rho
       /\ \A u \in Tasks \ {t} : simtime_state'[u] = simtime_state[u]
  BY <1>1, <1>2, <1>6
<1>11. /\ simtime_state'[t] \in Nat
       /\ simtime_state[t] + TaskSystem[t].period <= simtime_state'[t]
  BY <1>7, <1>10
<1> QED
  BY <1>2, <1>7, <1>8, <1>9, <1>10, <1>11

(* The tasks that have a job in the generator still have one.              *)
LEMMA RiseTasks ==
    ASSUME GeneratorInv, jobgen_rise
    PROVE  {j.taskid : j \in jq'.elems} = {j.taskid : j \in jq.elems}
<1> DEFINE raised == jobq_peek(jq)
<1>1. raised \in jq.elems
  BY RiseEffect
<1>2. PICK new \in Jobs(Tasks) :
          /\ new.taskid = raised.taskid
          /\ jq'.elems = (jq.elems \ {raised}) \cup {new}
  BY RiseEffect
<1> QED BY <1>1, <1>2

(* jobgen_rise leaves the generator with one job of a task at most, a      *)
(* period or more after the raised one; a job that was ahead of all of the *)
(* generator's jobs still is.                                              *)
LEMMA RiseKeepsOne ==
    ASSUME GeneratorInv, OneEach, jobgen_rise
    PROVE  /\ OneEach'
           /\ jobq_peek(jq) \in jq.elems
           /\ \A b \in jq'.elems : Ahead(jobq_peek(jq), b)
           /\ \A a \in Jobs(Tasks) :
                 (\A b \in jq.elems : Ahead(a, b)) => \A b \in jq'.elems : Ahead(a, b)
<1> DEFINE raised == jobq_peek(jq)
           t      == raised.taskid
           p      == TaskSystem[t].period
<1>1. /\ raised \in jq.elems /\ raised \in Jobs(Tasks) /\ p \in Nat \ {0}
      /\ simtime_state'[t] \in Nat
      /\ simtime_state[t] + p <= simtime_state'[t]
      /\ \A u \in Tasks \ {t} : simtime_state'[u] = simtime_state[u]
  BY RiseEffect
<1>2. PICK new \in Jobs(Tasks) :
          /\ new.taskid = t
          /\ new.starttime = simtime_state[t]
          /\ jq'.elems = (jq.elems \ {raised}) \cup {new}
  BY RiseEffect
<1>3. t \in Tasks /\ raised.starttime \in Nat /\ simtime_state[t] \in Nat
  BY <1>1 DEF Jobs, GeneratorInv
<1>4. /\ \A k \in jq.elems : k.taskid = t => k = raised
      /\ raised.starttime + p <= simtime_state[t]
  BY <1>1 DEF OneEach
<1>5. \A k \in jq'.elems : k.taskid = t => k = new
  BY <1>2, <1>4
<1>6. OneEach'
  <2> SUFFICES ASSUME NEW j \in jq'.elems
               PROVE  /\ \A k \in jq'.elems : k.taskid = j.taskid => k = j
                      /\ j.starttime + TaskSystem[j.taskid].period
                            <= simtime_state'[j.taskid]
    BY DEF OneEach
  <2>1. CASE j = new
    BY <2>1, <1>1, <1>2, <1>5
  <2>2. CASE j # new
    <3>1. j \in jq.elems /\ j.taskid # t
      BY <2>2, <1>2, <1>5
    <3>2. j.taskid \in Tasks
      BY <3>1 DEF GeneratorInv, JobQs, Jobs
    <3>3. /\ \A k \in jq.elems : k.taskid = j.taskid => k = j
          /\ j.starttime + TaskSystem[j.taskid].period
                <= simtime_state[j.taskid]
      BY <3>1 DEF OneEach
    <3> QED
      BY <3>1, <3>2, <3>3, <1>1, <1>2
  <2> QED
    BY <2>1, <2>2
<1>7. Ahead(raised, new)
  BY <1>2, <1>4 DEF Ahead
<1>8. \A b \in jq'.elems : Ahead(raised, b)
  BY <1>2, <1>5, <1>7 DEF Ahead
<1>9. ASSUME NEW a \in Jobs(Tasks), \A b \in jq.elems : Ahead(a, b)
      PROVE  Ahead(a, new)
  <2> SUFFICES ASSUME a.taskid = t
               PROVE  a.starttime + p <= new.starttime
    BY <1>2 DEF Ahead
  <2>1. a.starttime + p <= raised.starttime /\ a.starttime \in Nat
    BY <1>1, <1>9 DEF Ahead, Jobs
  <2> QED
    BY <2>1, <1>1, <1>2, <1>3, <1>4
<1> QED
  BY <1>1, <1>2, <1>6, <1>8, <1>9

(* No two places hold the same job, nor jobs of one task that are closer   *)
(* than a period.                                                          *)
LEMMA InLineSeparates == SepInv => SporadicSeparation
<1> SUFFICES ASSUME SepInv, NEW a \in Placed, NEW b \in Placed,
                    a # b, a[2].taskid = b[2].taskid
             PROVE  Ahead(a[2], b[2]) \/ Ahead(b[2], a[2])
  BY DEF SporadicSeparation, Ahead
<1> DEFINE x == a[2]
           y == b[2]
<1>1. /\ \/ x \in pq.elems /\ a = <<"pq", x>>
         \/ x \in Pending /\ a = <<"next", x>>
         \/ x \in jq.elems /\ a = <<"jq", x>>
      /\ \/ y \in pq.elems /\ b = <<"pq", y>>
         \/ y \in Pending /\ b = <<"next", y>>
         \/ y \in jq.elems /\ b = <<"jq", y>>
  BY DEF Placed
<1>2. /\ \A c, d \in pq.elems : c # d => Ahead(c, d) \/ Ahead(d, c)
      /\ \A c \in pq.elems : \A d \in Pending \cup jq.elems : Ahead(c, d)
      /\ \A c \in Pending : \A d \in jq.elems : Ahead(c, d)
  BY DEF SepInv, InLine
<1>3. \A c, d \in jq.elems : c.taskid = d.taskid => c = d
  BY DEF SepInv, OneEach
<1>4. \A c, d \in Pending : c = d
  BY DEF Pending
<1>5. x.taskid = y.taskid
  OBVIOUS
<1> HIDE DEF x, y
<1>6. CASE x \in pq.elems /\ y \in pq.elems /\ a = <<"pq", x>> /\ b = <<"pq", y>>
  BY <1>6, <1>2 DEF x, y
<1>7. CASE x \in jq.elems /\ y \in jq.elems /\ a = <<"jq", x>> /\ b = <<"jq", y>>
  BY <1>7, <1>3, <1>5
<1>8. CASE x \in Pending /\ y \in Pending /\ a = <<"next", x>> /\ b = <<"next", y>>
  BY <1>8, <1>4
<1>9. Ahead(x, y) \/ Ahead(y, x)
  BY <1>1, <1>2, <1>6, <1>7, <1>8 DEF x, y
<1> QED
  BY <1>9 DEF x, y

(* A step of the simulation in which the generator raises no job and the   *)
(* raised job stays where it is keeps the jobs in line, if those left in   *)
(* the scheduler queue come from some that were there.                     *)
LEMMA QueueOnlyStep ==
    ASSUME SepInv, UNCHANGED jobgenvars, Pending' \subseteq Pending,
           NEW from \in [pq'.elems -> pq.elems],
           \A j \in pq'.elems : /\ j.taskid = from[j].taskid
                               /\ j.starttime = from[j].starttime,
           \A i, j \in pq'.elems : i # j => from[i] # from[j]
    PROVE  SepInv'
<1>1. OneEach'
  BY DEF SepInv, OneEach, jobgenvars
<1>2. \A i, j \in pq'.elems : i # j => Ahead(i, j) \/ Ahead(j, i)
  BY DEF SepInv, InLine, Ahead
<1>3. \A a \in pq'.elems : \A b \in Pending' \cup jq'.elems : Ahead(a, b)
  BY DEF SepInv, InLine, Ahead, jobgenvars
<1>4. \A a \in Pending' : \A b \in jq'.elems : Ahead(a, b)
  BY DEF SepInv, InLine, jobgenvars
<1> QED
  BY <1>1, <1>2, <1>3, <1>4 DEF SepInv, InLine, Ahead

(* jobgen_rise keeps the jobs in line if the raised job becomes the only   *)
(* one to come, or enters the scheduler queue before there is one.         *)
LEMMA RiseStep ==
    ASSUME GeneratorInv, SepInv, jobgen_rise,
           pq.elems \cup Pending \subseteq Jobs(Tasks),
           pq'.elems \subseteq pq.elems \cup Pending \cup {jobq_peek(jq)},
           Pending' \subseteq {jobq_peek(jq)},
           jobq_peek(jq) \in pq'.elems => Pending' = {},
           \A a, b \in Pending : a = b
    PROVE  SepInv'
<1> DEFINE raised == jobq_peek(jq)
<1>1. /\ \A a, b \in pq.elems : a # b => Ahead(a, b) \/ Ahead(b, a)
      /\ \A a \in pq.elems : \A b \in Pending \cup jq.elems : Ahead(a, b)
      /\ \A a \in Pending : \A b \in jq.elems : Ahead(a, b)
  BY DEF SepInv, InLine
<1>2. /\ OneEach'
      /\ raised \in jq.elems
      /\ \A b \in jq'.elems : Ahead(raised, b)
      /\ \A a \in Jobs(Tasks) :
            (\A b \in jq.elems : Ahead(a, b)) => \A b \in jq'.elems : Ahead(a, b)
  BY RiseKeepsOne DEF SepInv
<1>3. pq.elems \cup Pending \subseteq Jobs(Tasks)
  OBVIOUS
<1> DEFINE all == pq.elems \cup Pending \cup {raised}
<1> HIDE DEF raised
<1>4. \A a, b \in all : a # b => Ahead(a, b) \/ Ahead(b, a)
  BY <1>1, <1>2
<1>5. \A a \in all : \A b \in jq'.elems : Ahead(a, b)
  BY <1>1, <1>2, <1>3
<1>6. \A a \in all : a # raised => Ahead(a, raised)
  BY <1>1, <1>2
<1>7. pq'.elems \subseteq all /\ Pending' \subseteq {raised}
  BY DEF raised
<1>8. \A a \in pq'.elems : \A b \in Pending' : Ahead(a, b)
  BY <1>6, <1>7 DEF raised
<1>9. InLine'
  BY <1>4, <1>5, <1>7, <1>8 DEF InLine, Ahead
<1> QED
  BY <1>2, <1>9 DEF SepInv

(* Initially every task has one job, in the generator. *)
LEMMA InitSep == Init => SepInv
<1> SUFFICES ASSUME Init PROVE SepInv
  OBVIOUS
<1>1. PICK new \in [Tasks -> UNION {NewJobs(t, 0) : t \in Tasks}],
           first \in Tasks :
          /\ \A t \in Tasks : new[t] \in NewJobs(t, 0)
          /\ jq = [elems |-> {new[t] : t \in Tasks}, head |-> new[first]]
  BY DEF Init, jobgen_init
<1>2. PICK rho \in [Tasks -> Rho] :
          simtime_state = [t \in Tasks |-> TaskSystem[t].period + rho[t]]
  BY DEF Init, jobgen_init
<1>3. \A t \in Tasks : new[t].taskid = t /\ new[t].starttime = 0
  BY <1>1, NewJobType
<1>4. OneEach
  <2> SUFFICES ASSUME NEW t \in Tasks
               PROVE  new[t].starttime + TaskSystem[t].period <= simtime_state[t]
    BY <1>1, <1>3 DEF OneEach
  <2>1. TaskSystem[t].period \in Nat /\ rho[t] \in Nat
    BY JobGenAssumption DEF TaskAssumption
  <2>2. simtime_state[t] = TaskSystem[t].period + rho[t]
    BY <1>2
  <2> QED
    BY <2>1, <2>2, <1>3
<1>5. pq.elems = {} /\ Pending = {}
  BY DEF Init, jobq_init, Pending
<1> QED
  BY <1>4, <1>5 DEF SepInv, InLine

(* Every step keeps the jobs of a task in line.                            *)
LEMMA NextSep == LoopInv /\ SepInv /\ [Next]_vars => SepInv'
<1> SUFFICES ASSUME LoopInv, SepInv, [Next]_vars
             PROVE  SepInv'
  OBVIOUS
<1>0. GeneratorInv /\ pq.elems \cup Pending \subseteq Jobs(Tasks)
  BY DEF LoopInv, TypeOK, JobQs
<1>1. ASSUME UNCHANGED jobgenvars, Pending' \subseteq Pending,
             pq'.elems \subseteq pq.elems
      PROVE  SepInv'
  <2> DEFINE from == [k \in pq'.elems |-> k]
  <2>1. /\ from \in [pq'.elems -> pq.elems]
        /\ \A j \in pq'.elems : from[j] = j
    BY <1>1
  <2> HIDE DEF from
  <2>2. /\ \A j \in pq'.elems : /\ j.taskid = from[j].taskid
                               /\ j.starttime = from[j].starttime
        /\ \A i, j \in pq'.elems : i # j => from[i] # from[j]
    BY <2>1
  <2> QED
    BY <1>1, <2>1, <2>2, QueueOnlyStep
<1>2. CASE InitFirst
  <2>1. pq.elems = {} /\ Pending = {} /\ Pending' = {}
    BY <1>2 DEF LoopInv, InitFirst, Pending
  <2>2. pq'.elems = pq.elems \cup {jobq_peek(jq)} /\ jobgen_rise
    BY <1>2 DEF InitFirst, jobq_insert_by
  <2> QED
    BY <1>0, <2>1, <2>2, RiseStep
<1>3. CASE InitSecond
  <2>1. /\ pq' = pq /\ Pending = {} /\ Pending' = {jobq_peek(jq)} /\ jobgen_rise
        /\ pc = "init2" /\ pc' = "idle"
    BY <1>3 DEF InitSecond, Pending
  <2>2. jobq_peek(jq) \notin pq.elems
    <3> SUFFICES ASSUME jobq_peek(jq) \in pq.elems PROVE FALSE
      OBVIOUS
    <3>1. /\ jobq_peek(jq) \in jq.elems /\ jobq_peek(jq) \in Jobs(Tasks)
          /\ TaskSystem[jobq_peek(jq).taskid].period \in Nat \ {0}
      BY <2>1, RiseEffect DEF LoopInv
    <3>2. Ahead(jobq_peek(jq), jobq_peek(jq))
      BY <3>1 DEF SepInv, InLine
    <3> QED
      BY <3>1, <3>2 DEF Ahead, Jobs
  <2> QED
    BY <1>0, <2>1, <2>2, RiseStep
<1>4. CASE Call
  <2>1. pc = "idle" /\ pq' = pq /\ UNCHANGED jobgenvars /\ evl_nextjob' = evl_nextjob
    BY <1>4 DEF Call, RunPass, RunStart
  <2>2. Pending' = Pending
    BY <2>1, <1>4 DEF Call, RunPass, RunStart, Pending
  <2> QED
    BY <1>1, <2>1, <2>2
<1>5. CASE CalcRuntime
  <2>1. pq' = pq /\ UNCHANGED jobgenvars /\ Pending' = Pending
    BY <1>5 DEF CalcRuntime, Pending
  <2> QED
    BY <1>1, <2>1
<1>6. ASSUME pc = "work", NEW t, NEW rest, NEW j, ProgressTo(t, rest, j)
      PROVE  UNCHANGED jobgenvars /\ Pending' = Pending
  BY <1>6 DEF ProgressTo, Return, Pending
<1>7. CASE SpendBudget
  <2> DEFINE j == jobq_peek(pq)
             k == [j EXCEPT !.computation = @ - runtime * speed,
                            !.overruntime = max(0, @ - runtime * speed)]
  <2>1. UNCHANGED jobgenvars /\ Pending' = Pending
    <3>1. pc = "work" /\ ProgressTo(now + runtime, 0, j)
      BY <1>7 DEF SpendBudget
    <3> QED
      BY <3>1, <1>6
  <2>2. j \in pq.elems /\ j \in Jobs(Tasks)
    BY <1>7, RootIsEarliest DEF SpendBudget
  <2>3. k.taskid = j.taskid /\ k.starttime = j.starttime
    BY <2>2 DEF Jobs
  <2> HIDE DEF k
  <2>4. pq'.elems = (pq.elems \ {j}) \cup {k}
    BY <1>7 DEF SpendBudget, WriteRoot, jobq_peek, k
  <2> DEFINE from == [i \in pq'.elems |-> IF i = k THEN j ELSE i]
  <2>5. /\ from \in [pq'.elems -> pq.elems]
        /\ \A i \in pq'.elems : from[i] = IF i = k THEN j ELSE i
    BY <2>2, <2>4
  <2> HIDE DEF from
  <2>6. /\ \A i \in pq'.elems : /\ i.taskid = from[i].taskid
                               /\ i.starttime = from[i].starttime
        /\ \A i, h \in pq'.elems : i # h => from[i] # from[h]
    BY <2>3, <2>4, <2>5
  <2> QED
    BY <2>1, <2>5, <2>6, QueueOnlyStep
<1>8. CASE FinishJob
  <2> DEFINE j == jobq_peek(pq)
             dt == TimeToFinish(j.computation, speed)
  <2>1. pc = "work" /\ ProgressTo(now + dt, runtime - dt, j)
    BY <1>8 DEF FinishJob
  <2>2. UNCHANGED jobgenvars /\ Pending' = Pending
    BY <2>1, <1>6
  <2>3. pq'.elems = pq.elems \ {j}
    BY <1>8, PopRoot DEF FinishJob, LoopInv, TypeOK, Keys, jobq_peek
  <2> QED
    BY <1>1, <2>2, <2>3
<1>9. CASE StopAtBreaktime \/ StopAtOverrun
  <2>1. UNCHANGED <<jobgenvars, pq>> /\ Pending' = Pending
    BY <1>9 DEF StopAtBreaktime, StopAtOverrun, WindowDone, Return, Pending
  <2> QED
    BY <1>1, <2>1
<1>10. CASE Arrival
  <2>1. /\ jobgen_rise /\ pq'.elems = pq.elems \cup {nextjob}
        /\ Pending = {nextjob} /\ Pending' = {jobq_peek(jq)}
    BY <1>10 DEF Arrival, WindowDone, Return, Pending, jobq_insert_by
  <2>2. jobq_peek(jq) \notin pq'.elems
    <3> SUFFICES ASSUME jobq_peek(jq) \in pq.elems \cup Pending PROVE FALSE
      BY <2>1
    <3>1. /\ jobq_peek(jq) \in jq.elems /\ jobq_peek(jq) \in Jobs(Tasks)
          /\ TaskSystem[jobq_peek(jq).taskid].period \in Nat \ {0}
      BY <2>1, RiseEffect DEF LoopInv
    <3>2. Ahead(jobq_peek(jq), jobq_peek(jq))
      BY <3>1 DEF SepInv, InLine
    <3> QED
      BY <3>1, <3>2 DEF Ahead, Jobs
  <2> QED
    BY <1>0, <2>1, <2>2, RiseStep
<1>11. CASE UNCHANGED vars
  <2>1. UNCHANGED <<jobgenvars, pq>> /\ Pending' = Pending
    BY <1>11 DEF vars, Pending
  <2> QED
    BY <1>1, <2>1
<1> QED
  BY <1>2, <1>3, <1>4, <1>5, <1>7, <1>8, <1>9, <1>10, <1>11 DEF Next, Run

LEMMA SepInvariance == Spec => []SepInv
  BY InitSep, NextSep, LoopInvariance, PTL DEF Spec

(* Every task has a job in the generator. *)
EveryTask == Tasks \subseteq {j.taskid : j \in jq.elems}

LEMMA NextEveryTask == LoopInv /\ EveryTask /\ [Next]_vars => EveryTask'
<1> SUFFICES ASSUME LoopInv, EveryTask, [Next]_vars
             PROVE  EveryTask'
  OBVIOUS
<1>1. CASE UNCHANGED jobgenvars
  BY <1>1 DEF jobgenvars, EveryTask
<1>2. CASE jobgen_rise
  BY <1>2, RiseTasks DEF EveryTask, LoopInv
<1> QED
  BY <1>1, <1>2 DEF Next, Run, vars, InitFirst, InitSecond, Call, RunPass,
       RunStart, CalcRuntime, SpendBudget, FinishJob, ProgressTo,
       StopAtBreaktime, StopAtOverrun, Arrival

(* Raising a job never leaves a task out: the generator always holds one   *)
(* job of every task, and its clock is a period later (jobgen.c 98-143).   *)
THEOREM GeneratorCovers == Spec => []GeneratorCoversTasks
<1>1. Init => EveryTask
  <2> SUFFICES ASSUME Init, NEW t \in Tasks
               PROVE  \E j \in jq.elems : j.taskid = t
    BY DEF EveryTask
  <2> QED BY NewJobType DEF Init, jobgen_init
<1>2. SepInv /\ EveryTask => GeneratorCoversTasks
  <2> SUFFICES ASSUME SepInv, EveryTask, NEW t \in Tasks
               PROVE  \E j \in jq.elems :
                         /\ \A k \in jq.elems : k.taskid = t <=> k = j
                         /\ j.starttime + TaskSystem[t].period
                               <= simtime_state[t]
    BY DEF GeneratorCoversTasks
  <2>1. PICK j \in jq.elems : j.taskid = t
    BY DEF EveryTask
  <2> QED BY <2>1 DEF SepInv, OneEach
<1> QED
  BY <1>1, <1>2, NextEveryTask, SepInvariance, LoopInvariance, PTL DEF Spec

(* The jobs are those of a sporadic task system, and no job is in two      *)
(* places at once, through any sequence of calls that end in any way.      *)
THEOREM TaskSystemSporadic == Spec => []SporadicSeparation
  BY InLineSeparates, SepInvariance, PTL

(***************************************************************************)
(* The end of a run                                                        *)
(***************************************************************************)

(* What holds beside LoopInv of a caller who never asks to break on overruns: *)
(* a window that is left early ends at the next arrival or the breaktime,  *)
(* and a call in progress has no result yet.                               *)
OKInv ==
    /\ OKAtBreaktime
    /\ overrunbreak = FALSE
    /\ pc # "idle" => result = "none"
    /\ pc = "work" => \/ now + runtime = job_get_starttime(nextjob)
                      \/ now + runtime = breaktime

LEMMA ProgressOK ==
    ASSUME LoopInv, OKInv, pc = "work",
           NEW t, NEW rest, NEW j, ProgressTo(t, rest, j),
           t + rest = now + runtime
    PROVE  OKInv'
<1>1. UNCHANGED args
  BY DEF ProgressTo
<1>2. CASE t > job_get_deadline(j)
  BY <1>1, <1>2 DEF ProgressTo, Return, OKInv, OKAtBreaktime, args
<1>3. CASE ~(t > job_get_deadline(j))
  BY <1>1, <1>3 DEF ProgressTo, OKInv, OKAtBreaktime, args
<1> QED
  BY <1>2, <1>3

LEMMA NextOK ==
    ASSUME OverrunBreak = {FALSE}
    PROVE  LoopInv /\ OKInv /\ [Next]_vars => OKInv'
<1> SUFFICES ASSUME LoopInv, OKInv, [Next]_vars
             PROVE  OKInv'
  OBVIOUS
<1>0. /\ now \in Nat /\ runtime \in Nat /\ speed \in Nat /\ breaktime \in Nat
      /\ pc = "work" => /\ now + runtime <= job_get_starttime(nextjob)
                        /\ now + runtime <= breaktime
                        /\ job_get_starttime(nextjob) \in Nat
  BY DEF LoopInv, TypeOK, WindowBounded, Pending, Jobs, job_get_starttime
<1>1. CASE InitFirst \/ InitSecond
  BY <1>1 DEF InitFirst, InitSecond, args, OKInv, OKAtBreaktime
<1>2. CASE Call
  BY <1>2 DEF Call, RunPass, RunStart, OKInv, OKAtBreaktime
<1>3. CASE CalcRuntime
  <2>1. /\ pc = "top" /\ pc' = "work" /\ UNCHANGED <<now, args, nextjob, result>>
        /\ runtime' = WindowLength
    BY <1>3 DEF CalcRuntime, OverrunExpected, OKInv
  <2>2. nextjob \in Jobs(Tasks) /\ job_get_starttime(nextjob) \in Nat
    BY <2>1 DEF LoopInv, TypeOK, Pending, Jobs, job_get_starttime
  <2>3. \/ now + WindowLength = job_get_starttime(nextjob)
        \/ now + WindowLength = breaktime
    BY <2>2, <1>0 DEF WindowLength
  <2>4. \/ now' + runtime' = job_get_starttime(nextjob')
        \/ now' + runtime' = breaktime'
    BY <2>1, <2>3 DEF args
  <2> QED
    BY <2>1, <2>4 DEF OKInv, OKAtBreaktime, args
<1>4. CASE SpendBudget
  <2>1. pc = "work" /\ ProgressTo(now + runtime, 0, jobq_peek(pq))
    BY <1>4 DEF SpendBudget
  <2>2. (now + runtime) + 0 = now + runtime
    BY <1>0
  <2> QED
    BY <2>1, <2>2, ProgressOK
<1>5. CASE FinishJob
  <2> DEFINE j  == jobq_peek(pq)
             dt == TimeToFinish(j.computation, speed)
  <2>1. /\ pc = "work" /\ pq.elems # {} /\ runtime * speed > j.computation
        /\ ProgressTo(now + dt, runtime - dt, j)
    BY <1>5 DEF FinishJob
  <2>2. j.computation \in Nat
    BY <2>1, RootIsEarliest DEF Jobs
  <2>3. dt \in 0..runtime
    BY <2>1, <2>2, <1>0, FinishWithin
  <2> HIDE DEF dt
  <2>4. (now + dt) + (runtime - dt) = now + runtime
    BY <2>3, <1>0
  <2> QED
    BY <2>1, <2>4, ProgressOK
<1>6. CASE StopAtBreaktime \/ StopAtOverrun
  BY <1>6 DEF StopAtBreaktime, StopAtOverrun, Return, AtOverrun, OKInv,
              OKAtBreaktime, args
<1>7. CASE Arrival
  <2>1. /\ pc = "work" /\ ~AtBreaktime /\ UNCHANGED args
        /\ now' = job_get_starttime(nextjob)
    BY <1>7 DEF Arrival, WindowDone
  <2>2. now' < breaktime
    BY <2>1, <1>0 DEF AtBreaktime, OKInv
  <2>3. pc' = "top" /\ result' = result
    BY <2>2, <1>7 DEF Arrival
  <2> QED
    BY <2>1, <2>3 DEF OKInv, OKAtBreaktime, args
<1>8. CASE UNCHANGED vars
  BY <1>8 DEF vars, args, OKInv, OKAtBreaktime
<1> QED
  BY <1>1, <1>2, <1>3, <1>4, <1>5, <1>6, <1>7, <1>8 DEF Next, Run

(* A run of a caller who never asks to break on overruns ends, without an  *)
(* error, at the breaktime asked for.  (With -b it need not: see the run   *)
(* overrun_past_breaktime.)                                                *)
THEOREM EndsAtBreaktime ==
    OverrunBreak = {FALSE} => (Spec => []OKAtBreaktime)
<1> SUFFICES ASSUME OverrunBreak = {FALSE}
             PROVE  Spec => []OKAtBreaktime
  OBVIOUS
<1>1. Init => OKInv
  BY DEF Init, OKInv, OKAtBreaktime
<1>2. LoopInv /\ OKInv /\ [Next]_vars => OKInv'
  BY NextOK
<1>3. OKInv => OKAtBreaktime
  BY DEF OKInv
<1> QED
  BY <1>1, <1>2, <1>3, LoopInvariance, PTL DEF Spec

(* A job that is done with its computation took the least time in which    *)
(* the processor does that much.                                           *)
LEMMA FinishLeast ==
    ASSUME NEW c \in Nat, NEW s \in Nat \ {0}
    PROVE  /\ TimeToFinish(c, s) \in Nat
           /\ TimeToFinish(c, s) * s >= c
           /\ TimeToFinish(c, s) > 0 => (TimeToFinish(c, s) - 1) * s < c
<1> DEFINE q == c \div s
           m == c % s
<1>1. q \in Nat /\ m \in 0..(s - 1) /\ c = s * q + m
  OBVIOUS
<1> HIDE DEF q, m
<1>2. q * s = s * q
  BY <1>1
<1>3. (q + 1) * s = s * q + s
  BY <1>1
<1>4. (q - 1) * s = s * q - s
  BY <1>1
<1>5. CASE m > 0
  <2>1. TimeToFinish(c, s) = q + 1
    BY <1>5 DEF TimeToFinish, q, m
  <2>2. (q + 1) - 1 = q
    BY <1>1
  <2> QED BY <1>1, <1>2, <1>3, <1>5, <2>1, <2>2
<1>6. CASE m = 0
  <2>1. TimeToFinish(c, s) = q
    <3>1. TimeToFinish(c, s) = q + 0
      BY <1>6 DEF TimeToFinish, q, m
    <3> QED BY <1>1, <3>1
  <2>2. s * q - s < c
    BY <1>1, <1>6
  <2> QED BY <1>1, <1>2, <1>4, <1>6, <2>1, <2>2
<1> QED BY <1>1, <1>5, <1>6

(***************************************************************************)
(* Refinement of EDF                                                       *)
(***************************************************************************)

(* What holds beside LoopInv and SepInv: a call in progress has no result.    *)
NoResultYet == pc # "idle" => result = "none"

LEMMA NextNoResult == NoResultYet /\ [Next]_vars => NoResultYet'
<1> SUFFICES ASSUME NoResultYet, [Next]_vars PROVE NoResultYet'
  OBVIOUS
<1>1. CASE InitFirst \/ InitSecond
  BY <1>1 DEF InitFirst, InitSecond, NoResultYet
<1>2. CASE Call
  BY <1>2 DEF Call, RunPass, RunStart, NoResultYet
<1>3. CASE CalcRuntime
  BY <1>3 DEF CalcRuntime, NoResultYet
<1>4. CASE SpendBudget \/ FinishJob
  BY <1>4 DEF SpendBudget, FinishJob, ProgressTo, Return, NoResultYet
<1>5. CASE StopAtBreaktime \/ StopAtOverrun \/ Arrival
  BY <1>5 DEF StopAtBreaktime, StopAtOverrun, Arrival, Return, WindowDone,
              NoResultYet
<1>6. CASE UNCHANGED vars
  BY <1>6 DEF vars, NoResultYet
<1> QED BY <1>1, <1>2, <1>3, <1>4, <1>5, <1>6 DEF Next, Run

(* Two ready jobs are never told apart by less than their ids. *)
LEMMA ReadyDistinct ==
    ASSUME LoopInv, SepInv,
           NEW a \in pq.elems, NEW b \in pq.elems \cup Pending,
           JobId(a) = JobId(b)
    PROVE  a = b /\ b \in pq.elems
<1>1. /\ a \in Jobs(Tasks) /\ b \in Jobs(Tasks)
      /\ a.taskid = b.taskid /\ a.starttime = b.starttime
  BY DEF LoopInv, TypeOK, JobQs, JobId
<1>2. /\ TaskSystem[a.taskid].period \in Nat \ {0} /\ a.starttime \in Nat
  BY <1>1, JobGenAssumption DEF TaskAssumption, Jobs
<1>3. ~ Ahead(a, b) /\ ~ Ahead(b, a)
  BY <1>1, <1>2 DEF Ahead
<1> QED BY <1>3 DEF SepInv, InLine

(* The mapped root is an earliest job, and taking it out of the queue or   *)
(* writing to it takes out or changes just that one of the mapped jobs.    *)
LEMMA ReadyRoot ==
    ASSUME LoopInv, SepInv, pq.elems # {}
    PROVE  /\ AsReady(jobq_peek(pq)) \in Abs!Earliest
           /\ {AsReady(k) : k \in pq.elems \ {jobq_peek(pq)}}
                 = ReadyJobs \ {AsReady(jobq_peek(pq))}
<1> DEFINE j == jobq_peek(pq)
<1>1. j \in pq.elems /\ \A k \in pq.elems : j.deadline <= k.deadline
  BY RootIsEarliest
<1>2. \A k \in pq.elems : AsReady(k) = AsReady(j) => k = j
  BY <1>1, ReadyDistinct DEF AsReady
<1>3. AsReady(j) \in Abs!Earliest
  <2>1. \A k \in pq.elems : AsReady(k).deadline = k.deadline
    BY DEF AsReady, job_get_deadline
  <2> QED BY <1>1, <2>1 DEF Abs!Earliest, ReadyJobs
<1> HIDE DEF j
<1>4. {AsReady(k) : k \in pq.elems \ {j}} = ReadyJobs \ {AsReady(j)}
  BY <1>1, <1>2 DEF ReadyJobs
<1> QED BY <1>3, <1>4 DEF j

(* Working through the rest of a window preempts the job or misses its     *)
(* deadline.                                                               *)
LEMMA SpendIsEDF ==
    ASSUME LoopInv, NoUndetectedMiss, SepInv, NoResultYet, SpendBudget, 0 \notin Speeds,
           speed \in Speeds
    PROVE  Abs!Next
<1> DEFINE j == jobq_peek(pq)
           a == AsReady(j)
           work == runtime * speed
           k == [j EXCEPT !.computation = @ - work,
                          !.overruntime = max(0, @ - work)]
<1>1. /\ pc = "work" /\ runtime > 0 /\ pq.elems # {} /\ work <= j.computation
      /\ pq' = WriteRoot(pq, k)
      /\ ProgressTo(now + runtime, 0, j)
      /\ result = "none"
  BY DEF SpendBudget, NoResultYet
<1>2. /\ now \in Nat /\ runtime \in Nat /\ speed \in Nat \ {0}
  BY EventLoopAssumption DEF LoopInv, TypeOK
<1>3. j \in Jobs(Tasks) /\ j \in pq.elems /\ j.computation \in Nat
      /\ j.deadline \in Nat /\ now <= j.deadline
  BY <1>1, RootIsEarliest DEF Jobs, NoUndetectedMiss, job_get_deadline
<1>4. work \in Nat
  BY <1>2
<1>5. a.left = j.computation /\ a.deadline = j.deadline
  BY DEF AsReady, job_get_deadline
<1>6. AsReady(k) = [a EXCEPT !.left = @ - work]
  BY <1>3 DEF AsReady, JobId, job_get_starttime, job_get_deadline, Jobs
<1>7. ReadyJobs' = (ReadyJobs \ {a}) \cup {[a EXCEPT !.left = @ - work]}
  <2>1. pq'.elems = (pq.elems \ {j}) \cup {k}
    BY <1>1 DEF WriteRoot, jobq_peek
  <2> HIDE DEF k, work
  <2>2. ReadyJobs' = {AsReady(i) : i \in pq.elems \ {j}} \cup {AsReady(k)}
    BY <2>1 DEF ReadyJobs, AsReady, JobId, job_get_starttime, job_get_deadline
  <2> QED BY <1>1, <1>6, <2>2, ReadyRoot
<1>8. a \in Abs!Earliest
  BY <1>1, ReadyRoot
<1> HIDE DEF a, k, work
<1>9. CASE now + runtime > j.deadline
  <2>1. now' = j.deadline /\ result' = "EVL_DEADLINEMISS"
    BY <1>1, <1>9 DEF ProgressTo, Return, job_get_deadline
  <2>2. (a.deadline - now) * speed < a.left
    <3>1. \A n, d, r, s, w, c \in Nat :
             n <= d /\ n + r > d /\ s > 0 /\ w = r * s /\ w <= c =>
                (d - n) * s < c
      <4> TAKE n, d, r, s, w, c \in Nat
      <4> HAVE n <= d /\ n + r > d /\ s > 0 /\ w = r * s /\ w <= c
      <4> DEFINE x == d - n
      <4>1. x \in Nat /\ x < r
        OBVIOUS
      <4> HIDE DEF x
      <4>2. x * s < r * s
        BY <4>1
      <4> QED BY <4>1, <4>2 DEF x
    <3>2. speed > 0 /\ speed \in Nat
      BY <1>2
    <3> QED BY <1>1, <1>2, <1>3, <1>4, <1>5, <1>9, <3>1, <3>2 DEF work
  <2>3. a.left - work \in 0..a.left
    BY <1>1, <1>3, <1>4, <1>5
  <2>4. [a EXCEPT !.left = @ - work] = [a EXCEPT !.left = a.left - work]
    BY DEF a, AsReady
  <2>5. Abs!Miss(a, speed)
    BY <1>5, <1>7, <2>1, <2>2, <2>3, <2>4 DEF Abs!Miss
  <2> QED BY <1>1, <1>2, <1>8, <2>5 DEF Abs!Next
<1>10. CASE ~(now + runtime > j.deadline)
  <2>1. now' = now + runtime /\ result' = result
    BY <1>1, <1>10 DEF ProgressTo, job_get_deadline
  <2>2. now < now' /\ now' <= a.deadline /\ (now' - now) * speed = work
    <3>1. (now + runtime) - now = runtime
      BY <1>2
    <3> QED BY <1>1, <1>2, <1>3, <1>5, <1>10, <2>1, <3>1 DEF work
  <2>3. Abs!Preempt(a, speed)
    BY <1>1, <1>5, <1>7, <2>1, <2>2 DEF Abs!Preempt
  <2> QED BY <1>1, <1>2, <1>8, <2>3 DEF Abs!Next
<1> QED BY <1>9, <1>10

(* Finishing a job completes it or misses its deadline. *)
LEMMA FinishIsEDF ==
    ASSUME LoopInv, NoUndetectedMiss, SepInv, NoResultYet, FinishJob, 0 \notin Speeds,
           speed \in Speeds
    PROVE  Abs!Next
<1> DEFINE j == jobq_peek(pq)
           a == AsReady(j)
           dt == TimeToFinish(j.computation, speed)
<1>1. /\ pc = "work" /\ pq.elems # {}
      /\ pq' \in jobq_pop(pq, ByDeadline)
      /\ ProgressTo(now + dt, runtime - dt, j)
      /\ result = "none"
  BY DEF FinishJob, NoResultYet
<1>2. /\ now \in Nat /\ speed \in Nat \ {0}
  BY EventLoopAssumption DEF LoopInv, TypeOK
<1>3. j \in Jobs(Tasks) /\ j \in pq.elems /\ j.computation \in Nat
      /\ j.deadline \in Nat /\ now <= j.deadline
  BY <1>1, RootIsEarliest DEF Jobs, NoUndetectedMiss, job_get_deadline
<1>4. /\ dt \in Nat /\ dt * speed >= j.computation
      /\ dt > 0 => (dt - 1) * speed < j.computation
  BY <1>2, <1>3, FinishLeast
<1>5. a.left = j.computation /\ a.deadline = j.deadline
  BY DEF AsReady, job_get_deadline
<1>6. ReadyJobs' = ReadyJobs \ {a}
  <2>1. pq'.elems = pq.elems \ {j}
    BY <1>1, PopRoot DEF LoopInv, TypeOK, Keys, jobq_peek
  <2>2. ReadyJobs' = {AsReady(i) : i \in pq.elems \ {j}}
    BY <2>1 DEF ReadyJobs, AsReady, JobId, job_get_starttime, job_get_deadline
  <2> QED BY <1>1, <2>2, ReadyRoot
<1>7. a \in Abs!Earliest
  BY <1>1, ReadyRoot
<1>10. speed \in Nat /\ speed > 0 /\ now \in Nat
  BY <1>2
<1> HIDE DEF a, dt
<1>8. CASE now + dt > j.deadline
  <2>1. now' = j.deadline /\ result' = "EVL_DEADLINEMISS"
    BY <1>1, <1>8 DEF ProgressTo, Return, job_get_deadline
  <2>2. (a.deadline - now) * speed < a.left
    <3>1. \A n, d, r, s, c \in Nat :
             n <= d /\ n + r > d /\ s > 0 /\ (r > 0 => (r - 1) * s < c) =>
                (d - n) * s < c
      <4> TAKE n, d, r, s, c \in Nat
      <4> HAVE n <= d /\ n + r > d /\ s > 0 /\ (r > 0 => (r - 1) * s < c)
      <4> DEFINE x == d - n
                 y == r - 1
      <4>1. x \in Nat /\ y \in Nat /\ x <= y /\ y * s < c
        OBVIOUS
      <4> HIDE DEF x, y
      <4>2. x * s <= y * s
        BY <4>1
      <4>3. x * s \in Nat /\ y * s \in Nat
        BY <4>1
      <4>4. x * s < c
        BY <4>1, <4>2, <4>3
      <4> QED BY <4>4 DEF x
    <3> QED BY <1>3, <1>4, <1>5, <1>8, <1>10, <3>1
  <2>3. Abs!Miss(a, speed)
    BY <1>5, <1>6, <2>1, <2>2 DEF Abs!Miss
  <2> QED BY <1>1, <1>2, <1>7, <2>3 DEF Abs!Next
<1>9. CASE ~(now + dt > j.deadline)
  <2>1. now' = now + dt /\ result' = result
    BY <1>1, <1>9 DEF ProgressTo, job_get_deadline
  <2>2. now <= now' /\ now' <= a.deadline
    BY <1>3, <1>4, <1>5, <1>9, <1>10, <2>1
  <2>3. now' - now = dt /\ (now < now' <=> dt > 0)
    BY <1>4, <1>10, <2>1
  <2>4. Abs!Complete(a, speed)
    BY <1>1, <1>4, <1>5, <1>6, <2>1, <2>2, <2>3 DEF Abs!Complete
  <2> QED BY <1>1, <1>2, <1>7, <2>4 DEF Abs!Next
<1> QED BY <1>8, <1>9

(* An arrival releases the raised job at its very arrival, and on a busy   *)
(* processor no time is skipped before.                                    *)
LEMMA ArrivalIsEDF ==
    ASSUME LoopInv, SepInv, NoResultYet, Arrival
    PROVE  Abs!Next
<1>1. /\ pc = "work" /\ (runtime = 0 \/ pq.elems = {})
      /\ ~ AtBreaktime /\ ~ AtOverrun
      /\ now' = job_get_starttime(nextjob)
      /\ pq' = jobq_insert_by(pq, nextjob, ByDeadline)
      /\ result = "none" /\ result' # "EVL_DEADLINEMISS"
  BY DEF Arrival, WindowDone, NoResultYet, Return
<1>2. Pending = {nextjob} /\ now <= job_get_starttime(nextjob) /\ now \in Nat
  BY <1>1 DEF Pending, LoopInv, NextToArrive, TypeOK
<1> DEFINE a == AsReady(nextjob)
<1>3. a.release = now'
  BY <1>1 DEF AsReady
<1>4. a \notin ReadyJobs
  <2> SUFFICES ASSUME NEW k \in pq.elems, AsReady(k) = a PROVE FALSE
    BY DEF ReadyJobs
  <2>1. JobId(k) = JobId(nextjob)
    BY DEF AsReady
  <2>2. k = nextjob /\ nextjob \in pq.elems
    BY <1>2, <2>1, ReadyDistinct
  <2>3. k \in Jobs(Tasks) /\ Ahead(k, nextjob)
    BY <1>2 DEF SepInv, InLine, LoopInv, TypeOK, JobQs
  <2>4. TaskSystem[k.taskid].period \in Nat \ {0} /\ k.starttime \in Nat
    BY <2>3, JobGenAssumption DEF TaskAssumption, Jobs
  <2> QED BY <2>2, <2>3, <2>4 DEF Ahead
<1>5. ReadyJobs' = ReadyJobs \cup {a}
  <2>1. pq'.elems = pq.elems \cup {nextjob}
    BY <1>1 DEF jobq_insert_by
  <2> QED BY <2>1 DEF ReadyJobs, AsReady, JobId, job_get_starttime,
                      job_get_deadline
<1>6. ReadyJobs # {} => now' = now
  <2> SUFFICES ASSUME ReadyJobs # {} PROVE now' = now
    OBVIOUS
  <2>1. pq.elems # {} /\ runtime = 0
    BY <1>1 DEF ReadyJobs
  <2>2. now + runtime = now
    BY <1>2, <2>1
  <2> QED BY <1>1, <2>1, <2>2 DEF LoopInv, WindowExact, AtBreaktime, AtOverrun
<1>7. ReadyJobs = {} => now' >= now
  BY <1>1, <1>2, <1>3 DEF AsReady
<1>8. Abs!Release(a)
  BY <1>1, <1>3, <1>4, <1>5, <1>6, <1>7 DEF Abs!Release
<1> HIDE DEF a
<1> QED BY <1>1, <1>5, <1>8 DEF Abs!Next

(* Every step of the event loop is a step of EDF or leaves it as it is. *)
LEMMA NextIsEDF ==
    ASSUME 0 \notin Speeds, "EVL_DEADLINEMISS" \notin ContinueAfter,
           LoopInv, NoUndetectedMiss, SepInv, NoResultYet,
           pc \in {"top", "work"} => speed \in Speeds, [Next]_vars
    PROVE  [Abs!Next]_<<now, ReadyJobs, result = "EVL_DEADLINEMISS">>
<1>0. ASSUME UNCHANGED <<now, pq>>, result # "EVL_DEADLINEMISS",
             result' # "EVL_DEADLINEMISS"
      PROVE  UNCHANGED <<now, ReadyJobs, result = "EVL_DEADLINEMISS">>
  BY <1>0 DEF ReadyJobs, AsReady, JobId, job_get_starttime, job_get_deadline
<1>1. CASE InitFirst
  <2> DEFINE j == jobq_peek(jq)
             a == AsReady(j)
  <2>1. /\ pq.elems = {} /\ now = 0 /\ result = "none" /\ result' = "none"
        /\ pq' = jobq_insert_by(pq, j, ByDeadline)
        /\ now' = job_get_starttime(j) /\ jobgen_rise
    BY <1>1 DEF InitFirst, LoopInv, NoResultYet
  <2>2. j \in Jobs(Tasks) /\ job_get_starttime(j) \in Nat
    BY <2>1, GeneratorRise DEF LoopInv, Jobs, job_get_starttime
  <2>3. ReadyJobs = {} /\ ReadyJobs' = {a}
    BY <2>1 DEF jobq_insert_by, ReadyJobs, AsReady, JobId, job_get_starttime,
                job_get_deadline
  <2>4. a.release = now'
    BY <2>1 DEF AsReady
  <2> HIDE DEF a
  <2>5. now' >= now
    BY <2>1, <2>2
  <2>6. Abs!Release(a)
    BY <2>1, <2>3, <2>4, <2>5 DEF Abs!Release
  <2> QED BY <2>1, <2>3, <2>6 DEF Abs!Next
<1>2. CASE InitSecond
  BY <1>0, <1>2 DEF InitSecond, NoResultYet
<1>3. CASE Call
  <2>1. /\ UNCHANGED <<now, pq>> /\ result \in ContinueAfter \cup {"none"}
        /\ result' \in {"EVL_PASS", "none"}
    BY <1>3 DEF Call, RunPass, RunStart
  <2> QED BY <1>0, <2>1
<1>4. CASE CalcRuntime
  <2>1. pc = "top" /\ UNCHANGED <<now, pq, result>>
    BY <1>4 DEF CalcRuntime
  <2> QED BY <1>0, <2>1 DEF NoResultYet
<1>5. CASE SpendBudget
  BY <1>5, SpendIsEDF DEF SpendBudget
<1>6. CASE FinishJob
  BY <1>6, FinishIsEDF DEF FinishJob
<1>7. CASE StopAtBreaktime
  <2>1. /\ pc = "work" /\ (runtime = 0 \/ pq.elems = {}) /\ AtBreaktime
        /\ now' = breaktime /\ pq' = pq
        /\ result = "none" /\ result' = "EVL_OK"
    BY <1>7 DEF StopAtBreaktime, WindowDone, Return, NoResultYet
  <2>2. now \in Nat /\ runtime \in Nat /\ breaktime \in Nat
        /\ now + runtime <= breaktime
    BY <2>1 DEF LoopInv, TypeOK, WindowBounded
  <2>3. ReadyJobs' = ReadyJobs
    BY <2>1 DEF ReadyJobs, AsReady, JobId, job_get_starttime, job_get_deadline
  <2>4. CASE now' = now
    BY <2>1, <2>3, <2>4
  <2>5. CASE now' # now
    <3>1. ReadyJobs = {} /\ now' > now
      BY <2>1, <2>2, <2>5 DEF AtBreaktime, ReadyJobs
    <3>2. Abs!Idle
      BY <2>1, <2>3, <3>1 DEF Abs!Idle
    <3> QED BY <2>1, <3>2 DEF Abs!Next
  <2> QED BY <2>4, <2>5
<1>8. CASE StopAtOverrun
  BY <1>0, <1>8 DEF StopAtOverrun, WindowDone, Return, NoResultYet
<1>9. CASE Arrival
  BY <1>9, ArrivalIsEDF
<1>10. CASE UNCHANGED vars
  BY <1>10 DEF vars, ReadyJobs, AsReady, JobId, job_get_starttime,
               job_get_deadline
<1> QED BY <1>1, <1>2, <1>3, <1>4, <1>5, <1>6, <1>7, <1>8, <1>9, <1>10
        DEF Next, Run

(* The speed of a call is one its caller may ask for. *)
SpeedAsked == pc \in {"top", "work"} => speed \in Speeds

LEMMA NextSpeedAsked == SpeedAsked /\ [Next]_vars => SpeedAsked'
<1> SUFFICES ASSUME SpeedAsked, [Next]_vars PROVE SpeedAsked'
  OBVIOUS
<1>1. CASE InitFirst \/ InitSecond
  BY <1>1 DEF InitFirst, InitSecond, SpeedAsked
<1>2. CASE Call
  BY <1>2 DEF Call, RunPass, RunStart, SpeedAsked
<1>3. CASE CalcRuntime
  BY <1>3 DEF CalcRuntime, SpeedAsked, args
<1>4. CASE SpendBudget \/ FinishJob
  BY <1>4 DEF SpendBudget, FinishJob, ProgressTo, Return, SpeedAsked, args
<1>5. CASE StopAtBreaktime \/ StopAtOverrun \/ Arrival
  BY <1>5 DEF StopAtBreaktime, StopAtOverrun, Arrival, Return, WindowDone,
              SpeedAsked, args
<1>6. CASE UNCHANGED vars
  BY <1>6 DEF vars, SpeedAsked, args
<1> QED BY <1>1, <1>2, <1>3, <1>4, <1>5, <1>6 DEF Next, Run

(* The event loop, with its windows, breaktimes, budgets and calls, is     *)
(* preemptive earliest deadline first scheduling that stops at the first   *)
(* deadline missed and never declares a miss that is none - for callers    *)
(* who do not run on after one and whose processor does some work.         *)
THEOREM EventLoopIsEDF ==
    0 \notin Speeds /\ "EVL_DEADLINEMISS" \notin ContinueAfter =>
        (Spec => ImplementsEDF)
<1> SUFFICES ASSUME 0 \notin Speeds, "EVL_DEADLINEMISS" \notin ContinueAfter
             PROVE  Spec => ImplementsEDF
  OBVIOUS
<1>1. Init => NoResultYet /\ SpeedAsked
  BY DEF Init, NoResultYet, SpeedAsked
<1>2. Init => Abs!Init
  BY DEF Init, Abs!Init, ReadyJobs, jobq_init
<1>3. /\ LoopInv /\ NoUndetectedMiss /\ SepInv /\ NoResultYet /\ SpeedAsked
      /\ [Next]_vars
      => [Abs!Next]_<<now, ReadyJobs, result = "EVL_DEADLINEMISS">>
  BY NextIsEDF DEF SpeedAsked
<1> QED BY <1>1, <1>2, <1>3, NextNoResult, NextSpeedAsked, LoopInvariance,
           SepInvariance, PTL DEF Spec, ImplementsEDF, Abs!Spec, Abs!edfvars

(***************************************************************************)
(* Overruns                                                                *)
(***************************************************************************)

(* A caller that tolerates no overrun, at speed 1. *)
Strict == ~ allow_first_overrun /\ speed = 1

(* What makes OverrunGenuine inductive for one call: a window shortened by *)
(* an expected overrun is as long as the work to it, which the root still  *)
(* has to do; so it is used up by that job alone and ends in EVL_OVERRUN.  *)
OverrunInv ==
    /\ pc \in {"init1", "init2"} => result = "none"
    /\ pc \in {"init1", "init2"} => ~ had_overrun
    /\ pc = "idle" /\ result \in {"none", "EVL_PASS"} => ~ had_overrun
    /\ pc = "top" /\ Strict => ~ had_overrun
    /\ pc \in {"top", "work"} => result = "none"
    /\ pc = "work" /\ Strict /\ had_overrun =>
          /\ pq.elems # {}
          /\ runtime = jobq_peek(pq).overruntime
          /\ runtime <= jobq_peek(pq).computation
          /\ now + runtime = overrun
          /\ overrunbreak
    /\ OverrunGenuine

LEMMA SpendOverrun ==
    ASSUME LoopInv, OverrunInv, SpendBudget
    PROVE  OverrunInv'
<1> DEFINE j == jobq_peek(pq)
           k == [j EXCEPT !.computation = @ - runtime * speed,
                          !.overruntime = max(0, @ - runtime * speed)]
<1>1. /\ pc = "work" /\ runtime > 0 /\ pq.elems # {}
      /\ runtime * speed <= j.computation
      /\ pq' = WriteRoot(pq, k)
      /\ ProgressTo(now + runtime, 0, j)
      /\ result = "none" /\ now \in Nat /\ runtime \in Nat
  BY DEF SpendBudget, OverrunInv, LoopInv, TypeOK
<1>2. UNCHANGED <<had_overrun, allow_first_overrun, speed, overrunbreak>>
  BY <1>1 DEF ProgressTo, overflow, args
<1>3. j \in Jobs(Tasks) /\ j.computation \in Nat /\ j.overruntime \in Nat
  BY <1>1, RootIsEarliest DEF Jobs
<1>4. pq'.elems # {} /\ jobq_peek(pq)' = k
  BY <1>1 DEF WriteRoot, jobq_peek
<1>5. CASE now + runtime > job_get_deadline(j)
  BY <1>1, <1>2, <1>5 DEF ProgressTo, Return, OverrunInv, OverrunGenuine
<1>6. CASE ~(now + runtime > job_get_deadline(j))
  <2>1. now' = now + runtime /\ runtime' = 0 /\ UNCHANGED <<overrun, pc, result>>
    BY <1>1, <1>6 DEF ProgressTo
  <2>2. ASSUME Strict, had_overrun
        PROVE  k.overruntime = 0 /\ 0 <= k.computation /\ now + runtime = overrun
               /\ overrunbreak
    <3>1. /\ runtime = j.overruntime /\ runtime <= j.computation
          /\ now + runtime = overrun /\ overrunbreak /\ runtime * speed = runtime
      BY <1>1, <2>2 DEF OverrunInv, Strict
    <3>2. k.computation = j.computation - runtime
          /\ k.overruntime = max(0, j.overruntime - runtime)
      BY <1>3, <3>1 DEF Jobs
    <3>3. max(0, j.overruntime - runtime) = 0
      BY <1>1, <3>1 DEF max
    <3> QED BY <1>1, <1>3, <3>1, <3>2, <3>3
  <2>3. now' + runtime' = now + runtime
    BY <1>1, <2>1
  <2> HIDE DEF k
  <2>4. Strict' <=> Strict
    BY <1>2 DEF Strict
  <2> QED BY <1>1, <1>2, <1>4, <2>1, <2>2, <2>3, <2>4
          DEF OverrunInv, OverrunGenuine
<1> QED BY <1>5, <1>6

LEMMA FinishOverrun ==
    ASSUME LoopInv, OverrunInv, FinishJob
    PROVE  OverrunInv'
<1> DEFINE j == jobq_peek(pq)
           dt == TimeToFinish(j.computation, speed)
<1>1. /\ pc = "work" /\ pq.elems # {}
      /\ runtime * speed > j.computation
      /\ ProgressTo(now + dt, runtime - dt, j)
      /\ result = "none" /\ runtime \in Nat
  BY DEF FinishJob, OverrunInv, LoopInv, TypeOK
<1>2. UNCHANGED <<had_overrun, allow_first_overrun, speed, overrunbreak>>
  BY <1>1 DEF ProgressTo, overflow, args
<1>3. ~(Strict /\ had_overrun)
  <2> SUFFICES ASSUME Strict, had_overrun PROVE FALSE
    OBVIOUS
  <2>1. runtime <= j.computation /\ runtime * speed = runtime
    BY <1>1 DEF OverrunInv, Strict
  <2>2. j.computation \in Nat
    BY <1>1, RootIsEarliest DEF Jobs
  <2> QED BY <1>1, <2>1, <2>2
<1>4. CASE now + dt > job_get_deadline(j)
  BY <1>1, <1>2, <1>4 DEF ProgressTo, Return, OverrunInv, OverrunGenuine
<1>5. CASE ~(now + dt > job_get_deadline(j))
  <2>1. UNCHANGED <<overrun, pc, result>>
    BY <1>1, <1>5 DEF ProgressTo
  <2> QED BY <1>1, <1>2, <1>3, <2>1 DEF OverrunInv, OverrunGenuine, Strict
<1> QED BY <1>4, <1>5

(* A window that was shortened for a strict caller ends at the overrun. *)
LEMMA ShortenedWindow ==
    ASSUME LoopInv, OverrunInv, WindowDone, Strict, had_overrun
    PROVE  /\ AtOverrun /\ pq.elems # {} /\ jobq_peek(pq).overruntime = 0
<1>1. /\ pq.elems # {} /\ runtime = 0 /\ runtime = jobq_peek(pq).overruntime
      /\ now + runtime = overrun /\ overrunbreak /\ now \in Nat
  BY DEF WindowDone, OverrunInv, LoopInv, TypeOK
<1> QED BY <1>1 DEF AtOverrun

LEMMA NextOverrun ==
    ASSUME ContinueAfter \subseteq {"none", "EVL_PASS"},
           LoopInv, OverrunInv, [Next]_vars
    PROVE  OverrunInv'
<1>1. CASE InitFirst \/ InitSecond
  BY <1>1 DEF InitFirst, InitSecond, overflow, args, OverrunInv,
              OverrunGenuine, Strict
<1>2. CASE Call
  <2>1. /\ pc = "idle" /\ result \in {"none", "EVL_PASS"} /\ ~ had_overrun
        /\ UNCHANGED overflow
        /\ \/ pc' = "idle" /\ result' = "EVL_PASS"
           \/ pc' = "top" /\ result' = "none"
    BY <1>2 DEF Call, RunPass, RunStart, OverrunInv
  <2> QED BY <2>1 DEF overflow, OverrunInv, OverrunGenuine
<1>3. CASE CalcRuntime
  <2>1. /\ pc = "top" /\ pc' = "work" /\ UNCHANGED <<pq, now, args, result>>
        /\ UNCHANGED allow_first_overrun /\ result = "none"
        /\ had_overrun' = (had_overrun \/ OverrunExpected)
        /\ overrun' = IF pq.elems = {} THEN 0
                      ELSE now + jobq_peek(pq).overruntime
    BY <1>3 DEF CalcRuntime, OverrunInv
  <2>2. ASSUME Strict', had_overrun'
        PROVE  OverrunExpected /\ runtime' = jobq_peek(pq).overruntime
    <3>1. Strict /\ ~ had_overrun
      BY <2>1, <2>2 DEF Strict, args, OverrunInv
    <3> QED BY <1>3, <2>1, <2>2, <3>1 DEF CalcRuntime, Strict
  <2> QED BY <2>1, <2>2 DEF OverrunExpected, OverrunInv, OverrunGenuine, args,
                            jobq_peek
<1>4. CASE SpendBudget
  BY <1>4, SpendOverrun
<1>5. CASE FinishJob
  BY <1>5, FinishOverrun
<1>6. CASE StopAtBreaktime \/ Arrival
  <2>1. /\ WindowDone /\ UNCHANGED <<overflow, allow_first_overrun, args>>
        /\ \/ pc' = "idle" /\ result' = "EVL_OK"
           \/ pc' = "top" /\ result' = result /\ ~ AtOverrun
    BY <1>6 DEF StopAtBreaktime, Arrival, Return
  <2>2. result = "none"
    BY <2>1 DEF WindowDone, OverrunInv
  <2> QED BY <2>1, <2>2, ShortenedWindow
          DEF overflow, args, OverrunInv, OverrunGenuine, Strict
<1>7. CASE StopAtOverrun
  <2>1. /\ WindowDone /\ AtOverrun
        /\ UNCHANGED <<overflow, allow_first_overrun, args, pq>>
        /\ pc' = "idle" /\ result' = "EVL_OVERRUN"
    BY <1>7 DEF StopAtOverrun, Return
  <2> QED BY <2>1, ShortenedWindow
          DEF overflow, args, OverrunInv, OverrunGenuine, Strict, AtOverrun,
              jobq_peek
<1>8. CASE UNCHANGED vars
  BY <1>8 DEF vars, overflow, args, OverrunInv, OverrunGenuine, Strict,
              jobq_peek
<1> QED BY <1>1, <1>2, <1>3, <1>4, <1>5, <1>6, <1>7, <1>8 DEF Next, Run

(* The first call of a process reports an overrun, at speed 1 and to a     *)
(* caller who tolerates none, only when the root of the queue has worked   *)
(* past its budget (eventloop.c 100-118, 193-197).                         *)
THEOREM OverrunsGenuine ==
    ContinueAfter \subseteq {"none", "EVL_PASS"} => (Spec => []OverrunGenuine)
<1> SUFFICES ASSUME ContinueAfter \subseteq {"none", "EVL_PASS"}
             PROVE  Spec => []OverrunGenuine
  OBVIOUS
<1>1. Init => OverrunInv
  BY DEF Init, OverrunInv, OverrunGenuine
<1>2. LoopInv /\ OverrunInv /\ [Next]_vars => OverrunInv'
  BY NextOverrun
<1>3. OverrunInv => OverrunGenuine
  BY DEF OverrunInv
<1> QED BY <1>1, <1>2, <1>3, LoopInvariance, PTL DEF Spec

(***************************************************************************)
(* Conservation of jobs                                                    *)
(***************************************************************************)

(* A clock of n periods counts n jobs. *)
LEMMA ClockCounts ==
    \A p \in Nat \ {0}, n \in Nat : (n * p) \div p = n
<1> SUFFICES ASSUME NEW p \in Nat \ {0}, NEW n \in Nat
             PROVE  (n * p) \div p = n
  OBVIOUS
<1> DEFINE x == n * p
           q == x \div p
           m == x % p
<1>1. x \in Nat
  OBVIOUS
<1>2. q \in Nat /\ m \in 0..p - 1 /\ x = p * q + m
  <2> HIDE DEF x
  <2> QED BY <1>1
<1>3. n * p = p * q + m
  BY <1>2
<1> HIDE DEF x, q, m
<1>4. ~(q < n)
  <2> SUFFICES ASSUME q < n PROVE FALSE
    OBVIOUS
  <2>1. (q + 1) * p <= n * p
    BY <1>2
  <2>2. (q + 1) * p = p * q + p
    BY <1>2
  <2> QED BY <1>2, <1>3, <2>1, <2>2
<1>5. ~(n < q)
  <2> SUFFICES ASSUME n < q PROVE FALSE
    OBVIOUS
  <2>1. (n + 1) * p <= q * p
    BY <1>2
  <2>2. (n + 1) * p = n * p + p /\ q * p = p * q
    BY <1>2
  <2> QED BY <1>2, <1>3, <2>1, <2>2
<1> QED BY <1>2, <1>4, <1>5 DEF q, x

(* A place is told by the queue or variable it is in; all of them together *)
(* hold the jobs of the three.                                             *)
LEMMA InSystemIds ==
    InSystem = {JobId(j) : j \in pq.elems \cup Pending \cup jq.elems}
<1>1. \A p \in Placed : p[2] \in pq.elems \cup Pending \cup jq.elems
  BY DEF Placed
<1>2. \A j \in pq.elems : <<"pq", j>> \in Placed /\ <<"pq", j>>[2] = j
  BY DEF Placed
<1>3. \A j \in Pending : <<"next", j>> \in Placed /\ <<"next", j>>[2] = j
  BY DEF Placed
<1>4. \A j \in jq.elems : <<"jq", j>> \in Placed /\ <<"jq", j>>[2] = j
  BY DEF Placed
<1> QED BY <1>1, <1>2, <1>3, <1>4 DEF InSystem

LEMMA InSystemNext ==
    InSystem' = {JobId(j) : j \in pq'.elems \cup Pending' \cup jq'.elems}
<1>1. \A p \in Placed' : p[2] \in pq'.elems \cup Pending' \cup jq'.elems
  BY DEF Placed
<1>2. \A j \in pq'.elems : <<"pq", j>> \in Placed' /\ <<"pq", j>>[2] = j
  BY DEF Placed
<1>3. \A j \in Pending' : <<"next", j>> \in Placed' /\ <<"next", j>>[2] = j
  BY DEF Placed
<1>4. \A j \in jq'.elems : <<"jq", j>> \in Placed' /\ <<"jq", j>>[2] = j
  BY DEF Placed
<1> QED BY <1>1, <1>2, <1>3, <1>4 DEF InSystem, JobId

(* What makes JobsConserved inductive: the clocks stand at multiples of    *)
(* the periods, and the jobs that are done are finitely many.              *)
ConsInv ==
    /\ \A t \in Tasks : \E n \in Nat : simtime_state[t] = n * TaskSystem[t].period
    /\ IsFiniteSet(Created \ InSystem)
    /\ JobsConserved

(* jobgen_rise creates exactly one job, the one its clock stood at.        *)
LEMMA RiseCreates ==
    ASSUME Rho = {0}, LoopInv, ConsInv, jobgen_rise
    PROVE  LET raised == jobq_peek(jq)
               t      == raised.taskid
               id     == <<t, simtime_state[t]>>
           IN  /\ raised \in jq.elems
               /\ {JobId(j) : j \in jq'.elems} \cup {JobId(raised)}
                     = {JobId(j) : j \in jq.elems} \cup {id}
               /\ Created' = Created \cup {id} /\ id \notin Created
               /\ \A u \in Tasks : \E n \in Nat :
                     simtime_state'[u] = n * TaskSystem[u].period
<1> DEFINE raised == jobq_peek(jq)
           t      == raised.taskid
           p      == TaskSystem[t].period
           id     == <<t, simtime_state[t]>>
<1>1. /\ jq \in JobQs /\ jq.elems # {} /\ simtime_state \in [Tasks -> Nat]
  BY DEF LoopInv, GeneratorInv
<1>2. /\ raised \in jq.elems /\ raised \in Jobs(Tasks) /\ t \in Tasks
      /\ p \in Nat \ {0}
  BY RiseEffect DEF LoopInv, Jobs
<1>3. PICK new \in Jobs(Tasks) :
         /\ new.taskid = t /\ new.starttime = simtime_state[t]
         /\ jq'.elems = (jq.elems \ {raised}) \cup {new}
  BY RiseEffect DEF LoopInv
<1>4. simtime_state' = [simtime_state EXCEPT ![t] = @ + p + 0]
  BY <1>1 DEF jobgen_rise, refill_generator
<1>5. /\ simtime_state'[t] = simtime_state[t] + p
      /\ \A u \in Tasks \ {t} : simtime_state'[u] = simtime_state[u]
  BY <1>1, <1>2, <1>4
<1>6. PICK n \in Nat : simtime_state[t] = n * p
  BY <1>2 DEF ConsInv
<1>7. n + 1 \in Nat /\ simtime_state'[t] = (n + 1) * p
  BY <1>2, <1>5, <1>6
<1>8. /\ simtime_state[t] \div p = n
      /\ simtime_state'[t] \div p = n + 1
  BY <1>2, <1>6, <1>7, ClockCounts
<1>9. \A u \in Tasks : \E m \in Nat :
         simtime_state'[u] = m * TaskSystem[u].period
  BY <1>5, <1>7 DEF ConsInv
<1>10. {JobId(j) : j \in jq'.elems} \cup {JobId(raised)}
          = {JobId(j) : j \in jq.elems} \cup {id}
  <2>1. JobId(new) = id
    BY <1>3 DEF JobId
  <2> QED BY <1>2, <1>3, <2>1
<1> DEFINE Of(u, m) == {<<u, i * TaskSystem[u].period>> : i \in 0..m - 1}
           count(u) == simtime_state[u] \div TaskSystem[u].period
<1>11. Of(t, n + 1) = Of(t, n) \cup {id}
  <2>1. \A i : i \in 0..(n + 1) - 1 <=> i \in 0..n - 1 \/ i = n
    OBVIOUS
  <2> QED BY <1>6, <2>1
<1>12. Created = UNION {Of(u, count(u)) : u \in Tasks}
  BY DEF Created
<1>13. Created' = UNION {Of(u, IF u = t THEN n + 1 ELSE count(u)) : u \in Tasks}
  <2>1. \A u \in Tasks : simtime_state'[u] \div TaskSystem[u].period
                            = IF u = t THEN n + 1 ELSE count(u)
    BY <1>5, <1>8
  <2> HIDE DEF count
  <2>2. Created' = UNION {Of(u, simtime_state'[u] \div TaskSystem[u].period) :
                             u \in Tasks}
    BY DEF Created
  <2> HIDE DEF Of
  <2> QED BY <2>1, <2>2
<1>14. count(t) = n
  BY <1>8
<1>15. id \notin Created
  <2> SUFFICES ASSUME NEW u \in Tasks, NEW i \in 0..count(u) - 1,
                      id = <<u, i * TaskSystem[u].period>>
               PROVE  FALSE
    BY <1>12
  <2>1. u = t /\ i * p = n * p
    BY <1>6
  <2>2. i \in Nat /\ i < n
    BY <1>14, <2>1
  <2>3. (i + 1) * p <= n * p
    BY <1>2, <2>2
  <2>4. (i + 1) * p = i * p + p
    BY <1>2, <2>2
  <2>5. n * p \in Nat
    BY <1>2
  <2> QED BY <1>2, <2>1, <2>3, <2>4, <2>5
<1> HIDE DEF Of, count, id, p, t
<1>16. Created' = Created \cup {id}
  BY <1>2, <1>11, <1>12, <1>13, <1>14
<1> QED BY <1>2, <1>9, <1>10, <1>15, <1>16 DEF id, p, t

(* A step that raises a job and finishes none keeps the count: the job the *)
(* generator creates is one more in the system.                            *)
LEMMA RiseConserves ==
    ASSUME Rho = {0}, LoopInv, ConsInv, jobgen_rise, jobs_done' = jobs_done,
           pq'.elems \cup Pending' = pq.elems \cup Pending \cup {jobq_peek(jq)}
    PROVE  ConsInv'
<1> DEFINE raised == jobq_peek(jq)
           t  == raised.taskid
           id == <<t, simtime_state[t]>>
<1>1. /\ raised \in jq.elems
      /\ {JobId(j) : j \in jq'.elems} \cup {JobId(raised)}
            = {JobId(j) : j \in jq.elems} \cup {id}
      /\ Created' = Created \cup {id} /\ id \notin Created
      /\ \A u \in Tasks : \E n \in Nat :
            simtime_state'[u] = n * TaskSystem[u].period
  BY RiseCreates
<1> HIDE DEF id, raised
<1>2. InSystem' = InSystem \cup {id}
  <2>1. InSystem' = {JobId(j) : j \in pq'.elems \cup Pending'}
                       \cup {JobId(j) : j \in jq'.elems}
    BY InSystemNext
  <2>2. InSystem = {JobId(j) : j \in pq.elems \cup Pending}
                       \cup {JobId(j) : j \in jq.elems}
    BY InSystemIds
  <2>3. {JobId(j) : j \in pq'.elems \cup Pending'}
           = {JobId(j) : j \in pq.elems \cup Pending} \cup {JobId(raised)}
    BY DEF raised
  <2>4. JobId(raised) \in {JobId(j) : j \in jq.elems}
    BY <1>1
  <2> QED BY <1>1, <2>1, <2>2, <2>3, <2>4
<1>3. Created' \ InSystem' = Created \ InSystem
  BY <1>1, <1>2
<1>4. InSystem' \subseteq Created'
  BY <1>1, <1>2 DEF ConsInv, JobsConserved
<1> QED BY <1>1, <1>3, <1>4 DEF ConsInv, JobsConserved

(* A step that leaves the generator alone and every job in the system.     *)
LEMMA QueueConserves ==
    ASSUME ConsInv, UNCHANGED jobgenvars, jobs_done' = jobs_done,
           Pending' = Pending,
           {JobId(j) : j \in pq'.elems} = {JobId(j) : j \in pq.elems}
    PROVE  ConsInv'
<1>1. Created' = Created /\ UNCHANGED simtime_state
  BY DEF jobgenvars, Created
<1>2. InSystem' = InSystem
  <2>1. InSystem' = {JobId(j) : j \in pq'.elems}
                       \cup {JobId(j) : j \in Pending' \cup jq'.elems}
    BY InSystemNext
  <2>2. InSystem = {JobId(j) : j \in pq.elems}
                       \cup {JobId(j) : j \in Pending \cup jq.elems}
    BY InSystemIds
  <2> QED BY <2>1, <2>2 DEF jobgenvars
<1> QED BY <1>1, <1>2 DEF ConsInv, JobsConserved

(* Finishing a job takes it, and no other, out of the system. *)
LEMMA FinishConserves ==
    ASSUME LoopInv, SepInv, ConsInv, UNCHANGED jobgenvars, Pending' = Pending,
           pq.elems # {}, pq'.elems = pq.elems \ {jobq_peek(pq)},
           jobs_done' = jobs_done + 1
    PROVE  ConsInv'
<1> DEFINE j  == jobq_peek(pq)
           id == JobId(j)
           F  == Created \ InSystem
<1>1. j \in pq.elems /\ j \in Jobs(Tasks)
  BY RootIsEarliest
<1>2. /\ Created' = Created /\ UNCHANGED <<simtime_state, jq>>
      /\ InSystem \subseteq Created /\ IsFiniteSet(F)
      /\ jobs_done = Cardinality(F)
  BY DEF jobgenvars, Created, ConsInv, JobsConserved
<1>3. \A k \in pq.elems \cup Pending : JobId(k) = id => k = j /\ k \in pq.elems
  BY <1>1, ReadyDistinct
<1>4. j \notin Pending
  <2> SUFFICES ASSUME j \in Pending PROVE FALSE
    OBVIOUS
  <2>1. Ahead(j, j)
    BY <1>1 DEF SepInv, InLine
  <2> QED BY <1>1, <2>1, JobGenAssumption DEF Ahead, TaskAssumption, Jobs
<1>5. \A k \in jq.elems : JobId(k) # id
  <2> SUFFICES ASSUME NEW k \in jq.elems, JobId(k) = id PROVE FALSE
    OBVIOUS
  <2>1. Ahead(j, k) /\ k \in Jobs(Tasks)
    BY <1>1 DEF SepInv, InLine, LoopInv, TypeOK, JobQs
  <2>2. j.taskid = k.taskid /\ j.starttime = k.starttime
    BY DEF JobId
  <2> QED BY <1>1, <2>1, <2>2, JobGenAssumption DEF Ahead, TaskAssumption, Jobs
<1>6. InSystem = {JobId(k) : k \in pq.elems \cup Pending \cup jq.elems}
  BY InSystemIds
<1>7. InSystem' = {JobId(k) : k \in (pq.elems \ {j}) \cup Pending \cup jq.elems}
  BY <1>2, InSystemNext
<1> HIDE DEF id, j
<1>8. InSystem' = InSystem \ {id} /\ id \in InSystem
  <2>1. \A k \in (pq.elems \ {j}) \cup Pending \cup jq.elems : JobId(k) # id
    BY <1>3, <1>4, <1>5
  <2>2. JobId(j) = id
    BY DEF id
  <2> QED BY <1>1, <1>6, <1>7, <2>1, <2>2
<1>9. Created' \ InSystem' = F \cup {id} /\ id \notin F
  BY <1>2, <1>8
<1> HIDE DEF F
<1>10. /\ IsFiniteSet(F \cup {id})
       /\ Cardinality(F \cup {id}) = Cardinality(F) + 1
  BY <1>2, <1>9, FS_AddElement
<1> QED BY <1>2, <1>8, <1>9, <1>10 DEF ConsInv, JobsConserved

(* Initially every task has its first job in the generator, and no other   *)
(* was created.                                                            *)
LEMMA InitCons ==
    ASSUME Rho = {0}, Init
    PROVE  ConsInv
<1>1. PICK new \in [Tasks -> UNION {NewJobs(t, 0) : t \in Tasks}],
           first \in Tasks :
          /\ \A t \in Tasks : new[t] \in NewJobs(t, 0)
          /\ jq = [elems |-> {new[t] : t \in Tasks}, head |-> new[first]]
  BY DEF Init, jobgen_init
<1>2. \A t \in Tasks : TaskSystem[t].period \in Nat \ {0}
  BY JobGenAssumption DEF TaskAssumption
<1>3. \A t \in Tasks : simtime_state[t] = TaskSystem[t].period
  <2>1. PICK rho \in [Tasks -> {0}] :
           simtime_state = [t \in Tasks |-> TaskSystem[t].period + rho[t]]
    BY DEF Init, jobgen_init
  <2> QED BY <1>2, <2>1
<1>4. \A t \in Tasks : simtime_state[t] = 1 * TaskSystem[t].period
  BY <1>2, <1>3
<1>5. \A t \in Tasks : simtime_state[t] \div TaskSystem[t].period = 1
  BY <1>2, <1>4, ClockCounts
<1>6. Created = {<<t, 0>> : t \in Tasks}
  <2>1. \A t \in Tasks : \A n : n \in 0..1 - 1 <=> n = 0
    OBVIOUS
  <2>2. \A t \in Tasks : 0 * TaskSystem[t].period = 0
    BY <1>2
  <2> QED BY <1>5, <2>1, <2>2 DEF Created
<1>7. InSystem = {<<t, 0>> : t \in Tasks}
  <2>1. \A t \in Tasks : JobId(new[t]) = <<t, 0>>
    BY <1>1, NewJobType DEF JobId
  <2>2. pq.elems = {} /\ Pending = {}
    BY DEF Init, jobq_init, Pending
  <2>3. jq.elems = {new[t] : t \in Tasks}
    BY <1>1
  <2>4. InSystem = {JobId(j) : j \in {new[t] : t \in Tasks}}
    BY <2>2, <2>3, InSystemIds
  <2> QED BY <2>1, <2>4
<1>8. Created \ InSystem = {}
  BY <1>6, <1>7
<1>9. IsFiniteSet({}) /\ Cardinality({}) = 0
  BY FS_EmptySet
<1>10. jobs_done = 0
  BY DEF Init
<1> QED BY <1>4, <1>6, <1>7, <1>8, <1>9, <1>10 DEF ConsInv, JobsConserved

LEMMA NextCons ==
    ASSUME Rho = {0}, LoopInv, SepInv, ConsInv, [Next]_vars
    PROVE  ConsInv'
<1>1. CASE InitFirst
  <2>1. Pending = {} /\ Pending' = {}
    BY <1>1 DEF InitFirst, Pending
  <2>2. /\ jobgen_rise /\ jobs_done' = jobs_done
        /\ pq'.elems = pq.elems \cup {jobq_peek(jq)}
    BY <1>1 DEF InitFirst, jobq_insert_by, counters
  <2> QED BY <2>1, <2>2, RiseConserves
<1>2. CASE InitSecond
  <2>1. /\ Pending = {} /\ Pending' = {jobq_peek(jq)} /\ jobgen_rise
        /\ jobs_done' = jobs_done /\ pq' = pq
    BY <1>2 DEF InitSecond, Pending, counters
  <2> QED BY <2>1, RiseConserves
<1>3. CASE Call
  <2>1. /\ pq' = pq /\ UNCHANGED jobgenvars /\ jobs_done' = jobs_done
        /\ Pending' = Pending
    BY <1>3 DEF Call, RunPass, RunStart, Pending, counters
  <2> QED BY <2>1, QueueConserves
<1>4. CASE CalcRuntime
  <2>1. /\ pq' = pq /\ UNCHANGED jobgenvars /\ jobs_done' = jobs_done
        /\ Pending' = Pending
    BY <1>4 DEF CalcRuntime, Pending, counters
  <2> QED BY <2>1, QueueConserves
<1>5. ASSUME pc = "work", NEW t, NEW rest, NEW j, ProgressTo(t, rest, j)
      PROVE  UNCHANGED jobgenvars /\ Pending' = Pending
  BY <1>5 DEF ProgressTo, Return, Pending
<1>6. CASE SpendBudget
  <2> DEFINE j == jobq_peek(pq)
             k == [j EXCEPT !.computation = @ - runtime * speed,
                            !.overruntime = max(0, @ - runtime * speed)]
  <2>1. /\ pc = "work" /\ pq.elems # {} /\ jobs_done' = jobs_done
        /\ pq' = WriteRoot(pq, k) /\ ProgressTo(now + runtime, 0, j)
    BY <1>6 DEF SpendBudget
  <2>2. UNCHANGED jobgenvars /\ Pending' = Pending
    BY <2>1, <1>5
  <2>3. j \in pq.elems /\ j \in Jobs(Tasks)
    BY <2>1, RootIsEarliest
  <2>4. JobId(k) = JobId(j)
    BY <2>3 DEF JobId, Jobs
  <2> HIDE DEF k
  <2>5. pq'.elems = (pq.elems \ {j}) \cup {k}
    BY <2>1 DEF WriteRoot, jobq_peek
  <2>6. {JobId(i) : i \in pq'.elems} = {JobId(i) : i \in pq.elems}
    BY <2>3, <2>4, <2>5
  <2> QED BY <2>1, <2>2, <2>6, QueueConserves
<1>7. CASE FinishJob
  <2> DEFINE dt == TimeToFinish(jobq_peek(pq).computation, speed)
  <2>1. /\ pc = "work" /\ pq.elems # {} /\ jobs_done' = jobs_done + 1
        /\ ProgressTo(now + dt, runtime - dt, jobq_peek(pq))
    BY <1>7 DEF FinishJob
  <2>2. UNCHANGED jobgenvars /\ Pending' = Pending
    BY <2>1, <1>5
  <2>3. pq'.elems = pq.elems \ {jobq_peek(pq)}
    BY <1>7, PopRoot DEF FinishJob, LoopInv, TypeOK, Keys, jobq_peek
  <2> QED BY <2>1, <2>2, <2>3, FinishConserves
<1>8. CASE StopAtBreaktime \/ StopAtOverrun
  <2>1. /\ pq' = pq /\ UNCHANGED jobgenvars /\ jobs_done' = jobs_done
        /\ Pending' = Pending
    BY <1>8 DEF StopAtBreaktime, StopAtOverrun, WindowDone, Return, Pending,
                counters
  <2> QED BY <2>1, QueueConserves
<1>9. CASE Arrival
  <2>1. /\ jobgen_rise /\ pq'.elems = pq.elems \cup {nextjob}
        /\ Pending = {nextjob} /\ Pending' = {jobq_peek(jq)}
        /\ jobs_done' = jobs_done
    BY <1>9 DEF Arrival, WindowDone, Return, Pending, jobq_insert_by
  <2> QED BY <2>1, RiseConserves
<1>10. CASE UNCHANGED vars
  <2>1. /\ pq' = pq /\ UNCHANGED jobgenvars /\ jobs_done' = jobs_done
        /\ Pending' = Pending
    BY <1>10 DEF vars, Pending, counters
  <2> QED BY <2>1, QueueConserves
<1> QED BY <1>1, <1>2, <1>3, <1>4, <1>6, <1>7, <1>8, <1>9, <1>10 DEF Next, Run

(* No call of eventloop_run loses a job or takes one twice, whatever its   *)
(* result and whether or not the caller runs on after it: every job that   *)
(* was created was finished or is in one place (Rho is {0}, so that the    *)
(* clocks count).                                                          *)
THEOREM JobsAreConserved ==
    Rho = {0} => (Spec => []JobsConserved)
<1> SUFFICES ASSUME Rho = {0}
             PROVE  Spec => []JobsConserved
  OBVIOUS
<1>1. Init => ConsInv
  BY InitCons
<1>2. LoopInv /\ SepInv /\ ConsInv /\ [Next]_vars => ConsInv'
  BY NextCons
<1>3. ConsInv => JobsConserved
  BY DEF ConsInv
<1> QED BY <1>1, <1>2, <1>3, LoopInvariance, SepInvariance, PTL DEF Spec
=============================================================================
