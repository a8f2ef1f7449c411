------------------------------- MODULE JobGen -------------------------------
(***************************************************************************)
(* The job generator (src/jobgen.c) over a task system (src/ts.c).         *)
(*                                                                         *)
(* The generator keeps one future job of every task in a queue ordered by  *)
(* arrival time and, per task, the earliest arrival of the job after that  *)
(* one.  Raising a job takes the first job off the queue and refills the   *)
(* queue with the next job of the same task.                               *)
(*                                                                         *)
(* Random draws are nondeterministic choices over the values the draw can  *)
(* yield.  Probabilities are integers out of ProbOne.                      *)
(***************************************************************************)
EXTENDS JobQ, Sequences

CONSTANTS TaskSystem,  \* the tasks, a function from task ids to task records
          Rho          \* the delays a job can have beyond its minimum period

VARIABLES jq,            \* jobgen.jq
          simtime_state  \* jobgen.simtime_state

jobgenvars == <<jq, simtime_state>>

Tasks == DOMAIN TaskSystem

ProbOne == 100

(* The segments uniform3 may pick: y is drawn from [0,1), so segment 0     *)
(* needs y <= p0, which y = 0 always meets.                                *)
Segments(t) ==
    LET p0 == TaskSystem[t].prob[1]
        p1 == TaskSystem[t].prob[2]
    IN  {0} \cup {s \in {1} : p1 > 0 /\ p0 < ProbOne}
            \cup {s \in {2} : p0 + p1 < ProbOne}

(* The computation demands ceil(uniform3(...)) may yield. *)
Gamma(t) ==
    UNION {TaskSystem[t].comp[2 * s + 1] .. TaskSystem[t].comp[2 * s + 2] :
              s \in Segments(t)}

(* A task that may exceed its budget comp1 gets the time just past the     *)
(* budget; for any other task the value is out of the job's reach.         *)
Overruntime(t, gamma) ==
    IF TaskSystem[t].comp[3] > 0 /\ TaskSystem[t].prob[1] < ProbOne
    THEN TaskSystem[t].comp[2] + 1
    ELSE gamma + 1

TaskAssumption ==
    \A t \in Tasks :
        /\ TaskSystem[t].period \in Nat \ {0}
        /\ TaskSystem[t].reldead \in Nat
        /\ TaskSystem[t].comp \in [1..6 -> Nat]
        /\ TaskSystem[t].prob \in [1..2 -> 0..ProbOne]
        /\ Gamma(t) # {}
        /\ 0 \notin Gamma(t)

ASSUME JobGenAssumption ==
    /\ Tasks # {}
    /\ TaskAssumption
    /\ Rho \subseteq Nat
    /\ Rho # {}
    /\ NULL \notin Jobs(Tasks)

(* The jobs refill_generator may create for task t arriving at alpha. *)
NewJobs(t, alpha) ==
    {job_init(t, alpha, Overruntime(t, gamma), alpha + TaskSystem[t].reldead,
              gamma) : gamma \in Gamma(t)}

-----------------------------------------------------------------------------

(* jobgen_init with refill: every task has a job arriving at 0.  The first *)
(* one inserted is the root; which task is first in the file is left open. *)
jobgen_init ==
    /\ \E new \in [Tasks -> UNION {NewJobs(t, 0) : t \in Tasks}] :
          /\ \A t \in Tasks : new[t] \in NewJobs(t, 0)
          /\ \E first \in Tasks :
                jq = [elems |-> {new[t] : t \in Tasks}, head |-> new[first]]
    /\ \E rho \in [Tasks -> Rho] :
          simtime_state = [t \in Tasks |-> TaskSystem[t].period + rho[t]]

(* Fault: the next arrival leaves out the period. *)
refill_generator_NoPeriod(q, t) ==
    /\ \E new \in NewJobs(t, simtime_state[t]) :
          jq' = jobq_insert_by(q, new, ByStarttime)
    /\ \E rho \in Rho : simtime_state' = [simtime_state EXCEPT ![t] = @ + rho]

(* refill_generator, on the queue q a job of task t was popped from. *)
refill_generator(q, t) ==
    /\ \E new \in NewJobs(t, simtime_state[t]) :
          jq' = jobq_insert_by(q, new, ByStarttime)
    /\ \E rho \in Rho :
          simtime_state' = [simtime_state EXCEPT
                               ![t] = @ + TaskSystem[t].period + rho]

(* Fault: the task to refill is looked up after the pop. *)
jobgen_rise_WrongTask ==
    IF jq.elems = {}
    THEN UNCHANGED jobgenvars
    ELSE \E q \in jobq_pop(jq, ByStarttime) :
            refill_generator(q, jobq_peek(q).taskid)

(* Raises jobq_peek(jq).  An empty generator raises NULL and stays empty. *)
jobgen_rise ==
    IF jq.elems = {}
    THEN UNCHANGED jobgenvars
    ELSE \E q \in jobq_pop(jq, ByStarttime) :
            refill_generator(q, jobq_peek(jq).taskid)
=============================================================================
