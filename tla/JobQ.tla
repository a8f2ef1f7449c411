-------------------------------- MODULE JobQ --------------------------------
(***************************************************************************)
(* Jobs (src/job.c) and job queues (src/jobq.c).                           *)
(*                                                                         *)
(* A job is a record with the five fields of struct job.  A job queue is   *)
(* what a client of jobq.h can tell of the binary heap underneath: the set *)
(* of jobs it holds and the job at its root, the one jobq_peek returns.    *)
(* Jobs in one queue are distinct values (a task never releases two jobs   *)
(* at one time), so a set is enough.                                       *)
(*                                                                         *)
(* The root is kept beside the set because it decides ties: bubble_up      *)
(* stops at an equal priority, so an inserted job displaces the root only  *)
(* if it comes strictly first, and two calls of jobq_peek with no          *)
(* operation in between return the same job.  Which of several jobs of     *)
(* equal priority becomes the root after a pop depends on the shape of the *)
(* heap and is left open here.                                             *)
(*                                                                         *)
(* The function pointer jobq_insert_by takes is one of two getters and is  *)
(* given here as the name of the field that getter reads.  The code stores *)
(* the value in the node; neither field changes while a job is queued.     *)
(***************************************************************************)
EXTENDS Integers

CONSTANT NULL

job_init(taskid, starttime, overruntime, deadline, computation) ==
    [taskid      |-> taskid,
     starttime   |-> starttime,
     overruntime |-> overruntime,
     deadline    |-> deadline,
     computation |-> computation]

job_get_starttime(j) == j.starttime
job_get_deadline(j)  == j.deadline

(* The keys queues are ordered by. *)
ByStarttime == "starttime"
ByDeadline  == "deadline"
Keys        == {ByStarttime, ByDeadline}

(* A job's identity, where the C code has its address. *)
JobId(j) == <<j.taskid, j.starttime>>

Jobs(Ids) == [taskid      : Ids,
              starttime   : Nat,
              overruntime : Nat,
              deadline    : Nat,
              computation : Nat]

-----------------------------------------------------------------------------

jobq_init == [elems |-> {}, head |-> NULL]

(* NULL for an empty queue. *)
jobq_peek(q) == q.head

(* The jobs of S that no other job of S comes before. *)
Firsts(S, by) == {j \in S : \A k \in S : j[by] <= k[by]}

(* Fault: the new job is appended and not moved up. *)
jobq_insert_by_Append(q, j, by) ==
    [elems |-> q.elems \cup {j},
     head  |-> IF q.elems = {} THEN j ELSE q.head]

jobq_insert_by(q, j, by) ==
    [elems |-> q.elems \cup {j},
     head  |-> IF q.elems = {} \/ j[by] < q.head[by] THEN j ELSE q.head]

(* The queues that taking the root off q may leave; the root is what the   *)
(* call returns.                                                           *)
jobq_pop(q, by) ==
    LET rest == q.elems \ {q.head}
    IN  IF rest = {}
        THEN {jobq_init}
        ELSE {[elems |-> rest, head |-> h] : h \in Firsts(rest, by)}

(* The queue after the job at its root is written through its pointer      *)
(* (job_set_computation, job_set_overruntime), which reorders nothing.     *)
WriteRoot(q, j) == [elems |-> (q.elems \ {q.head}) \cup {j}, head |-> j]

(* What a well-formed queue ordered by a key is. *)
IsJobQ(q, by) ==
    /\ q.elems = {} => q.head = NULL
    /\ q.elems # {} => q.head \in Firsts(q.elems, by)
=============================================================================
