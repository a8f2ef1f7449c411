--------------------------- MODULE PriorityQueue ---------------------------
(***************************************************************************)
(* What jobq.h promises of a job queue: jobs go in with a priority, and    *)
(* the first comes out.  There is no array here and no loop; an operation  *)
(* is one step.  The operations are those of JobQ, on which the generator  *)
(* and the event loop are built, so an implementation of this module may   *)
(* stand for the queues there.                                             *)
(***************************************************************************)
EXTENDS JobQ

CONSTANT Nodes  \* the nodes a queue may hold, records with a field pri

VARIABLE q

Init == q = jobq_init

Insert == \E n \in Nodes \ q.elems : q' = jobq_insert_by(q, n, "pri")

Pop == q.elems # {} /\ q' \in jobq_pop(q, "pri")

Spec == Init /\ [][Insert \/ Pop]_q
=============================================================================
