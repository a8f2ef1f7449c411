--------------------------------- MODULE EDF ---------------------------------
(***************************************************************************)
(* What eventloop.h promises of eventloop_run: preemptive earliest         *)
(* deadline first scheduling of arriving jobs on one processor until a     *)
(* deadline is missed.  There are no queues, windows, breaktimes, budgets  *)
(* or calls here, only time, the jobs that are ready, and whether a        *)
(* deadline was missed.  A job is a record of its id, release, deadline    *)
(* and the computation left.                                               *)
(***************************************************************************)
EXTENDS Integers

CONSTANT Speeds  \* units of computation the processor may do per timestep

VARIABLES now, ready, missed

edfvars == <<now, ready, missed>>

Init == now = 0 /\ ready = {} /\ missed = FALSE

Earliest == {j \in ready : \A k \in ready : j.deadline <= k.deadline}

(* A job becomes ready exactly at its release.  Time passes before only on *)
(* an idle processor.                                                      *)
Release(j) ==
    /\ j \notin ready
    /\ now' = j.release
    /\ IF ready = {} THEN now' >= now ELSE now' = now
    /\ ready' = ready \cup {j}
    /\ UNCHANGED missed

(* Nothing is ready and time passes. *)
Idle ==
    /\ ready = {}
    /\ now' > now
    /\ UNCHANGED <<ready, missed>>

(* The job with the earliest deadline has the processor for some time,     *)
(* that ends no later than its deadline, and is interrupted ...            *)
Preempt(j, s) ==
    LET work == (now' - now) * s
    IN  /\ now < now' /\ now' <= j.deadline
        /\ work <= j.left
        /\ ready' = (ready \ {j}) \cup {[j EXCEPT !.left = @ - work]}
        /\ UNCHANGED missed

(* ... or is done with its computation in the least time that takes.       *)
Complete(j, s) ==
    /\ now <= now' /\ now' <= j.deadline
    /\ (now' - now) * s >= j.left
    /\ now < now' => (now' - now - 1) * s < j.left
    /\ ready' = ready \ {j}
    /\ UNCHANGED missed

(* A miss is declared only for the job with the earliest deadline and only *)
(* if the time to its deadline does not suffice; time stops there.  What   *)
(* becomes of the job is left open.                                        *)
Miss(j, s) ==
    /\ (j.deadline - now) * s < j.left
    /\ now' = j.deadline
    /\ \/ ready' = ready \ {j}
       \/ \E l \in 0..j.left :
             ready' = (ready \ {j}) \cup {[j EXCEPT !.left = l]}
    /\ missed' = TRUE

Next ==
    /\ ~missed
    /\ \/ \E j \in ready' : Release(j)
       \/ Idle
       \/ \E j \in Earliest, s \in Speeds \ {0} :
             Preempt(j, s) \/ Complete(j, s) \/ Miss(j, s)

Spec == Init /\ [][Next]_edfvars
=============================================================================
