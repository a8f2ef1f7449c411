------------------------------- MODULE PQueue -------------------------------
(***************************************************************************)
(* The binary heap under a job queue (src/pqueue.c as src/jobq.c uses it). *)
(*                                                                         *)
(* The heap is an array d whose slots 1 to size-1 hold nodes; slot 0 is    *)
(* not used.  An insertion or a pop first takes a node out of its slot     *)
(* (moving, leaving a hole at i) and then moves the hole, one iteration    *)
(* of bubble_up or percolate_down a step, until the node fits into it.     *)
(* Slots from size on hold nothing: what the code leaves there is stale.   *)
(*                                                                         *)
(* jobq_dump pops a copy of the array until it is empty.  While it does,   *)
(* d and size are the copy's, and saved is the queue that was copied.      *)
(*                                                                         *)
(* A node's pos is written by every move but read only by pqueue_remove    *)
(* and pqueue_change_priority, which nothing calls; all three are left     *)
(* out.                                                                    *)
(*                                                                         *)
(* A definition under a comment that starts with "Fault:" is a faulty form *)
(* of the next one; it is used only to see that a property would notice.   *)
(***************************************************************************)
EXTENDS Integers, Sequences

CONSTANTS
    Ids,       \* the jobs
    Key,       \* the value jobq_insert_by's function returns for each of them
    PriValues, \* the number of values of pqueue_pri_t, 2^64
    Estimate,  \* the number of nodes memory is allocated for at first
    NULL

ASSUME PQueueAssumption ==
    /\ Key \in [Ids -> Int]
    /\ PriValues \in Nat \ {0}
    /\ Estimate \in Nat
    /\ NULL \notin [job : Ids, pri : Nat]

VARIABLES
    d, size, avail,      \* the heap being worked on
    saved,               \* the heap jobq_dump copied, or NoCopy
    dst,                 \* what jobq_dump returned, or has collected so far
    pc, i, moving, head  \* the operation in progress and its locals

heap   == <<d, size, avail>>
locals == <<pc, i, moving, head>>
vars   == <<heap, saved, dst, locals>>

step == Estimate + 1

(* No dump is going on.  A heap has a size of at least 1. *)
NoCopy == [d |-> <<>>, size |-> 0]

(* The signed key is stored in an unsigned word.                           *)
Node(j) == [job |-> j, pri |-> Key[j] % PriValues]
Nodes   == {Node(j) : j \in Ids}

left(k)   == 2 * k
parent(k) == k \div 2

(* Fault: the comparison is not strict. *)
cmp_pri_NotStrict(next, curr) == next >= curr

cmp_pri(next, curr) == next > curr

(* Fault: the right child is never looked at. *)
maxchild_LeftOnly(k) == IF left(k) >= size THEN 0 ELSE left(k)

(* The child of k that comes first, 0 if k has none. *)
maxchild(k) ==
    CASE left(k) >= size -> 0
      [] left(k) + 1 < size /\ cmp_pri(d[left(k)].pri, d[left(k) + 1].pri)
            -> left(k) + 1
      [] OTHER -> left(k)

-----------------------------------------------------------------------------

(* jobq_init *)
Init ==
    /\ size = 1
    /\ avail = step
    /\ d = [k \in 1..avail - 1 |-> NULL]
    /\ saved = NoCopy
    /\ dst = <<>>
    /\ pc = "ready" /\ i = 0 /\ moving = NULL /\ head = NULL

(* The slots of the heap with a node of the queue in them, the hole left   *)
(* out.                                                                    *)
Slots == {k \in 1..size - 1 : pc = "ready" \/ k # i}

Held == {d[k] : k \in Slots} \cup ({moving, head} \ {NULL})

(* Fault: memory grows only when the array is already overrun. *)
Grow_Late ==
    IF size > avail
    THEN avail' = avail + step
    ELSE avail' = avail

(* The array grows by a step when it is full. *)
Grow ==
    IF size >= avail
    THEN avail' = avail + step
    ELSE avail' = avail

(* jobq_insert_by, to the start of bubble_up. *)
jobq_insert_by(j) ==
    /\ pc = "ready"
    /\ saved = NoCopy
    /\ Node(j) \notin Held
    /\ Grow
    /\ d' = [k \in 1..avail' - 1 |-> IF k < avail THEN d[k] ELSE NULL]
    /\ size' = size + 1
    /\ i' = size
    /\ moving' = Node(j)
    /\ head' = NULL
    /\ dst' = <<>>
    /\ pc' = "up"
    /\ UNCHANGED saved

Rises == i > 1 /\ cmp_pri(d[parent(i)].pri, moving.pri)

(* An iteration of bubble_up: the hole takes the node above it. *)
bubble_up ==
    /\ pc = "up"
    /\ Rises
    /\ d' = [d EXCEPT ![i] = d[parent(i)]]
    /\ i' = parent(i)
    /\ UNCHANGED <<size, avail, saved, dst, pc, moving, head>>

(* jobq_pop and each pop of jobq_dump, to the start of percolate_down. *)
jobq_pop ==
    /\ pc = "ready"
    /\ size > 1
    /\ head' = d[1]
    /\ size' = size - 1
    /\ moving' = IF size > 2 THEN d[size - 1] ELSE NULL
    /\ d' = [d EXCEPT ![size - 1] = NULL]
    /\ i' = 1
    /\ pc' = "down"
    /\ dst' = IF saved = NoCopy THEN <<>> ELSE dst
    /\ UNCHANGED <<avail, saved>>

Sinks ==
    /\ maxchild(i) # 0
    /\ cmp_pri(moving.pri, d[maxchild(i)].pri)

(* Fault: the hole stays where it is. *)
percolate_down_Stays ==
    /\ pc = "down"
    /\ Sinks
    /\ d' = [d EXCEPT ![i] = d[maxchild(i)]]
    /\ i' = i
    /\ UNCHANGED <<size, avail, saved, dst, pc, moving, head>>

(* An iteration of percolate_down: the hole takes its first child. *)
percolate_down ==
    /\ pc = "down"
    /\ Sinks
    /\ d' = [d EXCEPT ![i] = d[maxchild(i)]]
    /\ i' = maxchild(i)
    /\ UNCHANGED <<size, avail, saved, dst, pc, moving, head>>

(* The end of either loop: the node goes into the hole.  A popped node is  *)
(* returned, or written to dst by jobq_dump.                               *)
Place ==
    /\ \/ pc = "up" /\ ~Rises
       \/ pc = "down" /\ ~Sinks
    /\ d' = [d EXCEPT ![i] = moving]
    /\ dst' = IF saved = NoCopy THEN <<>> ELSE Append(dst, head.job)
    /\ pc' = "ready" /\ i' = 0 /\ moving' = NULL /\ head' = NULL
    /\ UNCHANGED <<size, avail, saved>>

(* Fault: the pops emptied the array of the queue and not a copy's. *)
DumpEnd_NoCopy ==
    /\ pc = "ready"
    /\ saved # NoCopy
    /\ size = 1
    /\ saved' = NoCopy
    /\ UNCHANGED <<heap, dst, locals>>

(* jobq_dump has emptied the copy and frees it. *)
DumpEnd ==
    /\ pc = "ready"
    /\ saved # NoCopy
    /\ size = 1
    /\ d' = saved.d
    /\ size' = saved.size
    /\ saved' = NoCopy
    /\ UNCHANGED <<avail, dst, locals>>

(* jobq_dump, to the start of its loop. *)
jobq_dump ==
    /\ pc = "ready"
    /\ saved = NoCopy
    /\ saved' = [d |-> d, size |-> size]
    /\ dst' = <<>>
    /\ UNCHANGED <<heap, locals>>

Sift == bubble_up \/ percolate_down \/ Place

Next ==
    \/ \E j \in Ids : jobq_insert_by(j)
    \/ jobq_pop
    \/ jobq_dump
    \/ DumpEnd
    \/ Sift

Spec == Init /\ [][Next]_vars

DumpStep == saved # NoCopy /\ (jobq_pop \/ DumpEnd)

(* One thread executes an operation to its end: neither its loops nor the  *)
(* loop of jobq_dump wait for anything.                                    *)
FairSpec == Spec /\ WF_vars(Sift) /\ WF_vars(DumpStep)

-----------------------------------------------------------------------------
(* Properties                                                              *)

(* Every access is to a slot of the array, and a slot below size that is   *)
(* no hole holds a node: no stale or unset slot is compared.               *)
TypeOK ==
    /\ avail \in Nat \ {0} /\ size \in 1..avail
    /\ d \in [1..avail - 1 -> Nodes \cup {NULL}]
    /\ \A k \in Slots : d[k] # NULL
    /\ saved \in [d : [1..avail - 1 -> Nodes \cup {NULL}], size : 1..avail]
                    \cup {NoCopy}
    /\ dst \in Seq(Ids)
    /\ \/ pc = "ready" /\ i = 0 /\ moving = NULL /\ head = NULL
       \/ /\ pc = "up" /\ saved = NoCopy
          /\ i \in 1..size - 1 /\ moving \in Nodes /\ head = NULL
       \/ pc = "down" /\ i \in 1..size - 1 /\ moving \in Nodes /\ head \in Nodes
       \/ pc = "down" /\ size = 1 /\ i = 1 /\ moving = NULL /\ head \in Nodes

(* No node is in two slots, or in a slot and on the move: none is lost,    *)
(* popped twice or freed twice.                                            *)
NoneTwice ==
    /\ \A k, l \in Slots : d[k] = d[l] => k = l
    /\ \A k \in Slots : d[k] \notin {moving, head}
    /\ moving # NULL => moving # head

(* No node comes before the one above it (subtree_is_valid), also across   *)
(* the hole: what is below it may move up, and the moving node fits above  *)
(* (bubble_up) or below (percolate_down) of what it passed.                *)
HeapOrdered ==
    /\ \A k \in Slots :
          /\ parent(k) \in Slots => d[parent(k)].pri <= d[k].pri
          /\ pc # "ready" /\ parent(k) = i =>
                /\ parent(i) \in Slots => d[parent(i)].pri <= d[k].pri
                /\ pc = "up" => moving.pri <= d[k].pri
    /\ pc = "down" /\ i > 1 => d[parent(i)].pri <= moving.pri

(* The queue jobq_dump copied is a heap without a hole. *)
SavedOrdered ==
    saved # NoCopy =>
        \A k \in 1..saved.size - 1 :
            /\ saved.d[k] # NULL
            /\ k > 1 => saved.d[parent(k)].pri <= saved.d[k].pri
            /\ \A l \in 1..saved.size - 1 : saved.d[k] = saved.d[l] => k = l

(* A hole at the root of an insertion still shows the old root, which the  *)
(* moving node comes strictly before and which is also one level down.     *)
StaleRoot ==
    pc = "up" /\ i = 1 /\ Slots # {} =>
        /\ d[1] \in {d[k] : k \in Slots}
        /\ moving.pri < d[1].pri

(* The inductive invariant of the heap. *)
HeapInv == TypeOK /\ NoneTwice /\ HeapOrdered /\ SavedOrdered /\ StaleRoot

(* The job jobq_peek and jobq_pop return comes before or with every other  *)
(* job of the queue.                                                       *)
RootFirst ==
    pc = "ready" => \A k \in Slots : d[1].pri <= d[k].pri

Dumped == {Node(dst[k]) : k \in DOMAIN dst}

(* jobq_dump returns every job of the queue once, in the order pops would, *)
(* and leaves the queue as it was (jobq.c 124-137).                        *)
DumpSorted ==
    saved = NoCopy /\ dst # <<>> =>
        /\ Len(dst) = size - 1
        /\ Dumped = Held
        /\ \A k, l \in DOMAIN dst : k < l => Node(dst[k]).pri <= Node(dst[l]).pri

(* What makes DumpSorted inductive: while the copy is popped, the nodes    *)
(* returned and those it still holds are the ones that were copied, and    *)
(* none of the latter comes before one of the former, nor before the head. *)
DumpInv ==
    /\ \A k, l \in DOMAIN dst : k < l => Node(dst[k]).pri <= Node(dst[l]).pri
    /\ saved # NoCopy =>
          /\ Dumped \cup Held = {saved.d[k] : k \in 1..saved.size - 1}
          /\ Len(dst) + size = saved.size - (IF pc = "down" THEN 1 ELSE 0)
          /\ \A n \in Dumped, m \in Held : n.pri <= m.pri
          /\ pc = "down" => \A m \in Held : head.pri <= m.pri
    /\ saved = NoCopy /\ dst # <<>> =>
          pc = "ready" /\ Len(dst) = size - 1 /\ Dumped = Held

(* The queue a client sees.  A node enters it with the write into the hole *)
(* and leaves it with the last write of its pop.  While the hole is at the *)
(* root in an insertion, d[1] is still the old root.                       *)
Queue ==
    IF saved # NoCopy
    THEN [elems |-> {saved.d[k] : k \in 1..saved.size - 1},
          head  |-> IF saved.size > 1 THEN saved.d[1] ELSE NULL]
    ELSE [elems |-> IF pc = "up" THEN Held \ {moving} ELSE Held,
          head  |-> IF pc = "down" THEN head
                    ELSE IF Slots = {} THEN NULL ELSE d[1]]

Abs == INSTANCE PriorityQueue WITH q <- Queue

(* The heap implements the queue the generator and the event loop are      *)
(* modelled with, ties included: an insertion changes the root only if the *)
(* new node comes strictly first, and a pop takes the root that was seen.  *)
ImplementsQueue == Abs!Spec

(* Every operation comes to an end. *)
OperationEnds ==
    (pc # "ready" \/ saved # NoCopy) ~> (pc = "ready" /\ saved = NoCopy)
=============================================================================
