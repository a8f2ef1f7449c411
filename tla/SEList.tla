------------------------------- MODULE SEList -------------------------------
(***************************************************************************)
(* The unrolled list (src/selist.c): a chain of nodes with an array each,  *)
(* as a sequence of nonempty sequences, and the calls of it that thready   *)
(* makes.  Positions count from 0, as in the code.                         *)
(*                                                                         *)
(* The restore of a dump clears its list from the end, with one call more  *)
(* than there are elements (src/eventloop.c 346-350); clearing is the      *)
(* position it has reached.                                                *)
(***************************************************************************)
EXTENDS Integers, Sequences, SequencesExt

CONSTANTS
    Elements, NoElement,
    LIST_MAXSIZE, \* the elements a node has place for
    LIST_LIMIT,   \* a node with no more is filled up from the next
    MaxLength     \* bound: the longest list

ASSUME SEListAssumption ==
    /\ LIST_MAXSIZE \in Nat
    /\ LIST_LIMIT \in 1..(LIST_MAXSIZE \div 2) \* lines 24-27
    /\ NoElement \notin Elements
    /\ MaxLength \in Nat

VARIABLES l,        \* the nodes
          result,   \* what the last call returned
          clearing  \* the loop variable of the clearing, or Idle

selistvars == <<l, result, clearing>>

Idle == -2

-----------------------------------------------------------------------------

selist_length(nodes) == Len(FlattenSeq(nodes))

selist_empty(nodes) == nodes = <<>>

(* The node with position i, and the position in it, 0 if there is none.   *)
Before(nodes, k) == selist_length(SubSeq(nodes, 1, k - 1))

NodeAt(nodes, i) ==
    SelectInSeq([k \in DOMAIN nodes |-> Before(nodes, k + 1)], LAMBDA n : i < n)

selist_get(nodes, i) ==
    LET k == NodeAt(nodes, i) IN nodes[k][i - Before(nodes, k) + 1]

selist_push(nodes, x) ==
    IF nodes = <<>> \/ Len(Last(nodes)) = LIST_MAXSIZE
    THEN Append(nodes, <<x>>)
    ELSE [nodes EXCEPT ![Len(nodes)] = Append(@, x)]

(* Fault: the element moved from the next node is not taken out of it. *)
Refill_Copies(nodes, k) ==
    LET both == nodes[k] \o nodes[k + 1]
    IN  IF Len(both) > LIST_MAXSIZE
        THEN [nodes EXCEPT ![k] = Append(@, nodes[k + 1][1])]
        ELSE RemoveAt([nodes EXCEPT ![k] = both], k + 1)

(* A node that has become too empty takes one element of the next node, or *)
(* all of them if there is place. *)
Refill(nodes, k) ==
    LET both == nodes[k] \o nodes[k + 1]
    IN  IF Len(both) > LIST_MAXSIZE
        THEN [nodes EXCEPT ![k] = Append(@, nodes[k + 1][1]),
                           ![k + 1] = Tail(@)]
        ELSE RemoveAt([nodes EXCEPT ![k] = both], k + 1)

(* Fault: a node is never filled up again. *)
selist_delete_NoRefill(nodes, i) ==
    LET k    == NodeAt(nodes, i)
        left == [nodes EXCEPT ![k] = RemoveAt(@, i - Before(nodes, k) + 1)]
    IN  IF i < 0 \/ k = 0 THEN nodes
        ELSE IF left[k] = <<>> THEN RemoveAt(left, k)
        ELSE left

selist_delete(nodes, i) ==
    LET k    == NodeAt(nodes, i)
        left == [nodes EXCEPT ![k] = RemoveAt(@, i - Before(nodes, k) + 1)]
    IN  IF i < 0 \/ k = 0 THEN nodes
        ELSE IF left[k] = <<>> THEN RemoveAt(left, k)
        ELSE IF k < Len(left) /\ Len(left[k]) <= LIST_LIMIT THEN Refill(left, k)
        ELSE left

-----------------------------------------------------------------------------

Init == l = <<>> /\ result = NoElement /\ clearing = Idle

Push(x) ==
    /\ clearing = Idle
    /\ selist_length(l) < MaxLength
    /\ l' = selist_push(l, x)
    /\ result' = NoElement
    /\ UNCHANGED clearing

selist_pop ==
    /\ clearing = Idle
    /\ IF selist_empty(l)
       THEN l' = l /\ result' = NoElement
       ELSE /\ result' = Last(Last(l))
            /\ l' = selist_delete(l, selist_length(l) - 1)
    /\ UNCHANGED clearing

Get(i) ==
    /\ clearing = Idle
    /\ i < selist_length(l)
    /\ result' = selist_get(l, i)
    /\ UNCHANGED <<l, clearing>>

Delete(i) ==
    /\ clearing = Idle
    /\ l' = selist_delete(l, i)
    /\ result' = NoElement
    /\ UNCHANGED clearing

StartClearing ==
    /\ clearing = Idle
    /\ clearing' = selist_length(l)
    /\ UNCHANGED <<l, result>>

(* Fault: the loop ends before position 0. *)
Clear_NotFirst ==
    /\ clearing >= 0
    /\ l' = selist_delete(l, clearing)
    /\ clearing' = IF clearing = 1 THEN -1 ELSE clearing - 1
    /\ result' = NoElement

Clear ==
    /\ clearing >= 0
    /\ l' = selist_delete(l, clearing)
    /\ clearing' = clearing - 1
    /\ result' = NoElement

Next == \/ \E x \in Elements : Push(x)
        \/ selist_pop
        \/ \E i \in 0..MaxLength : Get(i)
        \/ \E i \in -1..MaxLength : Delete(i)
        \/ StartClearing
        \/ Clear

Spec == Init /\ [][Next]_selistvars

-----------------------------------------------------------------------------
(* Properties                                                              *)

Abs == INSTANCE List WITH list <- FlattenSeq(l)

(* The list is the sequence of its elements, whatever was moved between    *)
(* nodes: each call does to it, and returns, what a sequence would (lines  *)
(* 59-64 and 77-165).                                                      *)
ImplementsList == Abs!Spec

(* No node is empty, none has more elements than it has place for, and all *)
(* but the last are at least half full - so selist_pop, which looks at the *)
(* last node only, never meets an empty one (the assertion at line 117).   *)
Filled(nodes) ==
    /\ \A k \in DOMAIN nodes : Len(nodes[k]) \in 1..LIST_MAXSIZE
    /\ \A k \in DOMAIN nodes :
          k < Len(nodes) => Len(nodes[k]) >= LIST_LIMIT

NodesFilled == Filled(l)

(* The clearing loop leaves nothing (the assertion at eventloop.c:349).    *)
Cleared == clearing = -1 => selist_empty(l)

(* The inductive invariant: beside the filled nodes, no element is beyond  *)
(* the position the clearing has reached.                                  *)
SEListInv ==
    /\ l \in Seq(Seq(Elements))
    /\ NodesFilled
    /\ clearing \in Nat \cup {-1, Idle}
    /\ clearing # Idle => selist_length(l) <= clearing + 1
=============================================================================
