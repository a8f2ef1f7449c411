-------------------------------- MODULE List --------------------------------
(***************************************************************************)
(* What an unrolled list promises (src/selist.c seen through inc/selist.h):*)
(* it is a sequence.                                                       *)
(***************************************************************************)
EXTENDS Integers, Sequences, SequencesExt

CONSTANTS Elements, NoElement

VARIABLES list,    \* the elements
          result   \* what the last call returned, NoElement for none

listvars == <<list, result>>

Init == list = <<>> /\ result = NoElement

Push(x) == list' = Append(list, x) /\ result' = NoElement

(* The last element, if there is one. *)
Pop == IF list = <<>> THEN UNCHANGED list /\ result' = NoElement
                      ELSE list' = Front(list) /\ result' = Last(list)

(* Positions count from 0; there is nothing to delete at any other. *)
Delete(i) ==
    /\ list' = IF i \in 0..Len(list) - 1 THEN RemoveAt(list, i + 1) ELSE list
    /\ result' = NoElement

Get(i) ==
    /\ i \in 0..Len(list) - 1
    /\ result' = list[i + 1]
    /\ UNCHANGED list

Next == \/ \E x \in Elements : Push(x)
        \/ Pop
        \/ \E i \in -1..Len(list) : Delete(i)
        \/ \E i \in 0..Len(list) - 1 : Get(i)

Spec == Init /\ [][Next]_listvars
=============================================================================
