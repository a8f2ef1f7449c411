---------------------------- MODULE PQueueProofs ----------------------------
(***************************************************************************)
(* For any jobs, keys, word size and first allocation, the binary heap     *)
(* keeps to its array, loses and repeats no node, is ordered, and has a    *)
(* first job at its root.                                                  *)
(*                                                                         *)
(* HeapInv is inductive: each step of bubble_up and percolate_down moves   *)
(* the hole by one level, and HeapOrdered says of the two sides of the     *)
(* hole what makes the write of the last step restore the order.  The      *)
(* step from the order of parents and children to the root is an induction *)
(* over slots, done with the least slot that would break it.               *)
(***************************************************************************)
EXTENDS PQueue, WellFoundedInduction, TLAPS

(* A non-empty set of natural numbers has a least element. *)
LEMMA LeastElement ==
    ASSUME NEW T \in SUBSET Nat, T # {}
    PROVE  \E x \in T : \A y \in T : x <= y
<1> DEFINE R == {ss \in Nat \X Nat : ss[1] < ss[2]}
<1>1. IsWellFoundedOn(R, Nat)
  BY NatLessThanWellFounded, Zenon DEF OpToRel
<1>2. PICK x \in T : \A y \in T : <<y, x>> \notin R
  <2> HIDE DEF R
  <2> QED BY <1>1, WFMin, Zenon
<1>3. \A y \in T : ~(y < x)
  BY <1>2
<1> QED BY <1>2, <1>3

(* Nodes have natural priorities whatever their keys, and none is NULL. *)
LEMMA NodeType == \A n \in Nodes : n.pri \in Nat /\ n # NULL
BY PQueueAssumption DEF Nodes, Node

(* The slot above a slot is a lower one, and its children are the two.     *)
LEMMA Parent ==
    /\ \A k \in Nat \ {0} : parent(k) \in Nat /\ parent(k) < k
    /\ \A k, p \in Nat : parent(k) = p <=> (k = 2 * p \/ k = 2 * p + 1)
BY DEF parent

(* maxchild returns a child inside the heap whose priority is no greater   *)
(* than the other child's, and 0 only for a leaf.                          *)
LEMMA MaxChild ==
    ASSUME NEW k \in Nat \ {0}, size \in Nat,
           \A l \in 1..size - 1 : l # k => d[l] \in Nodes
    PROVE  /\ maxchild(k) \in Nat
           /\ maxchild(k) = 0 <=> 2 * k >= size
           /\ maxchild(k) # 0 =>
                 /\ maxchild(k) < size
                 /\ maxchild(k) > k
                 /\ parent(maxchild(k)) = k
                 /\ \A l \in 1..size - 1 :
                       parent(l) = k => d[maxchild(k)].pri <= d[l].pri
<1>1. \A l \in 1..size - 1 : l # k => d[l].pri \in Nat
  BY NodeType
<1>2. \A l \in 1..size - 1 : parent(l) = k <=> (l = 2 * k \/ l = 2 * k + 1)
  BY Parent
<1>3. CASE 2 * k >= size
  BY <1>3 DEF maxchild, left
<1>4. CASE 2 * k < size /\ 2 * k + 1 < size /\ d[2 * k].pri > d[2 * k + 1].pri
  <2>1. maxchild(k) = 2 * k + 1
    BY <1>4 DEF maxchild, left, cmp_pri
  <2> QED BY <1>1, <1>2, <1>4, <2>1
<1>5. CASE 2 * k < size /\ ~(2 * k + 1 < size /\ d[2 * k].pri > d[2 * k + 1].pri)
  <2>1. maxchild(k) = 2 * k
    BY <1>5 DEF maxchild, left, cmp_pri
  <2> QED BY <1>1, <1>2, <1>5, <2>1
<1> QED BY <1>3, <1>4, <1>5

-----------------------------------------------------------------------------
(* The heap starts empty. *)
LEMMA InitHeapInv == Init => HeapInv
<1> SUFFICES ASSUME Init PROVE HeapInv
  OBVIOUS
<1>1. step \in Nat \ {0}
  BY PQueueAssumption DEF step
<1>2. Slots = {}
  BY DEF Init, Slots
<1>3. TypeOK
  BY <1>1, <1>2 DEF Init, TypeOK
<1> QED BY <1>2, <1>3 DEF Init, HeapInv, NoneTwice, HeapOrdered, SavedOrdered,
                         StaleRoot

(* An insertion opens a hole past the last node; nothing is below it.      *)
LEMMA InsertStep ==
    ASSUME HeapInv, NEW j \in Ids, jobq_insert_by(j)
    PROVE  HeapInv'
<1> USE DEF HeapInv
<1>1. /\ size \in Nat \ {0} /\ avail \in Nat \ {0} /\ size <= avail
      /\ d \in [1..avail - 1 -> Nodes \cup {NULL}]
      /\ pc = "ready" /\ saved = NoCopy /\ moving = NULL /\ head = NULL
      /\ Slots = 1..size - 1
  BY DEF TypeOK, jobq_insert_by, Slots
<1>2. /\ avail' \in Nat \ {0} /\ avail' >= avail /\ size < avail'
      /\ size' = size + 1 /\ i' = size /\ pc' = "up" /\ saved' = NoCopy
      /\ moving' = Node(j) /\ head' = NULL /\ dst' = <<>>
  <2>1. step \in Nat \ {0}
    BY PQueueAssumption DEF step
  <2> QED BY <1>1, <2>1 DEF jobq_insert_by, Grow
<1>3. d' = [k \in 1..avail' - 1 |-> IF k < avail THEN d[k] ELSE NULL]
  BY DEF jobq_insert_by
<1>4. Slots' = 1..size - 1
  BY <1>1, <1>2 DEF Slots
<1>5. \A k \in 1..size - 1 : d'[k] = d[k] /\ d[k] \in Nodes
  <2>1. \A a \in Nat : a >= avail =>
           \A k \in 1..size - 1 : k \in 1..a - 1 /\ k < avail /\ k \in 1..avail - 1
    BY <1>1
  <2>2. \A k \in 1..size - 1 : k \in 1..avail' - 1 /\ k < avail /\ k \in 1..avail - 1
    BY <1>2, <2>1
  <2> QED BY <1>1, <1>3, <2>2 DEF TypeOK
<1>6. d' \in [1..avail' - 1 -> Nodes \cup {NULL}]
  <2>1. \A k \in 1..avail' - 1 : k < avail => k \in 1..avail - 1
    BY <1>1, <1>2
  <2> QED BY <1>1, <1>3, <2>1
<1>7. Node(j) \in Nodes
  BY DEF Nodes
<1>8. TypeOK'
  <2>1. avail' \in Nat \ {0} /\ size' \in 1..avail' /\ i' \in 1..size' - 1
    BY <1>1, <1>2
  <2>2. \A k \in Slots' : d'[k] # NULL
    BY <1>4, <1>5, NodeType
  <2>3. dst' \in Seq(Ids)
    BY <1>2
  <2> QED BY <1>2, <1>6, <1>7, <2>1, <2>2, <2>3 DEF TypeOK
<1>9. NoneTwice'
  <2>1. \A k \in 1..size - 1 : d[k] # Node(j)
    BY <1>1 DEF jobq_insert_by, Held
  <2> QED BY <1>1, <1>2, <1>4, <1>5, <1>7, <2>1, NodeType DEF NoneTwice
<1>10. HeapOrdered'
  <2>1. \A k \in 1..size - 1 : parent(k) # size
    BY <1>1, Parent
  <2> QED BY <1>1, <1>2, <1>4, <1>5, <2>1 DEF HeapOrdered, parent
<1>11. SavedOrdered'
  BY <1>2 DEF SavedOrdered
<1>12. StaleRoot'
  BY <1>1, <1>2, <1>4 DEF StaleRoot
<1> QED BY <1>8, <1>9, <1>10, <1>11, <1>12

(* The hole goes up: the node above it comes down into it. *)
LEMMA BubbleStep ==
    ASSUME HeapInv, bubble_up
    PROVE  HeapInv'
<1> USE DEF HeapInv
<1> DEFINE p == parent(i)
<1>1. /\ size \in Nat \ {0} /\ avail \in Nat \ {0} /\ size <= avail
      /\ d \in [1..avail - 1 -> Nodes \cup {NULL}]
      /\ pc = "up" /\ saved = NoCopy /\ moving \in Nodes /\ head = NULL
      /\ i \in 1..size - 1 /\ i > 1
      /\ Slots = (1..size - 1) \ {i}
  BY DEF TypeOK, bubble_up, Rises, Slots
<1>2. /\ d' = [d EXCEPT ![i] = d[p]] /\ i' = p
      /\ UNCHANGED <<size, avail, saved, dst, pc, moving, head>>
      /\ d[p].pri > moving.pri
  BY DEF bubble_up, Rises, cmp_pri
<1>3. p \in Nat /\ p >= 1 /\ p < i /\ p \in Slots /\ (i = 2 * p \/ i = 2 * p + 1)
  <2>1. i \in Nat \ {0} /\ p \in Nat
    BY <1>1, Parent
  <2>2. i = 2 * p \/ i = 2 * p + 1
    BY <2>1, Parent
  <2> HIDE DEF p
  <2> QED BY <1>1, <2>1, <2>2
<1>4. Slots' = (1..size - 1) \ {p}
  BY <1>1, <1>2 DEF Slots
<1>5. \A k \in Slots' : IF k = i THEN d'[k] = d[p] ELSE k \in Slots /\ d'[k] = d[k]
  <2>1. i \in DOMAIN d /\ \A k \in Slots' : k \in DOMAIN d
    BY <1>1, <1>4
  <2> QED BY <1>1, <1>2, <1>4, <2>1
<1>6. \A k \in Slots : d[k] \in Nodes /\ d[k].pri \in Nat
  <2>1. \A k \in Slots : k \in 1..avail - 1
    BY <1>1
  <2> QED BY <1>1, <2>1, NodeType DEF TypeOK
<1>7. TypeOK'
  <2>1. d' \in [1..avail - 1 -> Nodes \cup {NULL}]
    <3>1. d[p] \in Nodes
      BY <1>3, <1>6
    <3> QED BY <1>1, <1>2, <3>1
  <2>2. \A k \in Slots' : d'[k] # NULL
    BY <1>3, <1>5, <1>6, NodeType
  <2> QED BY <1>1, <1>2, <1>3, <2>1, <2>2 DEF TypeOK
<1>8. NoneTwice'
  <2>1. p \notin Slots'
    BY <1>4
  <2> QED BY <1>1, <1>2, <1>3, <1>5, <2>1 DEF NoneTwice
<1>9. HeapOrdered'
  <2>1. moving.pri \in Nat
    BY <1>1, NodeType
  <2> SUFFICES ASSUME NEW k \in Slots'
               PROVE  /\ parent(k) \in Slots' => d'[parent(k)].pri <= d'[k].pri
                      /\ parent(k) = p =>
                            /\ parent(p) \in Slots' => d'[parent(p)].pri <= d'[k].pri
                            /\ moving.pri <= d'[k].pri
    BY <1>1, <1>2 DEF HeapOrdered
  <2>2. k \in Nat /\ k >= 1 /\ k < size /\ k # p
    BY <1>1, <1>4
  <2>3. parent(k) \in Slots' => d'[parent(k)].pri <= d'[k].pri
    <3> HAVE parent(k) \in Slots'
    <3>1. k # i /\ k \in Slots /\ d'[k] = d[k]
      BY <1>3, <1>4, <1>5
    <3>2. CASE parent(k) = i
      BY <1>1, <1>3, <1>5, <3>1, <3>2 DEF HeapOrdered
    <3>3. CASE parent(k) # i
      BY <1>5, <3>1, <3>3 DEF HeapOrdered
    <3> QED BY <3>2, <3>3
  <2>4. ASSUME parent(k) = p
        PROVE  d[p].pri <= d'[k].pri
    <3>1. CASE k = i
      BY <1>3, <1>5, <1>6, <3>1
    <3>2. CASE k # i
      BY <1>3, <1>5, <2>4, <3>2 DEF HeapOrdered
    <3> QED BY <3>1, <3>2
  <2>5. parent(p) \in Slots' => parent(p) \in Slots /\ d'[parent(p)] = d[parent(p)]
                                /\ d[parent(p)].pri <= d[p].pri
    <3> HAVE parent(p) \in Slots'
    <3>1. parent(p) < i
      <4>1. parent(p) \in Nat /\ parent(p) < p
        BY <1>3, Parent
      <4> HIDE DEF p
      <4> QED BY <1>1, <1>3, <4>1
    <3>2. parent(p) \in Slots /\ d'[parent(p)] = d[parent(p)]
      BY <1>1, <1>3, <1>5, <3>1
    <3> QED BY <1>3, <3>2 DEF HeapOrdered
  <2>6. parent(k) = p => d'[k].pri \in Nat /\ d[p].pri \in Nat
                         /\ (parent(p) \in Slots' => d[parent(p)].pri \in Nat)
    BY <1>3, <1>5, <1>6, <2>5
  <2>7. ASSUME parent(k) = p
        PROVE  /\ parent(p) \in Slots' => d'[parent(p)].pri <= d'[k].pri
               /\ moving.pri <= d'[k].pri
    BY <1>2, <2>1, <2>4, <2>5, <2>6, <2>7
  <2> QED BY <2>3, <2>7
<1>10. SavedOrdered'
  BY <1>1, <1>2 DEF SavedOrdered
<1>11. StaleRoot'
  <2> SUFFICES ASSUME p = 1
               PROVE  /\ d'[1] \in {d'[k] : k \in Slots'}
                      /\ moving.pri < d'[1].pri
    BY <1>2 DEF StaleRoot
  <2>1. d'[1] = d[1] /\ d'[i] = d[1] /\ i \in Slots'
    BY <1>1, <1>2, <1>4
  <2>2. d[1].pri \in Nat /\ moving.pri \in Nat
    BY <1>1, <1>3, <1>6, NodeType
  <2> QED BY <1>2, <2>1, <2>2
<1> QED BY <1>7, <1>8, <1>9, <1>10, <1>11

(* A pop takes the root off, and the last node to be put into its place.   *)
LEMMA PopStep ==
    ASSUME HeapInv, jobq_pop
    PROVE  HeapInv'
<1> USE DEF HeapInv
<1>1. /\ size \in Nat /\ size >= 2 /\ avail \in Nat \ {0} /\ size <= avail
      /\ d \in [1..avail - 1 -> Nodes \cup {NULL}]
      /\ pc = "ready" /\ moving = NULL /\ head = NULL
      /\ Slots = 1..size - 1
  BY DEF TypeOK, jobq_pop, Slots
<1>2. /\ head' = d[1] /\ size' = size - 1
      /\ moving' = IF size > 2 THEN d[size - 1] ELSE NULL
      /\ d' = [d EXCEPT ![size - 1] = NULL]
      /\ i' = 1 /\ pc' = "down"
      /\ dst' = IF saved = NoCopy THEN <<>> ELSE dst
      /\ UNCHANGED <<avail, saved>>
  BY DEF jobq_pop
<1>3. Slots' = 2..size - 2
  <2>1. \A n \in Nat : n >= 1 =>
           {k \in 1..n - 1 : k # 1} = 2..n - 1
    OBVIOUS
  <2>2. Slots' = {k \in 1..size' - 1 : k # 1}
    BY <1>2 DEF Slots
  <2>3. size' \in Nat /\ size' >= 1 /\ size' - 1 = size - 2
    BY <1>1, <1>2
  <2> QED BY <2>1, <2>2, <2>3
<1>4. \A k \in 1..size - 1 : d[k] \in Nodes /\ d[k] # NULL /\ k \in DOMAIN d
  <2>1. \A k \in 1..size - 1 : k \in 1..avail - 1
    BY <1>1
  <2> QED BY <1>1, <2>1 DEF TypeOK
<1>5. \A k \in Slots' : k \in 1..size - 1 /\ k # 1 /\ k # size - 1 /\ d'[k] = d[k]
  <2>1. \A k \in Slots' : k \in 1..size - 1 /\ k # 1 /\ k # size - 1
    BY <1>1, <1>3
  <2> QED BY <1>2, <1>4, <2>1
<1>6. 1 \in 1..size - 1 /\ size - 1 \in 1..size - 1
  BY <1>1
<1>7. TypeOK'
  <2>1. d' \in [1..avail' - 1 -> Nodes \cup {NULL}]
    BY <1>1, <1>2
  <2>2. size' \in 1..avail'
    BY <1>1, <1>2
  <2>3. dst' \in Seq(Ids)
    BY <1>2 DEF TypeOK
  <2>4. \/ moving' \in Nodes /\ i' \in 1..size' - 1
        \/ moving' = NULL /\ size' = 1
    BY <1>1, <1>2, <1>4, <1>6
  <2>5. \A k \in Slots' : d'[k] # NULL
    BY <1>4, <1>5
  <2>6. avail' \in Nat \ {0} /\ head' \in Nodes
        /\ saved' \in [d : [1..avail' - 1 -> Nodes \cup {NULL}], size : 1..avail']
                          \cup {NoCopy}
    BY <1>1, <1>2, <1>4, <1>6 DEF TypeOK
  <2> QED BY <1>2, <2>1, <2>2, <2>3, <2>4, <2>5, <2>6 DEF TypeOK
<1>8. NoneTwice'
  <2>1. moving' # NULL => size - 1 # 1 /\ moving' = d[size - 1]
    BY <1>1, <1>2
  <2> QED BY <1>1, <1>2, <1>4, <1>5, <1>6, <2>1 DEF NoneTwice
<1>9. HeapOrdered'
  <2> SUFFICES ASSUME NEW k \in Slots', parent(k) \in Slots'
               PROVE  d'[parent(k)].pri <= d'[k].pri
    <3>1. 1 \notin Slots' /\ parent(1) \notin Slots'
      <4>1. parent(1) = 0
        BY Parent
      <4> QED BY <1>3, <4>1
    <3> QED BY <1>2, <3>1 DEF HeapOrdered
  <2> QED BY <1>1, <1>5 DEF HeapOrdered
<1>10. SavedOrdered' /\ StaleRoot'
  BY <1>2 DEF SavedOrdered, StaleRoot
<1> QED BY <1>7, <1>8, <1>9, <1>10

(* The hole goes down: its first child comes up into it.                   *)
LEMMA PercolateStep ==
    ASSUME HeapInv, percolate_down
    PROVE  HeapInv'
<1> USE DEF HeapInv
<1> DEFINE c == maxchild(i)
<1>1. /\ size \in Nat \ {0} /\ avail \in Nat \ {0} /\ size <= avail
      /\ d \in [1..avail - 1 -> Nodes \cup {NULL}]
      /\ pc = "down" /\ i \in 1..size /\ head \in Nodes
      /\ Slots = (1..size - 1) \ {i}
  BY DEF TypeOK, percolate_down, Slots
<1>2. /\ d' = [d EXCEPT ![i] = d[c]] /\ i' = c /\ c # 0
      /\ UNCHANGED <<size, avail, saved, dst, pc, moving, head>>
      /\ moving.pri > d[c].pri
  BY DEF percolate_down, Sinks, cmp_pri
<1>3. \A k \in Slots : d[k] \in Nodes /\ d[k].pri \in Nat /\ k \in 1..avail - 1
  <2>1. \A k \in Slots : k \in 1..avail - 1
    BY <1>1
  <2> QED BY <1>1, <2>1, NodeType DEF TypeOK
<1>4. /\ c \in Nat /\ c < size /\ c > i /\ parent(c) = i
      /\ \A l \in 1..size - 1 : parent(l) = i => d[c].pri <= d[l].pri
  <2>1. i \in Nat \ {0} /\ size \in Nat /\ \A l \in 1..size - 1 : l # i => d[l] \in Nodes
    BY <1>1, <1>3
  <2> QED BY <1>2, <2>1, MaxChild
<1>5. c \in Slots /\ i \in 1..size - 1 /\ i \in 1..avail - 1
  BY <1>1, <1>4
<1> HIDE DEF c
<1>6. moving \in Nodes /\ moving.pri \in Nat
  <2>1. size # 1
    BY <1>1, <1>5
  <2> QED BY <1>1, <2>1, NodeType DEF TypeOK
<1>7. Slots' = (1..size - 1) \ {c}
  BY <1>1, <1>2 DEF Slots
<1>8. \A k \in Slots' : IF k = i THEN d'[k] = d[c] ELSE k \in Slots /\ d'[k] = d[k]
  <2>1. i \in DOMAIN d /\ \A k \in Slots' : k \in DOMAIN d
    BY <1>1, <1>5, <1>7
  <2> QED BY <1>1, <1>2, <1>7, <2>1
<1>9. TypeOK'
  <2>1. d' \in [1..avail - 1 -> Nodes \cup {NULL}]
    BY <1>1, <1>2, <1>3, <1>5
  <2>2. \A k \in Slots' : d'[k] # NULL
    BY <1>3, <1>5, <1>8, NodeType
  <2>3. i' \in 1..size - 1
    BY <1>1, <1>2, <1>4
  <2> QED BY <1>1, <1>2, <1>6, <2>1, <2>2, <2>3 DEF TypeOK
<1>10. NoneTwice'
  <2>1. c \notin Slots'
    BY <1>7
  <2> QED BY <1>1, <1>2, <1>5, <1>8, <2>1 DEF NoneTwice
<1>11. HeapOrdered'
  <2>1. ASSUME NEW k \in Slots', parent(k) \in Slots'
        PROVE  d'[parent(k)].pri <= d'[k].pri
    <3>1. CASE k = i
      <4>1. parent(i) # i /\ parent(i) # c
        <5>1. i \in Nat \ {0}
          BY <1>1
        <5>2. parent(i) \in Nat /\ parent(i) < i
          BY <5>1, Parent
        <5> QED BY <1>4, <5>1, <5>2
      <4>2. parent(i) \in Slots /\ d'[parent(i)] = d[parent(i)]
        BY <1>8, <2>1, <3>1, <4>1
      <4> QED BY <1>1, <1>4, <1>5, <1>8, <3>1, <4>2 DEF HeapOrdered
    <3>2. CASE k # i /\ parent(k) = i
      <4>1. k \in 1..size - 1 /\ d'[k] = d[k] /\ d'[i] = d[c]
        BY <1>7, <1>8, <2>1, <3>2
      <4> QED BY <1>4, <3>2, <4>1
    <3>3. CASE k # i /\ parent(k) # i
      BY <1>8, <2>1, <3>3 DEF HeapOrdered
    <3> QED BY <3>1, <3>2, <3>3
  <2>2. ASSUME NEW k \in Slots', parent(k) = c
        PROVE  d'[i].pri <= d'[k].pri
    <3>1. k # i
      <4>1. parent(i) # c
        <5>1. i \in Nat \ {0}
          BY <1>1
        <5>2. parent(i) \in Nat /\ parent(i) < i
          BY <5>1, Parent
        <5> QED BY <1>4, <5>1, <5>2
      <4> QED BY <2>2, <4>1
    <3>2. k \in Slots /\ d'[k] = d[k] /\ d'[i] = d[c]
      BY <1>1, <1>2, <1>5, <1>8, <3>1
    <3> QED BY <1>5, <2>2, <3>2 DEF HeapOrdered
  <2>3. d'[i].pri <= moving.pri
    <3>1. d'[i] = d[c]
      BY <1>1, <1>2, <1>5
    <3> QED BY <1>2, <1>3, <1>5, <1>6, <3>1
  <2> QED BY <1>1, <1>2, <1>4, <2>1, <2>2, <2>3 DEF HeapOrdered
<1>12. SavedOrdered' /\ StaleRoot'
  BY <1>1, <1>2 DEF SavedOrdered, StaleRoot
<1> QED BY <1>9, <1>10, <1>11, <1>12

(* The node is written into the hole, and there is no hole any more.       *)
LEMMA PlaceStep ==
    ASSUME HeapInv, Place
    PROVE  HeapInv'
<1> USE DEF HeapInv
<1>1. /\ size \in Nat \ {0} /\ avail \in Nat \ {0} /\ size <= avail
      /\ d \in [1..avail - 1 -> Nodes \cup {NULL}]
      /\ i \in 1..size /\ pc # "ready"
      /\ Slots = (1..size - 1) \ {i}
  BY DEF TypeOK, Place, Slots
<1>2. /\ d' = [d EXCEPT ![i] = moving]
      /\ pc' = "ready" /\ i' = 0 /\ moving' = NULL /\ head' = NULL
      /\ UNCHANGED <<size, avail, saved>>
  BY DEF Place
<1>3. Slots' = 1..size - 1
  BY <1>2 DEF Slots
<1>4. \A k \in Slots : d[k] \in Nodes /\ d[k] # NULL /\ k \in 1..avail - 1
  <2>1. \A k \in Slots : k \in 1..avail - 1
    BY <1>1
  <2> QED BY <1>1, <2>1 DEF TypeOK
<1>5. /\ size > 1 => moving \in Nodes
      /\ moving \in Nodes \cup {NULL}
      /\ moving # NULL /\ i \in 1..size - 1 => moving \in Nodes /\ moving.pri \in Nat
  BY <1>1, NodeType DEF TypeOK
<1>6. \A k \in Slots' : IF k = i THEN d'[k] = moving /\ moving \in Nodes
                                  ELSE k \in Slots /\ d'[k] = d[k]
  <2>1. \A k \in Slots' : k \in DOMAIN d /\ size > 1
    BY <1>1, <1>3
  <2> QED BY <1>1, <1>2, <1>3, <1>5, <2>1
<1>7. TypeOK'
  <2>1. d' \in [1..avail - 1 -> Nodes \cup {NULL}]
    BY <1>1, <1>2, <1>5
  <2>2. \A k \in Slots' : d'[k] # NULL
    BY <1>4, <1>6, NodeType
  <2>3. dst' \in Seq(Ids)
    <3>1. CASE saved = NoCopy
      BY <3>1 DEF Place
    <3>2. CASE saved # NoCopy
      <4>1. head \in Nodes
        BY <1>1, <3>2 DEF TypeOK
      <4>2. head.job \in Ids
        BY <4>1 DEF Nodes, Node
      <4>3. dst' = Append(dst, head.job)
        BY <3>2 DEF Place
      <4> QED BY <4>2, <4>3 DEF TypeOK
    <3> QED BY <3>1, <3>2
  <2> QED BY <1>2, <2>1, <2>2, <2>3 DEF TypeOK
<1>8. NoneTwice'
  BY <1>2, <1>4, <1>6, NodeType DEF NoneTwice
<1>9. HeapOrdered'
  <2> SUFFICES ASSUME NEW k \in Slots', parent(k) \in Slots'
               PROVE  d'[parent(k)].pri <= d'[k].pri
    BY <1>2 DEF HeapOrdered
  <2>1. k \in Nat /\ k >= 1 /\ parent(k) < k
    BY <1>1, <1>3, Parent
  <2>2. CASE k # i /\ parent(k) # i
    BY <1>6, <2>2 DEF HeapOrdered
  <2>3. CASE parent(k) = i
    <3>1. k \in Slots /\ d'[k] = d[k] /\ d'[i] = moving /\ moving \in Nodes
      <4>1. i \in Slots' /\ k # i
        BY <1>1, <2>1, <2>3
      <4> QED BY <1>6, <4>1
    <3>2. CASE pc = "up"
      BY <1>1, <2>3, <3>1, <3>2 DEF HeapOrdered
    <3>3. CASE pc = "down"
      <4>1. i \in Nat \ {0} /\ i < size
        BY <1>1, <1>3, <2>3
      <4>2. /\ maxchild(i) \in Nat /\ maxchild(i) # 0 /\ maxchild(i) < size
            /\ maxchild(i) > i
            /\ d[maxchild(i)].pri <= d[k].pri
        <5>1. 2 * i < size
          <6>1. k = 2 * i \/ k = 2 * i + 1
            BY <2>1, <2>3, <4>1, Parent
          <6> QED BY <1>1, <1>3, <2>1, <4>1, <6>1
        <5>2. \A l \in 1..size - 1 : l # i => d[l] \in Nodes
          BY <1>1, <1>4
        <5> QED BY <1>1, <1>3, <2>3, <4>1, <5>1, <5>2, MaxChild
      <4>3. ~(moving.pri > d[maxchild(i)].pri)
        BY <3>3, <4>2 DEF Place, Sinks, cmp_pri
      <4>4. maxchild(i) \in Slots
        BY <1>1, <4>1, <4>2
      <4>5. moving.pri \in Nat /\ d[maxchild(i)].pri \in Nat /\ d[k].pri \in Nat
        BY <1>4, <3>1, <4>4, NodeType
      <4> QED BY <2>3, <3>1, <4>2, <4>3, <4>5
    <3> QED BY <1>1, <3>2, <3>3 DEF TypeOK
  <2>4. CASE k = i
    <3>1. parent(i) \in Slots /\ d'[parent(i)] = d[parent(i)] /\ d'[i] = moving
          /\ moving \in Nodes /\ i > 1
      <4>1. parent(i) >= 1 /\ parent(i) \in Nat
        BY <1>1, <1>3, <2>4
      <4> QED BY <1>6, <2>1, <2>4, <4>1
    <3>2. CASE pc = "up"
      <4>1. ~(d[parent(i)].pri > moving.pri)
        BY <3>1, <3>2 DEF Place, Rises, cmp_pri
      <4>2. d[parent(i)].pri \in Nat /\ moving.pri \in Nat
        BY <1>4, <3>1, NodeType
      <4> QED BY <2>4, <3>1, <4>1, <4>2
    <3>3. CASE pc = "down"
      BY <2>4, <3>1, <3>3 DEF HeapOrdered
    <3> QED BY <1>1, <3>2, <3>3 DEF TypeOK
  <2> QED BY <2>2, <2>3, <2>4
<1>10. SavedOrdered' /\ StaleRoot'
  BY <1>2 DEF SavedOrdered, StaleRoot
<1> QED BY <1>7, <1>8, <1>9, <1>10

(* What jobq_dump copies is a heap without a hole. *)
LEMMA DumpStartStep ==
    ASSUME HeapInv, jobq_dump
    PROVE  HeapInv'
<1> USE DEF HeapInv
<1>1. /\ size \in 1..avail /\ d \in [1..avail - 1 -> Nodes \cup {NULL}]
      /\ avail \in Nat \ {0}
      /\ pc = "ready" /\ moving = NULL /\ head = NULL
      /\ Slots = 1..size - 1
  BY DEF TypeOK, jobq_dump, Slots
<1>2. /\ saved' = [d |-> d, size |-> size] /\ dst' = <<>>
      /\ UNCHANGED <<d, size, avail, pc, i, moving, head>>
  BY DEF jobq_dump, heap, locals
<1>3. Slots' = Slots
  BY <1>2 DEF Slots
<1>4. TypeOK'
  <2>1. saved' \in [d : [1..avail - 1 -> Nodes \cup {NULL}], size : 1..avail]
    BY <1>1, <1>2
  <2> QED BY <1>1, <1>2, <1>3, <2>1 DEF TypeOK
<1>5. NoneTwice'
  BY <1>2, <1>3 DEF NoneTwice
<1>6. HeapOrdered'
  BY <1>1, <1>2, <1>3 DEF HeapOrdered
<1>7. SavedOrdered'
  <2> SUFFICES ASSUME NEW k \in 1..size - 1
               PROVE  /\ d[k] # NULL
                      /\ k > 1 => d[parent(k)].pri <= d[k].pri
                      /\ \A l \in 1..size - 1 : d[k] = d[l] => k = l
    BY <1>2 DEF SavedOrdered
  <2>1. k > 1 => parent(k) \in 1..size - 1
    <3>1. k \in Nat \ {0} /\ k < size
      BY <1>1
    <3>2. /\ parent(k) \in Nat /\ parent(k) < k
          /\ k = 2 * parent(k) \/ k = 2 * parent(k) + 1
      BY <3>1, Parent
    <3> QED BY <1>1, <3>1, <3>2
  <2> QED BY <1>1, <2>1 DEF TypeOK, NoneTwice, HeapOrdered
<1>8. StaleRoot'
  BY <1>1, <1>2 DEF StaleRoot
<1> QED BY <1>4, <1>5, <1>6, <1>7, <1>8

(* The end of a dump finds the queue as it was. *)
LEMMA DumpEndStep ==
    ASSUME HeapInv, DumpEnd
    PROVE  HeapInv'
<1> USE DEF HeapInv
<1>1. /\ avail \in Nat \ {0}
      /\ pc = "ready" /\ i = 0 /\ moving = NULL /\ head = NULL
      /\ saved # NoCopy
      /\ saved.d \in [1..avail - 1 -> Nodes \cup {NULL}] /\ saved.size \in 1..avail
  BY DEF TypeOK, DumpEnd
<1>2. /\ d' = saved.d /\ size' = saved.size /\ saved' = NoCopy
      /\ UNCHANGED <<avail, dst, pc, i, moving, head>>
  BY DEF DumpEnd, locals
<1>3. Slots' = 1..saved.size - 1
  BY <1>1, <1>2 DEF Slots
<1>4. \A k \in Slots' : d'[k] # NULL
  BY <1>1, <1>2, <1>3 DEF SavedOrdered
<1>5. TypeOK'
  BY <1>1, <1>2, <1>4 DEF TypeOK
<1>6. NoneTwice'
  BY <1>1, <1>2, <1>3, <1>4 DEF NoneTwice, SavedOrdered
<1>7. HeapOrdered'
  <2> SUFFICES ASSUME NEW k \in Slots', parent(k) \in Slots'
               PROVE  d'[parent(k)].pri <= d'[k].pri
    BY <1>1, <1>2 DEF HeapOrdered
  <2>1. k \in Nat \ {0} /\ parent(k) \in Nat /\ parent(k) >= 1 /\ parent(k) < k
    BY <1>1, <1>3, Parent
  <2>2. k > 1
    BY <2>1
  <2> QED BY <1>1, <1>2, <1>3, <2>2 DEF SavedOrdered
<1>8. SavedOrdered' /\ StaleRoot'
  BY <1>1, <1>2 DEF SavedOrdered, StaleRoot
<1> QED BY <1>5, <1>6, <1>7, <1>8

(* Every step preserves the invariant. *)
LEMMA NextHeapInv == HeapInv /\ [Next]_vars => HeapInv'
<1> SUFFICES ASSUME HeapInv, [Next]_vars PROVE HeapInv'
  OBVIOUS
<1>1. CASE \E j \in Ids : jobq_insert_by(j)
  BY <1>1, InsertStep
<1>2. CASE jobq_pop
  BY <1>2, PopStep
<1>3. CASE jobq_dump
  BY <1>3, DumpStartStep
<1>4. CASE DumpEnd
  BY <1>4, DumpEndStep
<1>5. CASE Sift
  BY <1>5, BubbleStep, PercolateStep, PlaceStep DEF Sift
<1>6. CASE UNCHANGED vars
  BY <1>6 DEF vars, heap, locals, HeapInv, TypeOK, NoneTwice, HeapOrdered,
              SavedOrdered, StaleRoot, Slots
<1> QED BY <1>1, <1>2, <1>3, <1>4, <1>5, <1>6 DEF Next

(* The least slot with a node that comes before the root would have one    *)
(* above it that does as well: its parent, or the parent of the hole.      *)
LEMMA HeapRoot ==
    ASSUME HeapInv, pc # "ready" => i # 1
    PROVE  \A k \in Slots : d[1].pri <= d[k].pri
<1> USE DEF HeapInv
<1>1. /\ size \in Nat /\ avail \in Nat /\ size <= avail
      /\ Slots = {k \in 1..size - 1 : pc = "ready" \/ k # i}
      /\ pc = "ready" \/ (i \in Nat /\ i > 1 /\ i <= size)
  BY DEF TypeOK, Slots
<1>2. \A k \in Slots : d[k].pri \in Nat
  <2>1. \A k \in Slots : k \in 1..avail - 1
    BY <1>1
  <2> QED BY <2>1, NodeType DEF TypeOK
<1> DEFINE Bad == {k \in Slots : d[k].pri < d[1].pri}
<1>3. ASSUME Bad # {} PROVE FALSE
  <2>1. Bad \in SUBSET Nat
    BY <1>1
  <2>2. PICK k \in Bad : \A l \in Bad : k <= l
    <3> HIDE DEF Bad
    <3> QED BY <1>3, <2>1, LeastElement
  <2>3. k \in Nat /\ k > 1 /\ k \in Slots /\ 1 \in Slots
    BY <1>1, <1>2, <2>2
  <2>4. /\ parent(k) \in Nat /\ parent(k) < k
        /\ k = 2 * parent(k) \/ k = 2 * parent(k) + 1
    BY <2>3, Parent
  <2>5. PICK l \in Slots : l < k /\ d[l].pri <= d[k].pri
    <3>1. CASE parent(k) \in Slots
      BY <2>3, <2>4, <3>1 DEF HeapOrdered
    <3>2. CASE parent(k) \notin Slots
      <4>1. pc # "ready" /\ parent(k) = i /\ i < size
        BY <1>1, <2>3, <2>4, <3>2
      <4>2. /\ parent(i) \in Nat /\ parent(i) < i
            /\ i = 2 * parent(i) \/ i = 2 * parent(i) + 1
        BY <1>1, <4>1, Parent
      <4>3. parent(i) \in Slots /\ parent(i) < k
        BY <1>1, <2>3, <2>4, <4>1, <4>2
      <4> QED BY <2>3, <4>1, <4>3 DEF HeapOrdered
    <3> QED BY <3>1, <3>2
  <2>6. l \in Bad
    <3>1. d[l].pri \in Nat /\ d[k].pri \in Nat /\ d[1].pri \in Nat
      BY <1>2, <2>3, <2>5
    <3>2. d[k].pri < d[1].pri
      BY <2>2
    <3>3. d[l].pri < d[1].pri
      BY <2>5, <3>1, <3>2
    <3> QED BY <2>5, <3>3
  <2>7. l \in Nat
    BY <1>1, <2>5
  <2> QED BY <2>2, <2>3, <2>5, <2>6, <2>7
<1>4. CASE 1 \in Slots
  BY <1>1, <1>2, <1>3, <1>4
<1>5. CASE 1 \notin Slots
  BY <1>1, <1>5
<1> QED BY <1>4, <1>5

LEMMA HeapRootFirst == HeapInv => RootFirst
BY HeapRoot DEF RootFirst

LEMMA HeapRootNext == HeapInv' => RootFirst'
BY HeapRootFirst, PTL

-----------------------------------------------------------------------------
(* The invariant of the heap, from which the next two follow: the sift     *)
(* loops of pqueue.c keep the array in bounds, complete and ordered at     *)
(* each iteration, not only between operations.                            *)
THEOREM HeapInvariance == Spec => []HeapInv
<1>1. Init => HeapInv
  BY InitHeapInv
<1>2. HeapInv /\ [Next]_vars => HeapInv'
  BY NextHeapInv
<1> QED BY <1>1, <1>2, PTL DEF Spec

(* jobq_peek and jobq_pop return a job no other job of the queue comes     *)
(* before, whatever was inserted, popped and dumped before.                *)
THEOREM PeekReturnsFirst == Spec => []RootFirst
BY HeapRootFirst, HeapInvariance, PTL

-----------------------------------------------------------------------------
(* Refinement.  A step of a sift loop leaves the queue a client sees as it *)
(* is; the write into the hole inserts or pops.                            *)

(* Opening a hole past the last node changes nothing for a client. *)
LEMMA InsertStutters ==
    ASSUME HeapInv, NEW j \in Ids, jobq_insert_by(j)
    PROVE  Queue' = Queue
<1>1. /\ size \in Nat \ {0} /\ avail \in Nat \ {0} /\ size <= avail
      /\ pc = "ready" /\ saved = NoCopy /\ moving = NULL /\ head = NULL
      /\ Slots = 1..size - 1
  BY DEF HeapInv, TypeOK, jobq_insert_by, Slots
<1>2. /\ avail' \in Nat /\ avail' >= avail
      /\ size' = size + 1 /\ i' = size /\ pc' = "up" /\ saved' = NoCopy
      /\ moving' = Node(j) /\ head' = NULL
      /\ d' = [k \in 1..avail' - 1 |-> IF k < avail THEN d[k] ELSE NULL]
  <2>1. step \in Nat \ {0}
    BY PQueueAssumption DEF step
  <2> QED BY <1>1, <2>1 DEF jobq_insert_by, Grow
<1>3. Slots' = Slots
  BY <1>1, <1>2 DEF Slots
<1>4. \A k \in Slots : d'[k] = d[k]
  <2>1. \A a \in Nat : a >= avail =>
           \A k \in 1..size - 1 : k \in 1..a - 1 /\ k < avail
    BY <1>1
  <2> QED BY <1>1, <1>2, <2>1
<1>5. Node(j) \in Nodes /\ Node(j) # NULL /\ Node(j) \notin {d[k] : k \in Slots}
  <2>1. Node(j) \in Nodes
    BY DEF Nodes
  <2> QED BY <1>1, <2>1, NodeType DEF jobq_insert_by, Held
<1>6. Held = {d[k] : k \in Slots} /\ Held' \ {moving'} = {d[k] : k \in Slots}
  BY <1>1, <1>2, <1>3, <1>4, <1>5 DEF Held
<1>7. Slots # {} => d'[1] = d[1]
  BY <1>1, <1>4
<1> QED BY <1>1, <1>2, <1>3, <1>6, <1>7 DEF Queue

(* The node that moves down was taken along by the hole. *)
LEMMA BubbleStutters ==
    ASSUME HeapInv, bubble_up
    PROVE  Queue' = Queue
<1> USE DEF HeapInv
<1> DEFINE p == parent(i)
<1>1. /\ size \in Nat \ {0} /\ avail \in Nat \ {0} /\ size <= avail
      /\ d \in [1..avail - 1 -> Nodes \cup {NULL}]
      /\ pc = "up" /\ saved = NoCopy /\ moving \in Nodes /\ head = NULL
      /\ i \in 1..size - 1 /\ i > 1
      /\ Slots = (1..size - 1) \ {i}
  BY DEF TypeOK, bubble_up, Rises, Slots
<1>2. /\ d' = [d EXCEPT ![i] = d[p]] /\ i' = p
      /\ UNCHANGED <<size, avail, saved, dst, pc, moving, head>>
  BY DEF bubble_up
<1>3. p \in Nat /\ p >= 1 /\ p < i /\ p \in Slots
  <2>1. i \in Nat \ {0} /\ p \in Nat /\ p < i
    BY <1>1, Parent
  <2>2. i = 2 * p \/ i = 2 * p + 1
    BY <2>1, Parent
  <2> HIDE DEF p
  <2> QED BY <1>1, <2>1, <2>2
<1>4. Slots' = (1..size - 1) \ {p}
  BY <1>1, <1>2 DEF Slots
<1> HIDE DEF p
<1>5. i \in Slots' /\ d'[i] = d[p] /\ \A k \in Slots' : k # i => k \in Slots /\ d'[k] = d[k]
  BY <1>1, <1>2, <1>3, <1>4
<1>6. \A k \in Slots : k # p => k \in Slots' /\ d'[k] = d[k]
  BY <1>1, <1>2, <1>4
<1>7. {d'[k] : k \in Slots'} = {d[k] : k \in Slots}
  BY <1>3, <1>5, <1>6
<1>8. Held' \ {moving'} = Held \ {moving}
  BY <1>2, <1>7 DEF Held
<1>9. d'[1] = d[1] /\ Slots # {} /\ Slots' # {}
  <2>1. 1 # i /\ 1 \in 1..avail - 1
    BY <1>1
  <2> QED BY <1>1, <1>2, <1>3, <1>5, <2>1
<1> QED BY <1>1, <1>2, <1>8, <1>9 DEF Queue

(* The write into the hole of an insertion inserts the node, and makes it  *)
(* the head only if it comes strictly before the old one.                  *)
LEMMA PlaceInserts ==
    ASSUME HeapInv, Place, pc = "up"
    PROVE  Abs!Insert
<1> USE DEF HeapInv
<1>1. /\ size \in Nat \ {0} /\ avail \in Nat \ {0} /\ size <= avail
      /\ d \in [1..avail - 1 -> Nodes \cup {NULL}]
      /\ i \in 1..size - 1 /\ saved = NoCopy /\ moving \in Nodes /\ head = NULL
      /\ Slots = (1..size - 1) \ {i}
  BY DEF TypeOK, Slots
<1>2. /\ d' = [d EXCEPT ![i] = moving]
      /\ pc' = "ready" /\ moving' = NULL /\ head' = NULL
      /\ UNCHANGED <<size, avail, saved>>
  BY DEF Place
<1>3. Slots' = Slots \cup {i} /\ i \notin Slots /\ i \in DOMAIN d
  BY <1>1, <1>2 DEF Slots
<1>4. \A k \in Slots : d'[k] = d[k] /\ d[k] \in Nodes
  <2>1. \A k \in Slots : k \in 1..avail - 1
    BY <1>1
  <2> QED BY <1>1, <1>2, <2>1 DEF TypeOK
<1> DEFINE E == {d[k] : k \in Slots}
<1>5. moving \notin E /\ moving # NULL /\ NULL \notin E
  BY <1>1, <1>4, NodeType DEF NoneTwice
<1>6. Queue = [elems |-> E, head |-> IF Slots = {} THEN NULL ELSE d[1]]
  <2>1. Held \ {moving} = E
    BY <1>1, <1>5 DEF Held
  <2> QED BY <1>1, <2>1 DEF Queue
<1>7. Queue' = [elems |-> E \cup {moving}, head |-> d'[1]]
  <2>1. {d'[k] : k \in Slots'} = E \cup {moving}
    BY <1>2, <1>3, <1>4
  <2>2. Held' = E \cup {moving}
    BY <1>2, <2>1 DEF Held
  <2> QED BY <1>1, <1>2, <1>3, <2>2 DEF Queue
<1>8. d'[1] = IF E = {} \/ moving.pri < d[1].pri THEN moving ELSE d[1]
  <2>1. CASE i = 1
    BY <1>2, <1>3, <2>1 DEF StaleRoot
  <2>2. CASE i # 1
    <3>1. 1 \in Slots /\ d'[1] = d[1] /\ E # {}
      BY <1>1, <1>4, <2>2
    <3>2. /\ parent(i) \in Nat /\ parent(i) < i
          /\ i = 2 * parent(i) \/ i = 2 * parent(i) + 1
      <4>1. i \in Nat \ {0}
        BY <1>1
      <4> QED BY <4>1, Parent
    <3>3. parent(i) \in Slots /\ i > 1
      BY <1>1, <2>2, <3>2
    <3>4. ~(d[parent(i)].pri > moving.pri)
      BY <3>3 DEF Place, Rises, cmp_pri
    <3>5. d[1].pri <= d[parent(i)].pri
      BY <2>2, <3>3, HeapRoot
    <3>6. d[1].pri \in Nat /\ d[parent(i)].pri \in Nat /\ moving.pri \in Nat
      BY <1>1, <1>4, <3>1, <3>3, NodeType
    <3> QED BY <3>1, <3>4, <3>5, <3>6
  <2> QED BY <2>1, <2>2
<1>9. E # {} => Slots # {}
  OBVIOUS
<1>10. E = {} => Slots = {}
  OBVIOUS
<1>11. moving \in Nodes \ Queue.elems
  BY <1>1, <1>5, <1>6
<1>12. Queue' = Abs!jobq_insert_by(Queue, moving, "pri")
  <2> HIDE DEF E
  <2>1. Queue.elems = E /\ (E # {} => Queue.head = d[1])
    BY <1>6, <1>9
  <2> QED BY <1>7, <1>8, <2>1 DEF Abs!jobq_insert_by
<1> QED BY <1>11, <1>12 DEF Abs!Insert

(* While jobq_dump works on the copy, the queue is the one it saved. *)
LEMMA DumpingStutters ==
    ASSUME saved # NoCopy, UNCHANGED saved
    PROVE  Queue' = Queue
BY DEF Queue

(* A pop has the root and the last node in its hands; both still count. *)
LEMMA PopHolds ==
    ASSUME HeapInv, jobq_pop
    PROVE  Held' = Held /\ Slots # {} /\ pc' = "down" /\ head' = d[1]
<1>1. /\ size \in Nat /\ size >= 2 /\ avail \in Nat \ {0} /\ size <= avail
      /\ d \in [1..avail - 1 -> Nodes \cup {NULL}]
      /\ pc = "ready" /\ moving = NULL /\ head = NULL
      /\ Slots = 1..size - 1
  BY DEF HeapInv, TypeOK, jobq_pop, Slots
<1>2. /\ head' = d[1] /\ size' = size - 1
      /\ moving' = IF size > 2 THEN d[size - 1] ELSE NULL
      /\ d' = [d EXCEPT ![size - 1] = NULL]
      /\ i' = 1 /\ pc' = "down"
  BY DEF jobq_pop
<1>3. Slots' = 2..size - 2
  <2>1. \A n \in Nat : n >= 1 =>
           {k \in 1..n - 1 : k # 1} = 2..n - 1
    OBVIOUS
  <2>2. Slots' = {k \in 1..size' - 1 : k # 1}
    BY <1>2 DEF Slots
  <2>3. size' \in Nat /\ size' >= 1 /\ size' - 1 = size - 2
    BY <1>1, <1>2
  <2> QED BY <2>1, <2>2, <2>3
<1>4. \A k \in 1..size - 1 : d[k] # NULL /\ k \in DOMAIN d
  <2>1. \A k \in 1..size - 1 : k \in 1..avail - 1
    BY <1>1
  <2> QED BY <1>1, <2>1 DEF HeapInv, TypeOK
<1>5. \A k \in 2..size - 2 : k \in 1..size - 1 /\ d'[k] = d[k]
  BY <1>1, <1>2, <1>4
<1>6. 1 \in 1..size - 1 /\ size - 1 \in 1..size - 1
  BY <1>1
<1>7. \A k \in 1..size - 1 : k = 1 \/ k = size - 1 \/ k \in 2..size - 2
  BY <1>1
<1>8. {moving', head'} \ {NULL} = {d[1], d[size - 1]}
  <2>1. size > 2 \/ size - 1 = 1
    BY <1>1
  <2> QED BY <1>2, <1>4, <1>6, <2>1
<1>9. Held' = {d[k] : k \in 1..size - 1}
  <2>1. Held' = {d[k] : k \in 2..size - 2} \cup {d[1], d[size - 1]}
    BY <1>3, <1>5, <1>8 DEF Held
  <2> QED BY <1>5, <1>6, <1>7, <2>1
<1>10. Held = {d[k] : k \in 1..size - 1}
  BY <1>1 DEF Held
<1>11. Slots # {}
  BY <1>1, <1>6
<1> QED BY <1>2, <1>9, <1>10, <1>11

(* So a client sees the queue it saw before. *)
LEMMA PopStutters ==
    ASSUME HeapInv, jobq_pop, saved = NoCopy
    PROVE  Queue' = Queue
<1>1. pc = "ready" /\ saved' = NoCopy
  BY DEF jobq_pop
<1> QED BY <1>1, PopHolds DEF Queue

(* The node that moves up was taken along by the hole. *)
LEMMA PercolateHolds ==
    ASSUME HeapInv, percolate_down
    PROVE  Held' = Held
<1> USE DEF HeapInv
<1> DEFINE c == maxchild(i)
<1>1. /\ size \in Nat \ {0} /\ avail \in Nat \ {0} /\ size <= avail
      /\ d \in [1..avail - 1 -> Nodes \cup {NULL}]
      /\ pc = "down" /\ i \in 1..size
      /\ Slots = (1..size - 1) \ {i}
  BY DEF TypeOK, percolate_down, Slots
<1>2. /\ d' = [d EXCEPT ![i] = d[c]] /\ i' = c /\ c # 0
      /\ UNCHANGED <<size, avail, saved, dst, pc, moving, head>>
  BY DEF percolate_down, Sinks
<1>3. c \in Nat /\ c < size /\ c > i
  <2>1. i \in Nat \ {0} /\ size \in Nat /\ \A l \in 1..size - 1 : l # i => d[l] \in Nodes
    <3>1. \A l \in Slots : l \in 1..avail - 1
      BY <1>1
    <3> QED BY <1>1, <3>1 DEF TypeOK
  <2> QED BY <1>2, <2>1, MaxChild
<1> HIDE DEF c
<1>4. c \in Slots /\ i \in 1..avail - 1
  BY <1>1, <1>3
<1>5. Slots' = (1..size - 1) \ {c}
  BY <1>1, <1>2 DEF Slots
<1>6. i \in Slots' /\ d'[i] = d[c] /\ \A k \in Slots' : k # i => k \in Slots /\ d'[k] = d[k]
  BY <1>1, <1>2, <1>3, <1>4, <1>5
<1>7. \A k \in Slots : k # c => k \in Slots' /\ d'[k] = d[k]
  BY <1>1, <1>2, <1>5
<1>8. {d'[k] : k \in Slots'} = {d[k] : k \in Slots}
  BY <1>4, <1>6, <1>7
<1> QED BY <1>2, <1>8 DEF Held

(* So a client sees the queue it saw before. *)
LEMMA PercolateStutters ==
    ASSUME HeapInv, percolate_down, saved = NoCopy
    PROVE  Queue' = Queue
<1>1. pc = "down" /\ UNCHANGED <<saved, pc, head>>
  BY DEF percolate_down
<1> QED BY <1>1, PercolateHolds DEF Queue

(* The write into the hole of a pop takes the head out of the heap. *)
LEMMA PlaceHolds ==
    ASSUME HeapInv, Place, pc = "down"
    PROVE  /\ Held = Held' \cup {head} /\ head \notin Held'
           /\ Held' = {d'[k] : k \in Slots'} /\ Slots' = 1..size - 1
<1>1. /\ size \in Nat \ {0} /\ avail \in Nat \ {0} /\ size <= avail
      /\ d \in [1..avail - 1 -> Nodes \cup {NULL}]
      /\ i \in 1..size /\ head \in Nodes /\ head # NULL
      /\ Slots = (1..size - 1) \ {i}
  BY NodeType DEF HeapInv, TypeOK, Slots
<1>2. /\ d' = [d EXCEPT ![i] = moving]
      /\ pc' = "ready" /\ moving' = NULL /\ head' = NULL
      /\ UNCHANGED <<size, avail, saved>>
  BY DEF Place
<1>3. Slots' = 1..size - 1
  BY <1>2 DEF Slots
<1>4. \A k \in Slots : d'[k] = d[k]
  <2>1. \A k \in Slots : k \in 1..avail - 1
    BY <1>1
  <2> QED BY <1>1, <1>2, <2>1
<1> DEFINE E == {d'[k] : k \in Slots'}
<1>5. Held' = E
  BY <1>2 DEF Held
<1>6. Held = E \cup {head} /\ head \notin E
  <2>1. CASE moving = NULL
    <3>1. size = 1 /\ Slots = {} /\ Slots' = {}
      BY <1>1, <1>3, <2>1, NodeType DEF HeapInv, TypeOK
    <3>2. E = {}
      BY <3>1
    <3>3. Held = {head}
      <4>1. {d[k] : k \in Slots} = {}
        BY <3>1
      <4>2. {moving, head} \ {NULL} = {head}
        BY <1>1, <2>1
      <4> QED BY <4>1, <4>2 DEF Held
    <3> HIDE DEF E
    <3> QED BY <3>2, <3>3
  <2>2. CASE moving # NULL
    <3>1. i \in 1..size - 1
      BY <1>1, <2>2 DEF HeapInv, TypeOK
    <3>2. Slots' = Slots \cup {i} /\ d'[i] = moving
      BY <1>1, <1>2, <1>3, <3>1
    <3>3. E = {d[k] : k \in Slots} \cup {moving}
      BY <1>4, <3>2
    <3>4. Held = E \cup {head}
      BY <1>1, <2>2, <3>3 DEF Held
    <3>5. head \notin E
      BY <2>2, <3>3 DEF HeapInv, NoneTwice
    <3> QED BY <3>4, <3>5
  <2> QED BY <2>1, <2>2
<1> QED BY <1>3, <1>5, <1>6

(* A first job of the rest is at the root then. *)
LEMMA PlacePops ==
    ASSUME HeapInv, Place, pc = "down", saved = NoCopy
    PROVE  Abs!Pop
<1>1. pc' = "ready" /\ saved' = NoCopy /\ size \in Nat \ {0}
  BY DEF Place, HeapInv, TypeOK
<1> DEFINE E == {d'[k] : k \in Slots'}
<1>5. HeapInv'
  BY NextHeapInv DEF Next, Sift
<1>6. Queue' = [elems |-> E, head |-> IF Slots' = {} THEN NULL ELSE d'[1]]
  BY <1>1, PlaceHolds DEF Queue
<1>7. Queue = [elems |-> E \cup {head}, head |-> head] /\ head \notin E
  BY PlaceHolds DEF Queue
<1>8. Slots' # {} => d'[1] \in E /\ \A n \in E : d'[1].pri <= n.pri
  <2>1. Slots' # {} => 1 \in Slots'
    BY <1>1, PlaceHolds
  <2>2. \A k \in Slots' : d'[1].pri <= d'[k].pri
    <3>1. RootFirst'
      BY <1>5, HeapRootNext
    <3> QED BY <1>1, <3>1 DEF RootFirst
  <2> QED BY <2>1, <2>2
<1>9. E = {} <=> Slots' = {}
  OBVIOUS
<1> HIDE DEF E
<1>10. Queue.elems \ {Queue.head} = E /\ Queue.elems # {}
  BY <1>7
<1>11. Queue' \in Abs!jobq_pop(Queue, "pri")
  BY <1>6, <1>8, <1>9, <1>10 DEF Abs!jobq_pop, Abs!jobq_init, Abs!Firsts
<1> QED BY <1>10, <1>11 DEF Abs!Pop

(* jobq_dump starts and ends with the queue it copied. *)
LEMMA DumpStutters ==
    ASSUME HeapInv, jobq_dump \/ DumpEnd
    PROVE  Queue' = Queue
<1>1. CASE jobq_dump
  <2>1. /\ pc = "ready" /\ saved = NoCopy /\ moving = NULL /\ head = NULL
        /\ Slots = 1..size - 1 /\ size \in Nat
    BY <1>1 DEF HeapInv, TypeOK, jobq_dump, Slots
  <2>2. saved' = [d |-> d, size |-> size] /\ saved' # NoCopy
    <3>1. saved' = [d |-> d, size |-> size]
      BY <1>1 DEF jobq_dump
    <3>2. size # 0
      BY <1>1 DEF HeapInv, TypeOK
    <3> QED BY <3>1, <3>2 DEF NoCopy
  <2>3. Held = {d[k] : k \in 1..size - 1}
    BY <2>1 DEF Held
  <2>4. Slots = {} <=> ~(size > 1)
    BY <2>1
  <2> QED BY <2>1, <2>2, <2>3, <2>4 DEF Queue
<1>2. CASE DumpEnd
  <2>1. /\ pc' = "ready" /\ saved' = NoCopy /\ moving' = NULL /\ head' = NULL
        /\ saved # NoCopy /\ d' = saved.d /\ size' = saved.size
        /\ saved.size \in Nat
    BY <1>2 DEF HeapInv, TypeOK, DumpEnd, locals
  <2>2. Slots' = 1..saved.size - 1
    BY <2>1 DEF Slots
  <2>3. Held' = {saved.d[k] : k \in 1..saved.size - 1}
    BY <2>1, <2>2 DEF Held
  <2>4. Slots' = {} <=> ~(saved.size > 1)
    <3>1. \A n \in Nat : 1..n - 1 = {} <=> ~(n > 1)
      OBVIOUS
    <3> QED BY <2>1, <2>2, <3>1
  <2> QED BY <2>1, <2>2, <2>3, <2>4 DEF Queue
<1> QED BY <1>1, <1>2

(* The heap implements the queue of JobQ: pops give the jobs in the order  *)
(* of their priorities, and what the event loop and the generator are      *)
(* modelled with is what pqueue.c provides.                                *)
THEOREM HeapImplementsQueue == Spec => ImplementsQueue
<1>1. Init => Abs!Init
  <2> SUFFICES ASSUME Init PROVE Abs!Init
    OBVIOUS
  <2>1. Slots = {} /\ Held = {}
    BY DEF Init, Slots, Held
  <2> QED BY <2>1 DEF Init, Queue, Abs!Init, Abs!jobq_init
<1>2. HeapInv /\ [Next]_vars => [Abs!Insert \/ Abs!Pop]_Queue
  <2> SUFFICES ASSUME HeapInv, [Next]_vars
               PROVE  Abs!Insert \/ Abs!Pop \/ Queue' = Queue
    OBVIOUS
  <2>1. CASE \E j \in Ids : jobq_insert_by(j)
    BY <2>1, InsertStutters
  <2>2. CASE jobq_dump \/ DumpEnd
    BY <2>2, DumpStutters
  <2>3. CASE saved # NoCopy /\ (jobq_pop \/ Sift)
    <3>1. UNCHANGED saved
      BY <2>3 DEF jobq_pop, Sift, bubble_up, percolate_down, Place
    <3> QED BY <2>3, <3>1, DumpingStutters
  <2>4. CASE saved = NoCopy /\ jobq_pop
    BY <2>4, PopStutters
  <2>5. CASE saved = NoCopy /\ bubble_up
    BY <2>5, BubbleStutters
  <2>6. CASE saved = NoCopy /\ percolate_down
    BY <2>6, PercolateStutters
  <2>7. CASE saved = NoCopy /\ Place
    <3>1. pc = "up" \/ pc = "down"
      BY <2>7 DEF Place
    <3> QED BY <2>7, <3>1, PlaceInserts, PlacePops
  <2>8. CASE UNCHANGED vars
    BY <2>8 DEF vars, heap, locals, Queue, Held, Slots
  <2> QED BY <2>1, <2>2, <2>3, <2>4, <2>5, <2>6, <2>7, <2>8 DEF Next, Sift
<1> QED BY <1>1, <1>2, HeapInvariance, PTL DEF Spec, ImplementsQueue, Abs!Spec
-----------------------------------------------------------------------------
(* jobq_dump.  The pops of the copy move one node at a time from Held to   *)
(* the end of dst, and each is a first one of those left.                  *)

(* Popping the copy moves a first node into head and keeps the rest. *)
LEMMA PopDumpInv ==
    ASSUME HeapInv, DumpInv, jobq_pop
    PROVE  DumpInv'
<1>1. CASE saved = NoCopy
  <2>1. saved' = NoCopy /\ dst' = <<>>
    BY <1>1 DEF jobq_pop
  <2> QED BY <2>1 DEF DumpInv
<1>2. CASE saved # NoCopy
  <2>1. /\ UNCHANGED <<saved, dst>> /\ size' = size - 1 /\ pc = "ready"
    BY <1>2 DEF jobq_pop
  <2>2. Held' = Held /\ pc' = "down" /\ head' = d[1] /\ Dumped' = Dumped
    BY <2>1, PopHolds DEF Dumped
  <2>3. \A m \in Held : d[1].pri <= m.pri
    <3>1. Held = {d[k] : k \in Slots}
      BY <2>1 DEF HeapInv, TypeOK, Held
    <3> QED BY <2>1, <3>1, HeapRootFirst DEF RootFirst
  <2>4. Len(dst) + size' = saved.size - 1
    <3>1. Len(dst) \in Nat /\ size \in Nat /\ saved.size \in Nat
      BY <1>2 DEF HeapInv, TypeOK
    <3> QED BY <1>2, <2>1, <3>1 DEF DumpInv
  <2> QED BY <1>2, <2>1, <2>2, <2>3, <2>4 DEF DumpInv
<1> QED BY <1>1, <1>2

(* The write into the hole appends the head, which comes after all before. *)
LEMMA PlaceDumpInv ==
    ASSUME HeapInv, DumpInv, Place
    PROVE  DumpInv'
<1>1. CASE saved = NoCopy
  <2>1. saved' = NoCopy /\ dst' = <<>>
    BY <1>1 DEF Place
  <2> QED BY <2>1 DEF DumpInv
<1>2. CASE saved # NoCopy
  <2>1. /\ pc = "down" /\ pc' = "ready" /\ UNCHANGED <<saved, size>>
        /\ dst' = Append(dst, head.job) /\ head \in Nodes /\ dst \in Seq(Ids)
        /\ saved.size \in Nat /\ size \in Nat
    BY <1>2 DEF Place, HeapInv, TypeOK
  <2>2. Held = Held' \cup {head}
    BY <2>1, PlaceHolds
  <2>3. head.job \in Ids /\ Node(head.job) = head
    BY <2>1 DEF Nodes, Node
  <2>4. /\ Len(dst) \in Nat /\ DOMAIN dst = 1..Len(dst)
        /\ DOMAIN dst' = 1..Len(dst) + 1 /\ Len(dst') = Len(dst) + 1
        /\ \A k \in DOMAIN dst : dst'[k] = dst[k]
        /\ dst'[Len(dst) + 1] = head.job
    BY <2>1, <2>3
  <2>5. Dumped' = Dumped \cup {head}
    <3>1. \A k : k \in DOMAIN dst' <=> k \in DOMAIN dst \/ k = Len(dst) + 1
      BY <2>4
    <3> QED BY <2>3, <2>4, <3>1 DEF Dumped, Node
  <2>6. \A n \in Dumped : n.pri <= head.pri
    BY <1>2, <2>2 DEF DumpInv
  <2>7. \A k, l \in DOMAIN dst' :
           k < l => Node(dst'[k]).pri <= Node(dst'[l]).pri
    <3> SUFFICES ASSUME NEW k \in DOMAIN dst', NEW l \in DOMAIN dst', k < l
                 PROVE  Node(dst'[k]).pri <= Node(dst'[l]).pri
      BY DEF Node
    <3>1. k \in DOMAIN dst /\ dst'[k] = dst[k] /\ Node(dst[k]) \in Dumped
      BY <2>4 DEF Dumped
    <3>2. CASE l \in DOMAIN dst
      BY <2>4, <3>1, <3>2 DEF DumpInv
    <3>3. CASE l = Len(dst) + 1
      BY <2>3, <2>4, <2>6, <3>1, <3>3
    <3> QED BY <2>4, <3>2, <3>3
  <2>8. \A n \in Dumped', m \in Held' : n.pri <= m.pri
    BY <1>2, <2>1, <2>2, <2>5 DEF DumpInv
  <2>9. Dumped' \cup Held' = {saved.d[k] : k \in 1..saved.size - 1}
    BY <1>2, <2>2, <2>5 DEF DumpInv
  <2>10. Len(dst') + size = saved.size
    <3>1. Len(dst) + size = saved.size - 1
      BY <1>2, <2>1 DEF DumpInv
    <3>2. \A m, n, o \in Nat : m + n = o - 1 => (m + 1) + n = o
      OBVIOUS
    <3> QED BY <2>1, <2>4, <3>1, <3>2
  <2> QED BY <1>2, <2>1, <2>7, <2>8, <2>9, <2>10 DEF DumpInv, Node
<1> QED BY <1>1, <1>2

(* A copy is popped from when it holds all, and freed when it holds none. *)
LEMMA NextDumpInv ==
    ASSUME HeapInv, DumpInv, [Next]_vars
    PROVE  DumpInv'
<1>1. ASSUME NEW j \in Ids, jobq_insert_by(j)
      PROVE  DumpInv'
  <2>1. saved' = NoCopy /\ dst' = <<>>
    BY <1>1 DEF jobq_insert_by
  <2> QED BY <2>1 DEF DumpInv
<1>2. CASE jobq_pop
  BY <1>2, PopDumpInv
<1>3. CASE jobq_dump
  <2>1. /\ pc = "ready" /\ saved' = [d |-> d, size |-> size] /\ dst' = <<>>
        /\ UNCHANGED <<heap, locals>>
    BY <1>3 DEF jobq_dump
  <2>2. Held' = Held /\ Held = {d[k] : k \in 1..size - 1} /\ Dumped' = {}
    BY <2>1 DEF Held, Slots, heap, locals, Dumped, HeapInv, TypeOK
  <2>3. Len(dst') + size' = size /\ size # 0 /\ pc' = "ready"
    BY <2>1 DEF heap, locals, HeapInv, TypeOK
  <2>4. saved' # NoCopy
    BY <2>1, <2>3 DEF NoCopy
  <2>5. saved'.size = size /\ saved'.d = d /\ size \in Nat
    BY <2>1 DEF HeapInv, TypeOK
  <2>6. DOMAIN dst' = {}
    BY <2>1
  <2> QED BY <2>1, <2>2, <2>3, <2>4, <2>5, <2>6 DEF DumpInv, Node
<1>4. CASE DumpEnd
  <2>1. /\ pc = "ready" /\ saved # NoCopy /\ size = 1 /\ d' = saved.d
        /\ size' = saved.size /\ saved' = NoCopy
        /\ UNCHANGED <<dst, pc, i, moving, head>>
        /\ moving = NULL /\ head = NULL
    BY <1>4 DEF DumpEnd, locals, HeapInv, TypeOK
  <2>2. Slots = {} /\ Held = {} /\ Dumped' = Dumped
    BY <2>1 DEF Slots, Held, Dumped
  <2>3. Slots' = 1..saved.size - 1
    BY <2>1 DEF Slots
  <2>4. Held' = {saved.d[k] : k \in 1..saved.size - 1}
    BY <2>1, <2>3 DEF Held
  <2>5. Len(dst) = saved.size - 1
    <3>1. Len(dst) \in Nat /\ saved.size \in Nat
      BY <2>1 DEF HeapInv, TypeOK
    <3> QED BY <2>1, <3>1 DEF DumpInv
  <2> QED BY <2>1, <2>2, <2>4, <2>5 DEF DumpInv
<1>5. CASE bubble_up
  <2>1. saved = NoCopy /\ dst = <<>> /\ UNCHANGED <<saved, dst>>
    BY <1>5 DEF bubble_up, HeapInv, TypeOK, DumpInv
  <2> QED BY <2>1 DEF DumpInv
<1>6. CASE percolate_down
  <2>1. UNCHANGED <<size, saved, dst, pc, head>> /\ Dumped' = Dumped
    BY <1>6 DEF percolate_down, Dumped
  <2> QED BY <1>6, <2>1, PercolateHolds DEF DumpInv
<1>7. CASE Place
  BY <1>7, PlaceDumpInv
<1>8. CASE UNCHANGED vars
  <2>1. UNCHANGED <<d, size, saved, dst, pc, i, moving, head>>
    BY <1>8 DEF vars, heap, locals
  <2>2. Held' = Held /\ Dumped' = Dumped
    BY <2>1 DEF Dumped, Held, Slots
  <2> QED BY <2>1, <2>2 DEF DumpInv, Node
<1> QED BY <1>1, <1>2, <1>3, <1>4, <1>5, <1>6, <1>7, <1>8 DEF Next, Sift

(* What jobq_dump returns: every job of the queue, in the order its pops   *)
(* would give them, however many jobs there are and however they tie.      *)
THEOREM DumpIsSorted == Spec => []DumpSorted
<1>1. Init => DumpInv
  BY DEF Init, DumpInv
<1>2. HeapInv /\ DumpInv /\ [Next]_vars => DumpInv'
  BY NextDumpInv
<1>3. DumpInv => DumpSorted
  BY DEF DumpInv, DumpSorted
<1> QED BY <1>1, <1>2, <1>3, HeapInvariance, PTL DEF Spec
=============================================================================
