---------------------------- MODULE SEListProofs ----------------------------
(***************************************************************************)
(* Proofs about the unrolled list: its nodes stay filled, the clearing     *)
(* leaves nothing, and whatever is moved between nodes, the list is the    *)
(* sequence of its elements.                                               *)
(***************************************************************************)
EXTENDS SEList, SequenceLemmas

(* The elements before a node, and the elements of all nodes, counted.     *)
LEMMA BeforeCounts ==
    ASSUME NEW E, NEW s \in Seq(Seq(E))
    PROVE  /\ Before(s, 1) = 0
           /\ Before(s, Len(s) + 1) = selist_length(s)
           /\ selist_length(s) \in Nat
           /\ \A k \in 1..Len(s) :
                /\ Before(s, k) = Len(Pre(s, k))
                /\ Before(s, k) \in Nat
                /\ Len(s[k]) \in Nat
                /\ Before(s, k + 1) = Before(s, k) + Len(s[k])
                /\ selist_length(s) = Before(s, k + 1) + Len(Post(s, k))
                /\ Before(s, k + 1) <= selist_length(s)
<1>1. Before(s, 1) = 0
  <2>1. Pre(s, 1) = <<>>
    BY PreFirst
  <2> QED BY <2>1 DEF Before, selist_length, Pre
<1>2. Before(s, Len(s) + 1) = selist_length(s)
  <2>1. SubSeq(s, 1, (Len(s) + 1) - 1) = s
    BY LenProperties, SubSeqFull
  <2> QED BY <2>1 DEF Before
<1>3. selist_length(s) \in Nat
  BY FlattenType, LenProperties DEF selist_length
<1>4. ASSUME NEW k \in 1..Len(s)
      PROVE  /\ Before(s, k) = Len(Pre(s, k))
             /\ Before(s, k) \in Nat
             /\ Len(s[k]) \in Nat
             /\ Before(s, k + 1) = Before(s, k) + Len(s[k])
             /\ selist_length(s) = Before(s, k + 1) + Len(Post(s, k))
             /\ Before(s, k + 1) <= selist_length(s)
  <2>1. /\ s[k] \in Seq(E) /\ Pre(s, k) \in Seq(E) /\ Post(s, k) \in Seq(E)
        /\ FlattenSeq(s) = (Pre(s, k) \o s[k]) \o Post(s, k)
    BY FlattenAt
  <2>2. /\ Row(FlattenSeq(s), Pre(s, k), s[k], Post(s, k))
        /\ Len(Pre(s, k)) \in Nat /\ Len(s[k]) \in Nat
        /\ Len(Post(s, k)) \in Nat
    BY <2>1, RowOfThree, LenProperties
  <2>3. Before(s, k) = Len(Pre(s, k))
    BY DEF Before, selist_length, Pre
  <2>4. Before(s, k + 1) = Len(Pre(s, k)) + Len(s[k])
    <3>1. Pre(s, k + 1) = Pre(s, k) \o s[k]
      BY PreNext
    <3>2. Joins(Pre(s, k) \o s[k], Pre(s, k), s[k])
      BY <2>1, Joining
    <3>3. Before(s, k + 1) = Len(Pre(s, k + 1))
      BY DEF Before, selist_length, Pre
    <3> QED BY <3>1, <3>2, <3>3 DEF Joins
  <2> QED BY <2>2, <2>3, <2>4 DEF Row, selist_length
<1> QED BY <1>1, <1>2, <1>3, <1>4

(* NodeAt finds the node of a position, and nothing for a position beyond  *)
(* the end.                                                                *)
LEMMA NodeFound ==
    ASSUME NEW E, NEW s \in Seq(Seq(E)), NEW i \in Nat
    PROVE  /\ i >= selist_length(s) => NodeAt(s, i) = 0
           /\ i < selist_length(s) =>
                /\ NodeAt(s, i) \in 1..Len(s)
                /\ Before(s, NodeAt(s, i)) <= i
                /\ i < Before(s, NodeAt(s, i)) + Len(s[NodeAt(s, i)])
<1> DEFINE sums == [k \in DOMAIN s |-> Before(s, k + 1)]
           I == {k \in 1..Len(s) : i < Before(s, k + 1)}
<1>0. Len(s) \in Nat /\ DOMAIN s = 1..Len(s)
  BY LenProperties
<1>1. NodeAt(s, i) = IF I # {} THEN Min(I) ELSE 0
  <2>1. /\ Len(sums) = Len(s)
        /\ \A k \in 1..Len(s) : sums[k] = Before(s, k + 1)
    <3>1. sums = [k \in 1..Len(s) |-> Before(s, k + 1)]
      BY <1>0
    <3> HIDE DEF sums
    <3> QED BY <1>0, <3>1
  <2>2. {k \in 1..Len(sums) : i < sums[k]} = I
    BY <2>1
  <2>3. NodeAt(s, i) = IF {k \in 1..Len(sums) : i < sums[k]} # {}
                       THEN Min({k \in 1..Len(sums) : i < sums[k]}) ELSE 0
    BY DEF NodeAt, SelectInSeq
  <2> HIDE DEF sums, I
  <2> QED BY <2>2, <2>3
<1>2. CASE i >= selist_length(s)
  <2>1. I = {}
    <3> SUFFICES ASSUME NEW k \in 1..Len(s), i < Before(s, k + 1)
                 PROVE  FALSE
      OBVIOUS
    <3>1. /\ Before(s, k + 1) = Before(s, k) + Len(s[k])
          /\ Before(s, k) \in Nat /\ Len(s[k]) \in Nat
          /\ Before(s, k + 1) <= selist_length(s)
          /\ selist_length(s) \in Nat
      BY BeforeCounts
    <3> QED BY <1>2, <3>1
  <2> QED BY <1>1, <1>2, <2>1, BeforeCounts
<1>3. CASE i < selist_length(s)
  <2>1. Len(s) # 0
    <3> SUFFICES ASSUME Len(s) = 0 PROVE FALSE
      OBVIOUS
    <3>1. Before(s, 0 + 1) = selist_length(s) /\ Before(s, 1) = 0
      BY BeforeCounts
    <3> QED BY <1>3, <3>1
  <2>2. Len(s) \in I
    <3>1. Before(s, Len(s) + 1) = selist_length(s)
      BY BeforeCounts
    <3> QED BY <1>0, <1>3, <2>1, <3>1
  <2>3. PICK k \in I : \A j \in I : k <= j
    <3>1. I \in SUBSET Nat
      OBVIOUS
    <3> HIDE DEF I
    <3> QED BY <2>2, <3>1, LeastElement
  <2>4. Min(I) \in I /\ \A j \in I : Min(I) <= j
    BY <2>3 DEF Min
  <2>5. NodeAt(s, i) = Min(I)
    <3> HIDE DEF I
    <3> QED BY <1>1, <2>2
  <2> DEFINE n == NodeAt(s, i)
  <2>6. n \in 1..Len(s) /\ i < Before(s, n + 1)
    BY <2>4, <2>5
  <2>7. \A j \in 1..Len(s) : j < n => Before(s, j + 1) <= i
    <3> SUFFICES ASSUME NEW j \in 1..Len(s), j < n,
                        ~(Before(s, j + 1) <= i)
                 PROVE  FALSE
      OBVIOUS
    <3>1. /\ Before(s, j + 1) = Before(s, j) + Len(s[j])
          /\ Before(s, j) \in Nat /\ Len(s[j]) \in Nat
      BY BeforeCounts
    <3>2. j \in I
      BY <3>1
    <3> QED BY <1>0, <2>4, <2>5, <2>6, <3>2
  <2> HIDE DEF n
  <2>8. Before(s, n) <= i
    <3>1. CASE n = 1
      <4>1. Before(s, 1) = 0
        BY BeforeCounts
      <4> QED BY <3>1, <4>1
    <3>2. CASE n # 1
      <4>1. n - 1 \in 1..Len(s) /\ n - 1 < n /\ (n - 1) + 1 = n
        BY <1>0, <2>6, <3>2
      <4>2. Before(s, (n - 1) + 1) <= i
        BY <2>7, <4>1
      <4> QED BY <4>1, <4>2
    <3> QED BY <3>1, <3>2
  <2>9. Before(s, n + 1) = Before(s, n) + Len(s[n])
    BY <2>6, BeforeCounts
  <2>10. i < Before(s, n) + Len(s[n])
    BY <2>6, <2>9
  <2>11. ~(i >= selist_length(s))
    BY <1>3, BeforeCounts
  <2> QED BY <2>6, <2>8, <2>10, <2>11 DEF n
<1> QED BY <1>2, <1>3, BeforeCounts

(* The node that gives its first element to the one before it: together    *)
(* they hold what they held.                                               *)
Moves(p, a, b) == (p \o Append(a, b[1])) \o Tail(b) = (p \o a) \o b

LEMMA MoveFirst ==
    ASSUME NEW E, NEW p \in Seq(E), NEW a \in Seq(E), NEW b \in Seq(E),
           b # <<>>
    PROVE  Moves(p, a, b)
<1> DEFINE v == (p \o Append(a, b[1])) \o Tail(b)
           w == (p \o a) \o b
           c == Append(a, b[1])
           d == Tail(b)
<1>1. Len(p) \in Nat /\ Len(a) \in Nat /\ Len(b) \in Nat /\ Len(b) # 0
  BY EmptySeq, LenProperties
<1>2. /\ c \in Seq(E) /\ Len(c) = Len(a) + 1 /\ c[Len(a) + 1] = b[1]
      /\ \A m \in 1..Len(a) : c[m] = a[m]
  <2>1. b[1] \in E
    BY <1>1
  <2> QED BY <2>1, AppendProperties
<1>3. /\ d \in Seq(E) /\ Len(d) = Len(b) - 1
      /\ \A m \in 1..Len(b)-1 : d[m] = b[m + 1]
  BY HeadTailProperties
<1>4. w \in Seq(E) /\ Row(w, p, a, b)
  BY RowOfThree
<1>5. v \in Seq(E) /\ Row(v, p, c, d)
  <2> HIDE DEF c, d
  <2>1. (p \o c) \o d \in Seq(E) /\ Row((p \o c) \o d, p, c, d)
    BY <1>2, <1>3, RowOfThree
  <2> QED BY <2>1 DEF c, d
<1> HIDE DEF c, d, v, w
<1>6. /\ Len(v) = Len(p) + Len(a) + Len(b) /\ Len(w) = Len(v)
  BY <1>1, <1>2, <1>3, <1>4, <1>5 DEF Row
<1>7. ASSUME NEW m \in 1..Len(v) PROVE v[m] = w[m]
  <2>1. CASE m <= Len(p)
    <3>1. m \in 1..Len(p)
      BY <2>1
    <3> QED BY <1>4, <1>5, <3>1 DEF Row
  <2>2. CASE Len(p) < m /\ m <= Len(p) + Len(a)
    <3>1. PICK k \in 1..Len(a) : m = Len(p) + k
      <4>1. m - Len(p) \in 1..Len(a) /\ m = Len(p) + (m - Len(p))
        BY <1>1, <2>2
      <4> QED BY <4>1
    <3>2. k \in 1..Len(c)
      BY <1>1, <1>2
    <3>3. w[m] = a[k]
      BY <1>4, <3>1 DEF Row
    <3>4. v[m] = c[k]
      BY <1>5, <3>1, <3>2 DEF Row
    <3> QED BY <1>2, <3>3, <3>4
  <2>3. CASE m = Len(p) + Len(a) + 1
    <3>1. /\ 1 \in 1..Len(b) /\ Len(a) + 1 \in 1..Len(c)
          /\ m = Len(p) + (Len(a) + 1)
      BY <1>1, <1>2, <2>3
    <3>2. w[m] = b[1]
      BY <1>4, <2>3, <3>1 DEF Row
    <3>3. v[m] = c[Len(a) + 1]
      BY <1>5, <3>1 DEF Row
    <3> QED BY <1>2, <3>2, <3>3
  <2>4. CASE m > Len(p) + Len(a) + 1
    <3>1. PICK k \in 1..Len(b)-1 : m = Len(p) + Len(a) + 1 + k
      <4> DEFINE k == m - (Len(p) + Len(a) + 1)
      <4>1. k \in 1..Len(b)-1 /\ m = Len(p) + Len(a) + 1 + k
        BY <1>1, <1>6, <2>4
      <4> QED BY <4>1
    <3>2. /\ k + 1 \in 1..Len(b) /\ k \in 1..Len(d)
          /\ m = Len(p) + Len(a) + (k + 1) /\ m = Len(p) + Len(c) + k
      BY <1>1, <1>2, <1>3, <3>1
    <3>3. w[m] = b[k + 1]
      BY <1>4, <3>2 DEF Row
    <3>4. v[m] = d[k]
      BY <1>5, <3>2 DEF Row
    <3> QED BY <1>3, <3>3, <3>4
  <2> QED BY <1>1, <1>6, <2>1, <2>2, <2>3, <2>4
<1>8. v = w
  BY <1>4, <1>5, <1>6, <1>7, SeqEqual
<1> QED BY <1>8 DEF v, w, c, d, Moves

(* Filling a node up from the next moves elements and loses none.          *)
LEMMA RefillKeeps ==
    ASSUME NEW E, NEW s \in Seq(Seq(E)), NEW k \in 1..Len(s)-1,
           s[k + 1] # <<>>
    PROVE  /\ Refill(s, k) \in Seq(Seq(E))
           /\ FlattenSeq(Refill(s, k)) = FlattenSeq(s)
<1> DEFINE a == s[k]
           b == s[k + 1]
           p == Pre(s, k)
           q == Post(s, k + 1)
<1>1. /\ Len(s) \in Nat /\ k \in 1..Len(s) /\ k + 1 \in 1..Len(s)
      /\ k \in Nat /\ k # k + 1
  BY LenProperties
<1>2. /\ a \in Seq(E) /\ b \in Seq(E) /\ p \in Seq(E) /\ q \in Seq(E)
      /\ b # <<>>
  BY <1>1, FlattenAt
<1>3. FlattenSeq(s) = ((p \o a) \o b) \o q
  <2>1. FlattenSeq(s) = (Pre(s, k + 1) \o b) \o q
    BY <1>1, FlattenAt
  <2>2. Pre(s, k + 1) = p \o a
    BY <1>1, PreNext
  <2> QED BY <2>1, <2>2
<1>4. ASSUME NEW x \in Seq(E), NEW t, t = [s EXCEPT ![k] = x]
      PROVE  /\ t \in Seq(Seq(E)) /\ Len(t) = Len(s)
             /\ t[k + 1] = b
             /\ Pre(t, k + 1) = p \o x
             /\ Post(t, k + 1) = q
  <2>1. /\ t \in Seq(Seq(E)) /\ Len(t) = Len(s) /\ t[k] = x
        /\ \A m \in 1..Len(s) : m # k => t[m] = s[m]
    BY <1>1, <1>4, ExceptSeq
  <2>2. Pre(t, k) = Pre(s, k)
    <3>1. /\ k \in Int /\ k - 1 <= Len(s)
          /\ \A m \in 1..k-1 : m \in 1..Len(s) /\ m # k
      BY <1>1
    <3>2. k - 1 <= Len(t) /\ \A m \in 1..k-1 : t[m] = s[m]
      BY <2>1, <3>1
    <3> QED BY <2>1, <3>1, <3>2, PreSame
  <2>3. Pre(t, k + 1) = Pre(t, k) \o t[k]
    BY <1>1, <2>1, PreNext
  <2>4. Post(t, k + 1) = Post(s, k + 1)
    <3>1. k + 1 \in Nat /\ \A m \in (k+1)+1..Len(t) : t[m] = s[m]
      BY <1>1, <2>1
    <3> QED BY <2>1, <3>1, PostSame
  <2> QED BY <1>1, <2>1, <2>2, <2>3, <2>4
<1>5. CASE Len(a \o b) > LIST_MAXSIZE
  <2> DEFINE x == Append(a, b[1])
             t == [s EXCEPT ![k] = x]
             y == Tail(b)
             u == [t EXCEPT ![k + 1] = y]
  <2>1. x \in Seq(E) /\ Tail(b) \in Seq(E)
    <3>1. b[1] \in E
      BY <1>2, EmptySeq, LenProperties
    <3> QED BY <1>2, <3>1, HeadTailProperties, AppendProperties
  <2>2. Refill(s, k) = u
    <3>1. t[k + 1] = s[k + 1]
      BY <1>1
    <3> QED BY <1>5, <3>1 DEF Refill
  <2> HIDE DEF x
  <2>3. /\ t \in Seq(Seq(E)) /\ Len(t) = Len(s)
        /\ Pre(t, k + 1) = p \o x /\ Post(t, k + 1) = q
    <3> HIDE DEF p, q, a, b
    <3> QED BY <1>4, <2>1
  <2> HIDE DEF t
  <2>4. /\ u \in Seq(Seq(E))
        /\ FlattenSeq(u) = (Pre(t, k + 1) \o y) \o Post(t, k + 1)
    <3>1. k + 1 \in 1..Len(t) /\ y \in Seq(E)
      BY <1>1, <2>1, <2>3
    <3> HIDE DEF y, u
    <3>2. FlattenSeq([t EXCEPT ![k + 1] = y])
            = (Pre(t, k + 1) \o y) \o Post(t, k + 1)
      BY <2>3, <3>1, FlattenReplace
    <3>3. [t EXCEPT ![k + 1] = y] \in Seq(Seq(E))
      BY <2>3, <3>1, ExceptSeq
    <3> QED BY <3>2, <3>3 DEF u
  <2>5. (p \o x) \o Tail(b) = (p \o a) \o b
    <3> HIDE DEF p, a, b
    <3>1. Moves(p, a, b)
      BY <1>2, MoveFirst
    <3> QED BY <3>1 DEF x, Moves
  <2> HIDE DEF u
  <2> QED BY <1>3, <2>2, <2>3, <2>4, <2>5
<1>6. CASE ~(Len(a \o b) > LIST_MAXSIZE)
  <2> DEFINE x == a \o b
             t == [s EXCEPT ![k] = x]
             u == RemoveAt(t, k + 1)
  <2>1. x \in Seq(E)
    BY <1>2, ConcatProperties
  <2>2. Refill(s, k) = u
    BY <1>6 DEF Refill
  <2> HIDE DEF x
  <2>3. /\ t \in Seq(Seq(E)) /\ Len(t) = Len(s)
        /\ Pre(t, k + 1) = p \o x /\ Post(t, k + 1) = q
    <3> HIDE DEF p, q, a, b
    <3> QED BY <1>4, <2>1
  <2> HIDE DEF t
  <2>4. /\ u \in Seq(Seq(E))
        /\ FlattenSeq(u) = Pre(t, k + 1) \o Post(t, k + 1)
    <3>1. k + 1 \in 1..Len(t)
      BY <1>1, <2>3
    <3> QED BY <2>3, <3>1, FlattenRemove, RemoveAtProperties
  <2>5. p \o x = (p \o a) \o b
    <3> HIDE DEF p, a, b
    <3>1. Associates(p, a, b)
      BY <1>2, Associativity
    <3> QED BY <3>1 DEF x, Associates
  <2> HIDE DEF u
  <2> QED BY <1>3, <2>2, <2>3, <2>4, <2>5
<1> QED BY <1>5, <1>6

(* And it leaves the nodes filled, if the one filled up lacks but one      *)
(* element.                                                                *)
LEMMA RefillFills ==
    ASSUME NEW E, NEW s \in Seq(Seq(E)), NEW k \in 1..Len(s)-1,
           \A m \in 1..Len(s) : Len(s[m]) \in 1..LIST_MAXSIZE,
           \A m \in 1..Len(s)-1 : m # k => Len(s[m]) >= LIST_LIMIT,
           Len(s[k]) >= LIST_LIMIT - 1,
           Len(s[k]) <= LIST_LIMIT
    PROVE  Filled(Refill(s, k))
<1> DEFINE a == s[k]
           b == s[k + 1]
<1>1. /\ Len(s) \in Nat /\ k \in 1..Len(s) /\ k + 1 \in 1..Len(s)
      /\ k \in Nat /\ k # k + 1
  BY LenProperties
<1>2. /\ a \in Seq(E) /\ b \in Seq(E) /\ Len(a) \in Nat /\ Len(b) \in Nat
      /\ Len(a \o b) = Len(a) + Len(b)
      /\ Len(a) >= 1 /\ Len(b) >= 1 /\ Len(b) <= LIST_MAXSIZE
      /\ k + 1 < Len(s) => Len(b) >= LIST_LIMIT
      /\ Len(a) >= LIST_LIMIT - 1 /\ Len(a) <= LIST_LIMIT
  <2>1. a \in Seq(E) /\ b \in Seq(E)
    BY <1>1, ElementOfSeq
  <2>2. Len(a \o b) = Len(a) + Len(b)
    BY <2>1, ConcatProperties
  <2>3. k + 1 < Len(s) => k + 1 \in 1..Len(s)-1
    BY <1>1
  <2> QED BY <1>1, <2>1, <2>2, <2>3, LenProperties
<1>3. /\ LIST_MAXSIZE \in Nat /\ LIST_LIMIT \in Nat /\ LIST_LIMIT >= 1
      /\ 2 * LIST_LIMIT <= LIST_MAXSIZE
  BY SEListAssumption
<1>4. CASE Len(a \o b) > LIST_MAXSIZE
  <2> DEFINE x == Append(a, b[1])
             u == [s EXCEPT ![k] = x, ![k + 1] = Tail(b)]
  <2>1. /\ Len(x) = Len(a) + 1
        /\ Tail(b) \in Seq(E) /\ Len(Tail(b)) = Len(b) - 1
    BY <1>2
  <2>2. Refill(s, k) = u
    BY <1>4 DEF Refill
  <2>3. /\ DOMAIN u = 1..Len(s) /\ Len(u) = Len(s)
        /\ u[k] = x /\ u[k + 1] = Tail(b)
        /\ \A m \in 1..Len(s) : m # k /\ m # k + 1 => u[m] = s[m]
    BY <1>1
  <2> HIDE DEF u, x, a, b
  <2>4. Len(u[k]) \in 1..LIST_MAXSIZE /\ Len(u[k]) >= LIST_LIMIT
    <3>1. Len(a) + 1 \in 1..LIST_MAXSIZE /\ Len(a) + 1 >= LIST_LIMIT
      BY <1>2, <1>3
    <3> QED BY <2>1, <2>3, <3>1
  <2>5. Len(u[k + 1]) \in 1..LIST_MAXSIZE /\ Len(u[k + 1]) >= LIST_LIMIT
    <3>1. Len(a) + Len(b) > LIST_MAXSIZE
      BY <1>2, <1>4
    <3>2. Len(b) - 1 \in 1..LIST_MAXSIZE /\ Len(b) - 1 >= LIST_LIMIT
      BY <1>2, <1>3, <3>1
    <3> QED BY <2>1, <2>3, <3>2
  <2>6. \A m \in 1..Len(s) : Len(u[m]) \in 1..LIST_MAXSIZE
    BY <2>3, <2>4, <2>5
  <2>7. \A m \in 1..Len(s) : m < Len(s) => Len(u[m]) >= LIST_LIMIT
    <3> SUFFICES ASSUME NEW m \in 1..Len(s), m < Len(s),
                        m # k, m # k + 1
                 PROVE  Len(u[m]) >= LIST_LIMIT
      BY <2>4, <2>5
    <3>1. m \in 1..Len(s)-1
      BY <1>1
    <3> QED BY <2>3, <3>1
  <2> QED BY <2>2, <2>3, <2>6, <2>7 DEF Filled
<1>5. CASE ~(Len(a \o b) > LIST_MAXSIZE)
  <2> DEFINE x == a \o b
             t == [s EXCEPT ![k] = x]
             u == RemoveAt(t, k + 1)
  <2>1. /\ x \in Seq(E) /\ Len(x) \in 1..LIST_MAXSIZE
        /\ Len(x) >= LIST_LIMIT
    <3> HIDE DEF a, b
    <3>1. x \in Seq(E) /\ ~(Len(x) > LIST_MAXSIZE)
      BY <1>2, <1>5, ConcatProperties
    <3>2. Len(x) = Len(a) + Len(b)
      BY <1>2
    <3> HIDE DEF x
    <3> QED BY <1>2, <1>3, <3>1, <3>2
  <2>2. Refill(s, k) = u
    BY <1>5 DEF Refill
  <2> HIDE DEF x
  <2>3. /\ t \in Seq(Seq(E)) /\ Len(t) = Len(s) /\ t[k] = x
        /\ \A m \in 1..Len(s) : m # k => t[m] = s[m]
    BY <1>1, <2>1, ExceptSeq
  <2> HIDE DEF t
  <2>4. /\ u \in Seq(Seq(E)) /\ Len(u) = Len(s) - 1
        /\ \A m \in 1..Len(s)-1 :
             u[m] = IF m < k + 1 THEN t[m] ELSE t[m + 1]
    BY <1>1, <2>3, RemoveAtProperties
  <2>5. ASSUME NEW m \in 1..Len(s)-1
        PROVE  /\ Len(u[m]) \in 1..LIST_MAXSIZE
               /\ m < Len(s) - 1 => Len(u[m]) >= LIST_LIMIT
    <3>1. CASE m = k
      <4> HIDE DEF a, b, u
      <4>0. k < k + 1
        BY <1>1
      <4>1. u[m] = x
        BY <2>3, <2>4, <3>1, <4>0
      <4> QED BY <2>1, <4>1
    <3>2. CASE m < k
      <4>1. m \in 1..Len(s) /\ m # k /\ m < k + 1
        BY <1>1, <3>2
      <4>2. u[m] = s[m]
        BY <2>3, <2>4, <4>1
      <4> QED BY <4>1, <4>2
    <3>3. CASE m > k
      <4>1. /\ m + 1 \in 1..Len(s) /\ m + 1 # k /\ ~(m < k + 1)
            /\ m < Len(s) - 1 => m + 1 \in 1..Len(s)-1
        BY <1>1, <3>3
      <4>2. u[m] = s[m + 1]
        BY <2>3, <2>4, <4>1
      <4> QED BY <4>1, <4>2
    <3> QED BY <1>1, <3>1, <3>2, <3>3
  <2>6. DOMAIN u = 1..Len(s)-1
    BY <2>4, LenProperties
  <2> HIDE DEF u
  <2> QED BY <2>2, <2>4, <2>5, <2>6 DEF Filled
<1> QED BY <1>4, <1>5

(* A node without an element can go, and the rest stays filled.            *)
LEMMA DropEmpty ==
    ASSUME NEW E, NEW s \in Seq(Seq(E)), NEW k \in 1..Len(s),
           s[k] = <<>>,
           \A m \in 1..Len(s) : m # k => Len(s[m]) \in 1..LIST_MAXSIZE,
           \A m \in 1..Len(s)-1 : m # k => Len(s[m]) >= LIST_LIMIT
    PROVE  /\ RemoveAt(s, k) \in Seq(Seq(E))
           /\ FlattenSeq(RemoveAt(s, k)) = FlattenSeq(s)
           /\ Filled(RemoveAt(s, k))
<1> DEFINE u == RemoveAt(s, k)
<1>0. Len(s) \in Nat /\ k \in Nat
  BY LenProperties
<1>1. /\ u \in Seq(Seq(E)) /\ Len(u) = Len(s) - 1
      /\ \A m \in 1..Len(s)-1 : u[m] = IF m < k THEN s[m] ELSE s[m + 1]
  BY RemoveAtProperties
<1>2. FlattenSeq(u) = FlattenSeq(s)
  <2>1. /\ FlattenSeq(s) = (Pre(s, k) \o <<>>) \o Post(s, k)
        /\ Pre(s, k) \in Seq(E)
    BY FlattenAt
  <2>2. Pre(s, k) \o <<>> = Pre(s, k)
    BY <2>1, ConcatEmptySeq
  <2>3. FlattenSeq(u) = Pre(s, k) \o Post(s, k)
    BY FlattenRemove
  <2> QED BY <2>1, <2>2, <2>3
<1>3. ASSUME NEW m \in 1..Len(s)-1
      PROVE  /\ Len(u[m]) \in 1..LIST_MAXSIZE
             /\ m < Len(s) - 1 => Len(u[m]) >= LIST_LIMIT
  <2>1. CASE m < k
    <3>1. m \in 1..Len(s) /\ m # k
      BY <1>0, <2>1
    <3>2. u[m] = s[m]
      BY <1>1, <2>1
    <3> HIDE DEF u
    <3> QED BY <3>1, <3>2
  <2>2. CASE ~(m < k)
    <3>1. /\ m + 1 \in 1..Len(s) /\ m + 1 # k
          /\ m < Len(s) - 1 => m + 1 \in 1..Len(s)-1
      BY <1>0, <2>2
    <3>2. u[m] = s[m + 1]
      BY <1>1, <2>2
    <3> HIDE DEF u
    <3> QED BY <3>1, <3>2
  <2> QED BY <2>1, <2>2
<1>4. DOMAIN u = 1..Len(s)-1
  BY <1>1, LenProperties
<1>5. Filled(u)
  <2> HIDE DEF u
  <2> QED BY <1>0, <1>1, <1>3, <1>4 DEF Filled
<1> QED BY <1>1, <1>2, <1>5

(* Deleting takes out the element at a position, if there is one, and      *)
(* leaves the nodes filled.                                                *)
LEMMA DeleteWorks ==
    ASSUME NEW E, NEW s \in Seq(Seq(E)), Filled(s), NEW i \in Int
    PROVE  /\ selist_delete(s, i) \in Seq(Seq(E))
           /\ Filled(selist_delete(s, i))
           /\ i \in 0..selist_length(s)-1 =>
                FlattenSeq(selist_delete(s, i))
                  = RemoveAt(FlattenSeq(s), i + 1)
           /\ i \notin 0..selist_length(s)-1 => selist_delete(s, i) = s
<1> DEFINE k == NodeAt(s, i)
           a == s[k]
           j == i - Before(s, k) + 1
           n == RemoveAt(a, j)
           left == [s EXCEPT ![k] = n]
           u == selist_delete(s, i)
<1>0. selist_length(s) \in Nat /\ Len(s) \in Nat /\ DOMAIN s = 1..Len(s)
  BY BeforeCounts, LenProperties
<1>1. u = IF i < 0 \/ k = 0 THEN s
          ELSE IF left[k] = <<>> THEN RemoveAt(left, k)
          ELSE IF k < Len(left) /\ Len(left[k]) <= LIST_LIMIT
               THEN Refill(left, k)
          ELSE left
  BY DEF selist_delete
<1>2. CASE i \notin 0..selist_length(s)-1
  <2>1. i < 0 \/ k = 0
    <3> SUFFICES ASSUME ~(i < 0) PROVE k = 0
      OBVIOUS
    <3>1. i \in Nat /\ i >= selist_length(s)
      BY <1>0, <1>2
    <3> QED BY <3>1, NodeFound
  <2>2. u = s
    <3> HIDE DEF u, k, left
    <3> QED BY <1>1, <2>1
  <2> HIDE DEF u
  <2> QED BY <1>2, <2>2 DEF u
<1>3. CASE i \in 0..selist_length(s)-1
  <2>1. /\ i \in Nat /\ k \in 1..Len(s) /\ Before(s, k) <= i
        /\ i < Before(s, k) + Len(a)
    <3>1. i \in Nat /\ i < selist_length(s)
      BY <1>0, <1>3
    <3> QED BY <3>1, NodeFound
  <2> HIDE DEF k
  <2>2. /\ a \in Seq(E) /\ Pre(s, k) \in Seq(E) /\ Post(s, k) \in Seq(E)
        /\ FlattenSeq(s) = (Pre(s, k) \o a) \o Post(s, k)
    BY <2>1, FlattenAt
  <2>3. /\ Before(s, k) = Len(Pre(s, k)) /\ Before(s, k) \in Nat
        /\ Len(a) \in Nat
    BY <2>1, BeforeCounts
  <2>4. j \in 1..Len(a) /\ i + 1 = Len(Pre(s, k)) + j
    <3> HIDE DEF a
    <3> QED BY <2>1, <2>3
  <2>5. n \in Seq(E) /\ Len(n) = Len(a) - 1
    <3> HIDE DEF a, j
    <3> QED BY <2>2, <2>4, RemoveAtProperties
  <2>6. FlattenSeq(left) = RemoveAt(FlattenSeq(s), i + 1)
    <3>1. FlattenSeq(left) = (Pre(s, k) \o n) \o Post(s, k)
      <4> HIDE DEF n
      <4> QED BY <2>1, <2>5, FlattenReplace
    <3>2. RemoveAt((Pre(s, k) \o a) \o Post(s, k), Len(Pre(s, k)) + j)
            = (Pre(s, k) \o n) \o Post(s, k)
      <4> HIDE DEF a, j
      <4>1. TakenInside(Pre(s, k), a, Post(s, k), j)
        BY <2>2, <2>4, RemoveInside
      <4> QED BY <4>1 DEF TakenInside, n
    <3> HIDE DEF left, n, a, j
    <3> QED BY <2>2, <2>4, <3>1, <3>2
  <2> HIDE DEF n, j
  <2>7. /\ left \in Seq(Seq(E)) /\ Len(left) = Len(s) /\ left[k] = n
        /\ \A m \in 1..Len(s) : m # k => left[m] = s[m]
    BY <2>1, <2>5, ExceptSeq
  <2> HIDE DEF left
  <2>8. /\ \A m \in 1..Len(s) : m # k => Len(left[m]) \in 1..LIST_MAXSIZE
        /\ \A m \in 1..Len(s)-1 : m # k => Len(left[m]) >= LIST_LIMIT
    <3>1. /\ \A m \in 1..Len(s) : Len(s[m]) \in 1..LIST_MAXSIZE
          /\ \A m \in 1..Len(s) : m < Len(s) => Len(s[m]) >= LIST_LIMIT
      BY <1>0 DEF Filled
    <3>2. \A m \in 1..Len(s)-1 : m \in 1..Len(s) /\ m < Len(s)
      BY <1>0
    <3> QED BY <2>7, <3>1, <3>2
  <2>9. Len(a) \in 1..LIST_MAXSIZE /\ (k < Len(s) => Len(a) >= LIST_LIMIT)
    BY <1>0, <2>1 DEF Filled
  <2>10. LIST_MAXSIZE \in Nat /\ LIST_LIMIT \in Nat
    BY SEListAssumption
  <2>11. ~(i < 0) /\ k # 0 /\ k \in Nat
    BY <2>1
  <2> HIDE DEF a
  <2>12. CASE n = <<>>
    <3>1. u = RemoveAt(left, k)
      <4> HIDE DEF u
      <4> QED BY <1>1, <2>7, <2>11, <2>12
    <3> HIDE DEF u
    <3>2. /\ u \in Seq(Seq(E)) /\ FlattenSeq(u) = FlattenSeq(left)
          /\ Filled(u)
      <4>1. left[k] = <<>> /\ k \in 1..Len(left)
        BY <2>1, <2>7, <2>12
      <4> QED BY <2>7, <2>8, <3>1, <4>1, DropEmpty
    <3> QED BY <1>3, <2>6, <3>2 DEF u
  <2>13. CASE n # <<>> /\ k < Len(s) /\ Len(n) <= LIST_LIMIT
    <3>1. u = Refill(left, k)
      <4> HIDE DEF u
      <4> QED BY <1>1, <2>7, <2>11, <2>13
    <3> HIDE DEF u
    <3>2. k \in 1..Len(left)-1 /\ k + 1 \in 1..Len(left) /\ k + 1 # k
      BY <1>0, <2>1, <2>7, <2>13
    <3>3. Len(n) >= 1 /\ Len(n) \in 1..LIST_MAXSIZE
          /\ Len(n) >= LIST_LIMIT - 1
      <4>1. Len(n) # 0 /\ Len(n) \in Nat
        BY <2>5, <2>13, EmptySeq, LenProperties
      <4> QED BY <2>3, <2>5, <2>9, <2>10, <2>13, <4>1
    <3>4. left[k + 1] # <<>>
      <4>1. Len(left[k + 1]) >= 1
        BY <2>7, <2>8, <2>10, <3>2
      <4> QED BY <4>1, EmptySeq
    <3>5. u \in Seq(Seq(E)) /\ FlattenSeq(u) = FlattenSeq(left)
      BY <2>7, <3>1, <3>2, <3>4, RefillKeeps
    <3>6. Filled(u)
      <4>1. /\ \A m \in 1..Len(left) : Len(left[m]) \in 1..LIST_MAXSIZE
            /\ \A m \in 1..Len(left)-1 : m # k => Len(left[m]) >= LIST_LIMIT
            /\ Len(left[k]) >= LIST_LIMIT - 1 /\ Len(left[k]) <= LIST_LIMIT
        BY <2>7, <2>8, <2>13, <3>3
      <4> QED BY <2>7, <3>1, <3>2, <4>1, RefillFills
    <3> QED BY <1>3, <2>6, <3>5, <3>6 DEF u
  <2>14. CASE n # <<>> /\ ~(k < Len(s) /\ Len(n) <= LIST_LIMIT)
    <3>1. u = left
      <4> HIDE DEF u
      <4> QED BY <1>1, <2>7, <2>11, <2>14
    <3> HIDE DEF u
    <3>2. Len(n) \in 1..LIST_MAXSIZE /\ (k < Len(s) => Len(n) >= LIST_LIMIT)
      <4>1. Len(n) # 0 /\ Len(n) \in Nat
        BY <2>5, <2>14, EmptySeq, LenProperties
      <4> QED BY <2>3, <2>5, <2>9, <2>10, <2>14, <4>1
    <3>3. ASSUME NEW m \in 1..Len(s)
          PROVE  /\ Len(left[m]) \in 1..LIST_MAXSIZE
                 /\ m < Len(s) => Len(left[m]) >= LIST_LIMIT
      <4>1. CASE m = k
        BY <2>7, <3>2, <4>1
      <4>2. CASE m # k
        <5>1. m < Len(s) => m \in 1..Len(s)-1
          BY <1>0
        <5> QED BY <2>8, <4>2, <5>1
      <4> QED BY <4>1, <4>2
    <3>4. Filled(left)
      <4>1. DOMAIN left = 1..Len(s)
        BY <2>7, LenProperties
      <4> QED BY <2>7, <3>3, <4>1 DEF Filled
    <3> QED BY <1>3, <2>6, <2>7, <3>1, <3>4 DEF u
  <2> QED BY <2>12, <2>13, <2>14
<1> QED BY <1>2, <1>3

(* A push appends its element, to the last node or to a new one. *)
LEMMA PushWorks ==
    ASSUME NEW E, NEW s \in Seq(Seq(E)), Filled(s), NEW x \in E
    PROVE  /\ selist_push(s, x) \in Seq(Seq(E))
           /\ Filled(selist_push(s, x))
           /\ FlattenSeq(selist_push(s, x)) = Append(FlattenSeq(s), x)
<1> DEFINE u == selist_push(s, x)
           F == FlattenSeq(s)
<1>0. /\ Len(s) \in Nat /\ DOMAIN s = 1..Len(s)
      /\ F \in Seq(E)
      /\ LIST_MAXSIZE \in Nat /\ LIST_LIMIT \in Nat /\ LIST_LIMIT >= 1
      /\ 2 * LIST_LIMIT <= LIST_MAXSIZE
  BY LenProperties, FlattenType, SEListAssumption
<1>1. /\ \A m \in 1..Len(s) : Len(s[m]) \in 1..LIST_MAXSIZE
      /\ \A m \in 1..Len(s) : m < Len(s) => Len(s[m]) >= LIST_LIMIT
  BY <1>0 DEF Filled
<1>2. CASE s = <<>> \/ Len(Last(s)) = LIST_MAXSIZE
  <2>1. u = Append(s, <<x>>)
    BY <1>2 DEF selist_push
  <2> HIDE DEF u, F
  <2>2. <<x>> \in Seq(E) /\ Len(<<x>>) = 1
    OBVIOUS
  <2>3. /\ u \in Seq(Seq(E)) /\ Len(u) = Len(s) + 1
        /\ \A m \in 1..Len(s) : u[m] = s[m]
        /\ u[Len(s) + 1] = <<x>>
    BY <2>1, <2>2, AppendProperties
  <2>4. FlattenSeq(u) = F \o <<x>>
    BY <2>1, <2>2, FlattenAppend DEF F
  <2>5. F \o <<x>> = Append(F, x)
    BY <1>0, AppendIsConcat
  <2>6. Len(s) # 0 => Len(s[Len(s)]) = LIST_MAXSIZE
    BY <1>0, <1>2 DEF Last
  <2>7. ASSUME NEW m \in 1..Len(s) + 1
        PROVE  /\ Len(u[m]) \in 1..LIST_MAXSIZE
               /\ m < Len(s) + 1 => Len(u[m]) >= LIST_LIMIT
    <3>1. CASE m = Len(s) + 1
      <4>1. Len(u[m]) = 1
        BY <2>2, <2>3, <3>1
      <4>2. 1 \in 1..LIST_MAXSIZE /\ ~(m < Len(s) + 1)
        BY <1>0, <3>1
      <4> QED BY <4>1, <4>2
    <3>2. CASE m = Len(s) /\ m # 0
      <4>1. m \in 1..Len(s) /\ Len(s[m]) = LIST_MAXSIZE
        BY <1>0, <2>6, <3>2
      <4> QED BY <1>0, <1>1, <2>3, <4>1
    <3>3. CASE m < Len(s)
      <4>1. m \in 1..Len(s)
        BY <3>3
      <4> QED BY <1>1, <2>3, <3>3, <4>1
    <3>4. m = Len(s) + 1 \/ (m = Len(s) /\ m # 0) \/ m < Len(s)
      <4>1. \A d \in Nat : \A i \in 1..d+1 :
               i = d + 1 \/ (i = d /\ i # 0) \/ i < d
        OBVIOUS
      <4>2. Len(s) \in Nat
        BY <1>0
      <4> QED BY <4>1, <4>2
    <3> QED BY <3>1, <3>2, <3>3, <3>4
  <2>8. DOMAIN u = 1..Len(s) + 1
    BY <2>3, LenProperties
  <2>9. Filled(u)
    BY <2>3, <2>7, <2>8 DEF Filled
  <2> QED BY <2>3, <2>4, <2>5, <2>9 DEF u, F
<1>3. CASE ~(s = <<>> \/ Len(Last(s)) = LIST_MAXSIZE)
  <2> DEFINE k == Len(s)
             a == s[k]
             n == Append(a, x)
  <2>1. u = [s EXCEPT ![k] = n]
    BY <1>3 DEF selist_push
  <2>2. k \in 1..Len(s) /\ k \in Nat
    BY <1>0, <1>3, EmptySeq
  <2>3. /\ a \in Seq(E) /\ Pre(s, k) \in Seq(E)
        /\ F = (Pre(s, k) \o a) \o Post(s, k)
    BY <2>2, FlattenAt
  <2>4. Post(s, k) = <<>>
    <3>1. SubSeq(s, k + 1, Len(s)) = <<>>
      BY <2>2, SubSeqEmpty
    <3> QED BY <3>1, FlattenNone DEF Post
  <2>5. /\ n \in Seq(E) /\ n = a \o <<x>> /\ Len(n) = Len(a) + 1
        /\ Len(a) \in 1..LIST_MAXSIZE /\ Len(a) # LIST_MAXSIZE
    <3>1. n \in Seq(E) /\ Len(n) = Len(a) + 1 /\ n = a \o <<x>>
      <4> HIDE DEF a
      <4> QED BY <2>3, AppendIsConcat, AppendProperties
    <3>2. Len(a) \in 1..LIST_MAXSIZE
      BY <1>1, <2>2
    <3> QED BY <1>3, <3>1, <3>2 DEF Last
  <2> HIDE DEF u, F, n, k
  <2>6. /\ u \in Seq(Seq(E)) /\ Len(u) = Len(s) /\ u[k] = n
        /\ \A m \in 1..Len(s) : m # k => u[m] = s[m]
    BY <2>1, <2>2, <2>5, ExceptSeq
  <2>7. FlattenSeq(u) = (Pre(s, k) \o n) \o Post(s, k)
    BY <2>1, <2>2, <2>5, FlattenReplace
  <2>8. FlattenSeq(u) = Append(F, x)
    <3> HIDE DEF a
    <3>1. F = Pre(s, k) \o a
      <4>1. Pre(s, k) \o a \in Seq(E)
        BY <2>3, ConcatProperties
      <4> QED BY <2>3, <2>4, <4>1, ConcatEmptySeq
    <3>2. FlattenSeq(u) = Pre(s, k) \o n
      <4>1. Pre(s, k) \o n \in Seq(E)
        BY <2>3, <2>5, ConcatProperties
      <4> QED BY <2>4, <2>7, <4>1, ConcatEmptySeq
    <3>3. Associates(Pre(s, k), a, <<x>>)
      <4>1. <<x>> \in Seq(E)
        OBVIOUS
      <4> QED BY <2>3, <4>1, Associativity
    <3>4. Pre(s, k) \o n = F \o <<x>>
      BY <2>5, <3>1, <3>3 DEF Associates
    <3>5. F \o <<x>> = Append(F, x)
      BY <1>0, AppendIsConcat
    <3> QED BY <3>2, <3>4, <3>5
  <2>9. ASSUME NEW m \in 1..Len(s)
        PROVE  /\ Len(u[m]) \in 1..LIST_MAXSIZE
               /\ m < Len(s) => Len(u[m]) >= LIST_LIMIT
    <3>1. CASE m = k
      <4> HIDE DEF a
      <4>1. Len(n) \in 1..LIST_MAXSIZE /\ ~(m < Len(s))
        BY <1>0, <2>5, <3>1 DEF k
      <4> QED BY <2>6, <3>1, <4>1
    <3>2. CASE m # k
      BY <1>1, <2>6, <3>2
    <3> QED BY <3>1, <3>2
  <2>10. DOMAIN u = 1..Len(s)
    BY <2>6, LenProperties
  <2>11. Filled(u)
    BY <2>6, <2>9, <2>10 DEF Filled
  <2> QED BY <2>6, <2>8, <2>11 DEF u, F
<1> QED BY <1>2, <1>3

(* selist_get returns the element at a position. *)
LEMMA GetWorks ==
    ASSUME NEW E, NEW s \in Seq(Seq(E)), NEW i \in 0..selist_length(s)-1
    PROVE  selist_get(s, i) = FlattenSeq(s)[i + 1]
<1> DEFINE k == NodeAt(s, i)
           j == i - Before(s, k) + 1
<1>0. selist_length(s) \in Nat
  BY BeforeCounts
<1>1. /\ i \in Nat /\ k \in 1..Len(s) /\ Before(s, k) <= i
      /\ i < Before(s, k) + Len(s[k])
  <2>1. i \in Nat /\ i < selist_length(s)
    BY <1>0
  <2> QED BY <2>1, NodeFound
<1> HIDE DEF k
<1>2. /\ s[k] \in Seq(E) /\ Pre(s, k) \in Seq(E) /\ Post(s, k) \in Seq(E)
      /\ FlattenSeq(s) = (Pre(s, k) \o s[k]) \o Post(s, k)
  BY <1>1, FlattenAt
<1>3. Row(FlattenSeq(s), Pre(s, k), s[k], Post(s, k))
  BY <1>2, RowOfThree
<1>4. /\ Before(s, k) = Len(Pre(s, k)) /\ Before(s, k) \in Nat
      /\ Len(s[k]) \in Nat
  BY <1>1, BeforeCounts
<1>5. j \in 1..Len(s[k]) /\ i + 1 = Len(Pre(s, k)) + j
  BY <1>1, <1>4
<1>6. FlattenSeq(s)[i + 1] = s[k][j]
  <2> HIDE DEF j
  <2> QED BY <1>3, <1>5 DEF Row
<1> QED BY <1>6 DEF selist_get, k

(* The list without a node is the empty one, and the last element is that  *)
(* of the last node.                                                       *)
LEMMA EmptyWorks ==
    ASSUME NEW E, NEW s \in Seq(Seq(E)), Filled(s)
    PROVE  s = <<>> <=> FlattenSeq(s) = <<>>
<1>1. s = <<>> => FlattenSeq(s) = <<>>
  BY FlattenNone
<1>2. ASSUME s # <<>>, FlattenSeq(s) = <<>> PROVE FALSE
  <2>1. Len(s) \in Nat /\ Len(s) # 0 /\ DOMAIN s = 1..Len(s)
    BY <1>2, EmptySeq, LenProperties
  <2>2. 1 \in 1..Len(s)
    BY <2>1
  <2>3. Len(s[1]) >= 1 /\ Len(s[1]) \in Nat
    <3>1. Len(s[1]) \in 1..LIST_MAXSIZE
      BY <1>2, <2>1, <2>2 DEF Filled
    <3> QED BY <3>1, SEListAssumption
  <2>4. /\ Before(s, 1 + 1) = Before(s, 1) + Len(s[1])
        /\ Before(s, 1) \in Nat /\ selist_length(s) \in Nat
        /\ Before(s, 1 + 1) <= selist_length(s)
    BY <2>2, BeforeCounts
  <2>5. selist_length(s) = 0
    BY <1>2 DEF selist_length
  <2> QED BY <2>3, <2>4, <2>5
<1> QED BY <1>1, <1>2

LEMMA LastWorks ==
    ASSUME NEW E, NEW s \in Seq(Seq(E)), Filled(s), s # <<>>
    PROVE  Last(Last(s)) = Last(FlattenSeq(s))
<1> DEFINE k == Len(s)
<1>1. Len(s) \in Nat /\ Len(s) # 0 /\ DOMAIN s = 1..Len(s)
  BY EmptySeq, LenProperties
<1>2. k \in 1..Len(s) /\ k \in Nat
  BY <1>1
<1>3. Len(s[k]) >= 1 /\ Len(s[k]) \in Nat
  BY <1>1, <1>2, SEListAssumption DEF Filled
<1>4. Post(s, k) = <<>>
  <2>1. SubSeq(s, k + 1, Len(s)) = <<>>
    BY <1>2, SubSeqEmpty
  <2> QED BY <2>1, FlattenNone DEF Post
<1> HIDE DEF k
<1>5. /\ s[k] \in Seq(E) /\ Pre(s, k) \in Seq(E) /\ Post(s, k) \in Seq(E)
      /\ FlattenSeq(s) = (Pre(s, k) \o s[k]) \o Post(s, k)
  BY <1>2, FlattenAt
<1>6. Row(FlattenSeq(s), Pre(s, k), s[k], Post(s, k))
  BY <1>5, RowOfThree
<1>7. Len(Pre(s, k)) \in Nat /\ Len(Post(s, k)) = 0
  BY <1>4, <1>5, LenProperties
<1>8. Len(FlattenSeq(s)) = Len(Pre(s, k)) + Len(s[k])
  BY <1>3, <1>6, <1>7 DEF Row
<1>9. Len(s[k]) \in 1..Len(s[k])
  BY <1>3
<1>10. FlattenSeq(s)[Len(Pre(s, k)) + Len(s[k])] = s[k][Len(s[k])]
  BY <1>6, <1>9 DEF Row
<1> QED BY <1>8, <1>10 DEF Last, k

-----------------------------------------------------------------------------
(* The invariant and what follows from it                                  *)

(* The empty list is filled. *)
LEMMA InitInv == Init => SEListInv
BY DEF Init, SEListInv, NodesFilled, Filled, Idle

(* A call of selist_delete keeps the nodes filled and makes the list no    *)
(* longer, and the sequence of the elements loses the one it should.       *)
LEMMA DeleteStep ==
    ASSUME SEListInv, NEW i \in Int, l' = selist_delete(l, i)
    PROVE  /\ l' \in Seq(Seq(Elements))
           /\ Filled(l')
           /\ selist_length(l) \in Nat /\ selist_length(l') \in Nat
           /\ i \in 0..selist_length(l)-1 =>
                /\ FlattenSeq(l') = RemoveAt(FlattenSeq(l), i + 1)
                /\ selist_length(l') = selist_length(l) - 1
           /\ i \notin 0..selist_length(l)-1 => l' = l
<1>1. l \in Seq(Seq(Elements)) /\ Filled(l)
  BY DEF SEListInv, NodesFilled
<1>2. /\ l' \in Seq(Seq(Elements)) /\ Filled(l')
      /\ i \in 0..selist_length(l)-1 =>
           FlattenSeq(l') = RemoveAt(FlattenSeq(l), i + 1)
      /\ i \notin 0..selist_length(l)-1 => l' = l
  BY <1>1, DeleteWorks
<1>3. selist_length(l) \in Nat /\ selist_length(l') \in Nat
  BY <1>1, <1>2, BeforeCounts
<1>4. ASSUME i \in 0..selist_length(l)-1
      PROVE  selist_length(l') = selist_length(l) - 1
  <2>1. FlattenSeq(l) \in Seq(Elements)
    BY <1>1, FlattenType
  <2>2. i + 1 \in 1..Len(FlattenSeq(l))
    BY <1>3, <1>4 DEF selist_length
  <2>3. Len(RemoveAt(FlattenSeq(l), i + 1)) = Len(FlattenSeq(l)) - 1
    BY <2>1, <2>2, RemoveAtProperties
  <2> QED BY <1>2, <1>4, <2>3 DEF selist_length
<1> QED BY <1>2, <1>3, <1>4

(* Every step keeps the invariant.                                         *)
LEMMA NextInv == SEListInv /\ [Next]_selistvars => SEListInv'
<1> SUFFICES ASSUME SEListInv, [Next]_selistvars PROVE SEListInv'
  OBVIOUS
<1>0. l \in Seq(Seq(Elements)) /\ Filled(l)
  BY DEF SEListInv, NodesFilled
<1>1. ASSUME l' \in Seq(Seq(Elements)), Filled(l'), clearing = Idle,
             clearing' = Idle
      PROVE  SEListInv'
  BY <1>1 DEF SEListInv, NodesFilled, Filled, Idle
<1>2. ASSUME NEW x \in Elements, Push(x) PROVE SEListInv'
  <2>1. l' = selist_push(l, x) /\ clearing = Idle /\ clearing' = clearing
    BY <1>2 DEF Push
  <2>2. l' \in Seq(Seq(Elements)) /\ Filled(l')
    BY <1>0, <2>1, PushWorks
  <2> QED BY <1>1, <2>1, <2>2
<1>3. CASE selist_pop
  <2>1. clearing = Idle /\ clearing' = clearing
    BY <1>3 DEF selist_pop
  <2>2. l' = l \/ l' = selist_delete(l, selist_length(l) - 1)
    BY <1>3 DEF selist_pop
  <2>3. selist_length(l) - 1 \in Int
    BY <1>0, BeforeCounts
  <2>4. l' \in Seq(Seq(Elements)) /\ Filled(l')
    BY <1>0, <2>2, <2>3, DeleteStep
  <2> QED BY <1>1, <2>1, <2>4
<1>4. ASSUME NEW i \in 0..MaxLength, Get(i) PROVE SEListInv'
  <2>1. l' = l /\ clearing = Idle /\ clearing' = clearing
    BY <1>4 DEF Get
  <2> QED BY <1>0, <1>1, <2>1
<1>5. ASSUME NEW i \in -1..MaxLength, Delete(i) PROVE SEListInv'
  <2>1. /\ l' = selist_delete(l, i) /\ clearing = Idle
        /\ clearing' = clearing
    BY <1>5 DEF Delete
  <2>2. i \in Int
    OBVIOUS
  <2>3. l' \in Seq(Seq(Elements)) /\ Filled(l')
    BY <2>1, <2>2, DeleteStep
  <2> QED BY <1>1, <2>1, <2>3
<1>6. CASE StartClearing
  <2>1. l' = l /\ clearing' = selist_length(l)
    BY <1>6 DEF StartClearing
  <2>2. selist_length(l) \in Nat
    BY <1>0, BeforeCounts
  <2> QED BY <1>0, <2>1, <2>2 DEF SEListInv, NodesFilled, Filled, Idle
<1>7. CASE Clear
  <2>1. /\ clearing >= 0 /\ l' = selist_delete(l, clearing)
        /\ clearing' = clearing - 1
    BY <1>7 DEF Clear
  <2>2. clearing \in Nat /\ selist_length(l) <= clearing + 1
    BY <2>1 DEF SEListInv, Idle
  <2>3. /\ l' \in Seq(Seq(Elements)) /\ Filled(l')
        /\ selist_length(l) \in Nat /\ selist_length(l') \in Nat
        /\ clearing \in 0..selist_length(l)-1 =>
             selist_length(l') = selist_length(l) - 1
        /\ clearing \notin 0..selist_length(l)-1 => l' = l
    BY <2>1, <2>2, DeleteStep
  <2>4. selist_length(l') <= clearing' + 1
    <3>1. CASE clearing \in 0..selist_length(l)-1
      BY <2>1, <2>2, <2>3, <3>1
    <3>2. CASE clearing \notin 0..selist_length(l)-1
      <4>1. selist_length(l') = selist_length(l)
        BY <2>3, <3>2
      <4>2. selist_length(l) <= clearing
        BY <2>2, <2>3, <3>2
      <4> QED BY <2>1, <2>2, <4>1, <4>2
    <3> QED BY <3>1, <3>2
  <2>5. clearing' \in Nat \cup {-1, Idle}
    BY <2>1, <2>2
  <2> QED BY <2>3, <2>4, <2>5 DEF SEListInv, NodesFilled, Filled
<1>8. CASE UNCHANGED selistvars
  BY <1>8 DEF selistvars, SEListInv, NodesFilled, Filled, selist_length
<1> QED BY <1>2, <1>3, <1>4, <1>5, <1>6, <1>7, <1>8 DEF Next

(* In every reachable state the nodes are filled and the clearing has not  *)
(* left anything behind it.                                                *)
THEOREM SEListInvariant == Spec => []SEListInv
BY InitInv, NextInv, PTL DEF Spec

(* No node is empty, none overflows, none but the last falls below its     *)
(* half (src/selist.c 91-155), however long the nodes are.                 *)
THEOREM NodesAreFilled == Spec => []NodesFilled
<1>1. SEListInv => NodesFilled
  BY DEF SEListInv
<1> QED BY <1>1, SEListInvariant, PTL

(* The clearing loop, counted from one beyond the end, deletes every       *)
(* element (src/eventloop.c 346-349).                                      *)
THEOREM ClearingEmpties == Spec => []Cleared
<1>1. SEListInv => Cleared
  <2> SUFFICES ASSUME SEListInv, clearing = -1 PROVE l = <<>>
    BY DEF Cleared, selist_empty
  <2>1. l \in Seq(Seq(Elements)) /\ Filled(l) /\ selist_length(l) <= 0
    BY DEF SEListInv, NodesFilled, Idle
  <2>2. selist_length(l) \in Nat
    BY <2>1, BeforeCounts
  <2>3. Len(FlattenSeq(l)) = 0 /\ FlattenSeq(l) \in Seq(Elements)
    BY <2>1, <2>2, FlattenType DEF selist_length
  <2>4. FlattenSeq(l) = <<>>
    BY <2>3, EmptySeq
  <2> QED BY <2>1, <2>4, EmptyWorks
<1> QED BY <1>1, SEListInvariant, PTL

-----------------------------------------------------------------------------
(* The refinement of the sequence                                          *)

(* Every call does to the sequence of the elements, and returns, what the  *)
(* abstract list's does; the calls of the clearing loop are deletions.     *)
LEMMA NextIsList ==
    SEListInv /\ [Next]_selistvars => [Abs!Next]_(Abs!listvars)
<1> SUFFICES ASSUME SEListInv, [Next]_selistvars
             PROVE  Abs!Next \/ UNCHANGED <<FlattenSeq(l), result>>
  BY DEF Abs!listvars
<1> DEFINE F == FlattenSeq(l)
<1>0. /\ l \in Seq(Seq(Elements)) /\ Filled(l) /\ F \in Seq(Elements)
      /\ Len(F) = selist_length(l) /\ selist_length(l) \in Nat
  BY FlattenType, BeforeCounts DEF SEListInv, NodesFilled, selist_length
<1>1. ASSUME NEW x \in Elements, Push(x) PROVE Abs!Next
  <2>1. l' = selist_push(l, x) /\ result' = NoElement
    BY <1>1 DEF Push
  <2>2. FlattenSeq(l') = Append(F, x)
    BY <1>0, <2>1, PushWorks
  <2>3. Abs!Push(x)
    BY <2>1, <2>2 DEF Abs!Push
  <2> QED BY <2>3 DEF Abs!Next
<1>2. ASSUME NEW i \in Int, l' = selist_delete(l, i), result' = NoElement
      PROVE  Abs!Next
  <2>1. CASE i \in 0..selist_length(l)-1
    <3>1. FlattenSeq(l') = RemoveAt(F, i + 1)
      BY <1>2, <2>1, DeleteStep
    <3>2. i \in 0..Len(F)-1 /\ i \in -1..Len(F)
      BY <1>0, <2>1
    <3> HIDE DEF F
    <3>3. Abs!Delete(i)
      BY <1>2, <3>1, <3>2 DEF Abs!Delete, Abs!RemoveAt, RemoveAt, F
    <3> QED BY <3>2, <3>3 DEF Abs!Next, F
  <2>2. CASE i \notin 0..selist_length(l)-1
    <3>1. l' = l
      BY <1>2, <2>2, DeleteStep
    <3>2. -1 \in -1..Len(F) /\ ~(-1 \in 0..Len(F)-1)
      BY <1>0
    <3> HIDE DEF F
    <3>3. Abs!Delete(-1)
      BY <1>2, <3>1, <3>2 DEF Abs!Delete, F
    <3> QED BY <3>2, <3>3 DEF Abs!Next, F
  <2> QED BY <2>1, <2>2
<1>3. CASE selist_pop
  <2>1. CASE l = <<>>
    <3>1. l' = l /\ result' = NoElement
      BY <1>3, <2>1 DEF selist_pop, selist_empty
    <3>2. FlattenSeq(l) = <<>>
      BY <2>1, FlattenNone
    <3>3. Abs!Pop
      BY <3>1, <3>2 DEF Abs!Pop
    <3> QED BY <3>3 DEF Abs!Next
  <2>2. CASE l # <<>>
    <3>1. /\ l' = selist_delete(l, selist_length(l) - 1)
          /\ result' = Last(Last(l))
      BY <1>3, <2>2 DEF selist_pop, selist_empty
    <3>2. F # <<>>
      BY <1>0, <2>2, EmptyWorks
    <3>3. Len(F) # 0
      BY <1>0, <3>2, EmptySeq
    <3>4. /\ selist_length(l) - 1 \in 0..selist_length(l)-1
          /\ selist_length(l) - 1 \in Int
          /\ (selist_length(l) - 1) + 1 = Len(F)
      BY <1>0, <3>3
    <3>5. FlattenSeq(l') = RemoveAt(F, (selist_length(l) - 1) + 1)
      BY <3>1, <3>4, DeleteStep
    <3>6. RemoveAt(F, Len(F)) = Front(F)
      BY <1>0, <3>2, RemoveLast
    <3>7. result' = Last(F)
      BY <1>0, <2>2, <3>1, LastWorks
    <3>8. FlattenSeq(l') = Front(F)
      BY <3>4, <3>5, <3>6
    <3> HIDE DEF F
    <3>9. Abs!Pop
      BY <3>2, <3>7, <3>8
         DEF Abs!Pop, Abs!Front, Abs!Last, Front, Last, F
    <3> QED BY <3>9 DEF Abs!Next
  <2> QED BY <2>1, <2>2
<1>4. ASSUME NEW i \in 0..MaxLength, Get(i) PROVE Abs!Next
  <2>1. /\ i < selist_length(l) /\ result' = selist_get(l, i) /\ l' = l
    BY <1>4 DEF Get
  <2>2. i \in 0..selist_length(l)-1 /\ i \in 0..Len(F)-1
    BY <1>0, <2>1
  <2>3. result' = F[i + 1]
    BY <1>0, <2>1, <2>2, GetWorks
  <2> HIDE DEF F
  <2>4. Abs!Get(i)
    BY <2>1, <2>2, <2>3 DEF Abs!Get, F
  <2> QED BY <2>2, <2>4 DEF Abs!Next, F
<1>5. ASSUME NEW i \in -1..MaxLength, Delete(i) PROVE Abs!Next
  <2>1. l' = selist_delete(l, i) /\ result' = NoElement /\ i \in Int
    BY <1>5 DEF Delete
  <2> QED BY <1>2, <2>1
<1>6. CASE StartClearing
  BY <1>6 DEF StartClearing
<1>7. CASE Clear
  <2>1. l' = selist_delete(l, clearing) /\ result' = NoElement
    BY <1>7 DEF Clear
  <2>2. clearing \in Int
    BY DEF SEListInv, Idle
  <2> QED BY <1>2, <2>1, <2>2
<1>8. CASE UNCHANGED selistvars
  BY <1>8 DEF selistvars
<1> QED BY <1>1, <1>3, <1>4, <1>5, <1>6, <1>7, <1>8 DEF Next

(* The unrolled list is a sequence: whatever is moved between nodes, each  *)
(* call does to the elements, and returns, what a sequence would           *)
(* (src/selist.c 59-165).                                                  *)
THEOREM SEListIsList == Spec => ImplementsList
<1>1. Init => Abs!Init
  BY FlattenNone DEF Init, Abs!Init
<1>2. SEListInv /\ [Next]_selistvars => [Abs!Next]_(Abs!listvars)
  BY NextIsList
<1> QED BY <1>1, <1>2, SEListInvariant, PTL
        DEF Spec, ImplementsList, Abs!Spec
=============================================================================
