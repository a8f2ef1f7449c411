--------------------------- MODULE SequenceLemmas ---------------------------
(***************************************************************************)
(* What the proofs of several components need to know of numbers,          *)
(* functions and sequences: that a function can be defined by recursion on *)
(* the natural numbers, what FlattenSeq does to a concatenation, what      *)
(* RemoveAt takes out.                                                     *)
(***************************************************************************)
EXTENDS Integers, Sequences, SequencesExt, SequenceTheorems,
        WellFoundedInduction, TLAPS

(* A non-empty set of natural numbers has a least element. *)
LEMMA LeastElement ==
    ASSUME NEW T \in SUBSET Nat, T # {}
    PROVE  \E x \in T : \A y \in T : x <= y
<1> DEFINE R == {ss \in Nat \X Nat : ss[1] < ss[2]}
<1>1. IsWellFoundedOn(R, Nat)
  BY NatLessThanWellFounded, Zenon DEF OpToRel
<1>2. PICK x \in T : \A y \in T : <<y, x>> \notin R
  <2> HIDE DEF R
  <2> QED BY <1>1, WFMin, Zenon
<1>3. \A y \in T : ~(y < x)
  BY <1>2
<1> QED BY <1>2, <1>3

(* A set with 0 and with the successor of each of its elements has every   *)
(* natural number.                                                         *)
LEMMA Induction ==
    ASSUME NEW P, 0 \in P, \A n \in Nat : n \in P => n + 1 \in P
    PROVE  \A n \in Nat : n \in P
<1> SUFFICES ASSUME {n \in Nat : n \notin P} # {} PROVE FALSE
  OBVIOUS
<1> DEFINE T == {n \in Nat : n \notin P}
<1>1. PICK x \in T : \A y \in T : x <= y
  <2>1. T \in SUBSET Nat /\ T # {}
    OBVIOUS
  <2> HIDE DEF T
  <2> QED BY <2>1, LeastElement
<1>2. x \in Nat /\ x # 0 /\ x \notin P
  BY <1>1
<1>3. x - 1 \in Nat /\ (x - 1) + 1 = x
  BY <1>2
<1>4. x - 1 \notin P
  BY <1>2, <1>3
<1>5. x - 1 \in T
  BY <1>3, <1>4
<1>6. x <= x - 1
  BY <1>1, <1>5
<1> QED BY <1>2, <1>6

(* The function g on the natural numbers starts with a and goes by step.   *)
Recurs(g, a, step) ==
    /\ g[0] = a
    /\ \A n \in Nat : g[n + 1] = step[<<n, g[n]>>]

(* There is a function on the natural numbers with a given value for 0 and *)
(* a given step.                                                           *)
LEMMA Recursion ==
    ASSUME NEW S, NEW a \in S, NEW step \in [Nat \X S -> S]
    PROVE  \E g \in [Nat -> S] : Recurs(g, a, step)
<1> DEFINE Segs(n) == {h \in [0..n -> S] :
                         /\ h[0] = a
                         /\ \A k \in 0..n-1 : h[k + 1] = step[<<k, h[k]>>]}
           More(h, n) == [k \in 0..n+1 |-> IF k <= n THEN h[k]
                                           ELSE step[<<n, h[n]>>]]
           P == {n \in Nat : Segs(n) # {}}
           g == [n \in Nat |-> (CHOOSE h \in Segs(n) : TRUE)[n]]
<1>1. 0 \in P
  <2>1. [k \in 0..0 |-> a] \in Segs(0)
    OBVIOUS
  <2> QED BY <2>1
<1>2. ASSUME NEW n \in Nat, NEW h \in Segs(n)
      PROVE  More(h, n) \in Segs(n + 1)
  <2>1. n \in 0..n /\ h[n] \in S /\ step[<<n, h[n]>>] \in S
    OBVIOUS
  <2>2. More(h, n) \in [0..n+1 -> S]
    BY <2>1
  <2>3. More(h, n)[0] = a
    OBVIOUS
  <2>4. ASSUME NEW k \in 0..(n + 1) - 1
        PROVE  More(h, n)[k + 1] = step[<<k, More(h, n)[k]>>]
    <3>0. /\ k \in Nat /\ k <= n /\ k \in 0..n+1 /\ k + 1 \in 0..n+1
          /\ k <= n - 1 \/ k = n
      OBVIOUS
    <3>1. More(h, n)[k] = h[k]
      BY <3>0
    <3>2. CASE k <= n - 1
      <4>1. k + 1 <= n /\ k \in 0..n-1
        BY <3>0, <3>2
      <4>2. More(h, n)[k + 1] = h[k + 1]
        BY <3>0, <4>1
      <4>3. h[k + 1] = step[<<k, h[k]>>]
        BY <4>1
      <4> HIDE DEF More
      <4> QED BY <3>1, <4>2, <4>3
    <3>3. CASE k = n
      <4>1. More(h, n)[k + 1] = step[<<n, h[n]>>]
        BY <3>0, <3>3
      <4> HIDE DEF More
      <4> QED BY <3>1, <3>3, <4>1
    <3> QED BY <3>0, <3>2, <3>3
  <2> HIDE DEF More
  <2> QED BY <2>2, <2>3, <2>4
<1>3. \A n \in Nat : n \in P
  <2>1. \A n \in Nat : n \in P => n + 1 \in P
    <3> SUFFICES ASSUME NEW n \in Nat, n \in P PROVE n + 1 \in P
      OBVIOUS
    <3>1. PICK h : h \in Segs(n)
      OBVIOUS
    <3> HIDE DEF Segs, More
    <3> QED BY <1>2, <3>1
  <2> HIDE DEF P
  <2> QED BY <1>1, <2>1, Induction
<1>4. ASSUME NEW m \in Nat, NEW n \in Nat, m <= n,
             NEW h \in Segs(m), NEW j \in Segs(n)
      PROVE  \A k \in 0..m : h[k] = j[k]
  <2> DEFINE Q == {k \in Nat : k <= m => h[k] = j[k]}
  <2>1. 0 \in Q
    OBVIOUS
  <2>2. ASSUME NEW k \in Nat, k \in Q PROVE k + 1 \in Q
    <3> SUFFICES ASSUME k + 1 <= m PROVE h[k + 1] = j[k + 1]
      OBVIOUS
    <3>1. k <= m /\ k \in 0..m-1 /\ k \in 0..n-1
      BY <1>4
    <3>2. h[k] = j[k]
      BY <2>2, <3>1
    <3>3. /\ h[k + 1] = step[<<k, h[k]>>]
          /\ j[k + 1] = step[<<k, j[k]>>]
      BY <3>1
    <3> QED BY <3>2, <3>3
  <2>3. \A k \in Nat : k \in Q
    <3> HIDE DEF Q
    <3> QED BY <2>1, <2>2, Induction
  <2> QED BY <2>3
<1>5. ASSUME NEW n \in Nat
      PROVE  (CHOOSE h \in Segs(n) : TRUE) \in Segs(n)
  <2>1. Segs(n) # {}
    BY <1>3
  <2> HIDE DEF Segs
  <2> QED BY <2>1
<1>6. ASSUME NEW n \in Nat PROVE g[n] \in S
  <2>1. (CHOOSE h \in Segs(n) : TRUE) \in Segs(n)
    BY <1>5
  <2>2. (CHOOSE h \in Segs(n) : TRUE)[n] \in S
    BY <2>1
  <2> QED BY <2>2
<1>7. g[0] = a
  <2>1. (CHOOSE h \in Segs(0) : TRUE) \in Segs(0)
    <3>1. 0 \in Nat
      OBVIOUS
    <3> HIDE DEF Segs
    <3> QED BY <1>5, <3>1
  <2>2. \A h \in Segs(0) : h[0] = a
    OBVIOUS
  <2>3. (CHOOSE h \in Segs(0) : TRUE)[0] = a
    <3> HIDE DEF Segs
    <3> QED BY <2>1, <2>2
  <2>4. g[0] = (CHOOSE h \in Segs(0) : TRUE)[0]
    <3> HIDE DEF Segs
    <3> QED OBVIOUS
  <2> HIDE DEF g, Segs
  <2> QED BY <2>3, <2>4
<1>8. ASSUME NEW n \in Nat PROVE g[n + 1] = step[<<n, g[n]>>]
  <2>1. PICK h \in Segs(n) : g[n] = h[n]
    BY <1>5
  <2>2. PICK j \in Segs(n + 1) : g[n + 1] = j[n + 1]
    <3>1. n + 1 \in Nat
      OBVIOUS
    <3> QED BY <1>5, <3>1
  <2>3. h[n] = j[n]
    <3>1. n \in Nat /\ n + 1 \in Nat /\ n <= n + 1 /\ n \in 0..n
      OBVIOUS
    <3> HIDE DEF Segs
    <3> QED BY <1>4, <3>1
  <2>4. j[n + 1] = step[<<n, j[n]>>]
    <3>1. n \in 0..(n + 1) - 1
      OBVIOUS
    <3> QED BY <3>1
  <2> QED BY <2>1, <2>2, <2>3, <2>4
<1>9. g \in [Nat -> S]
  BY <1>6
<1>10. Recurs(g, a, step)
  <2> HIDE DEF g
  <2> QED BY <1>7, <1>8 DEF Recurs
<1> HIDE DEF g
<1> QED BY <1>9, <1>10

(* Concatenation is associative: the library's theorem, with a name for    *)
(* what it says of three sequences.                                        *)
Associates(u, v, w) == u \o (v \o w) = (u \o v) \o w

LEMMA Associativity ==
    ASSUME NEW E, NEW u \in Seq(E), NEW v \in Seq(E), NEW w \in Seq(E)
    PROVE  Associates(u, v, w)
BY ConcatAssociative DEF Associates

(* FlattenSeq appends the sequences one after the other: g[n] is what the  *)
(* first n of them give.                                                   *)
LEMMA FlattenSteps ==
    ASSUME NEW E, NEW s \in Seq(Seq(E))
    PROVE  \E g \in [Nat -> Seq(E)] :
              /\ g[0] = <<>>
              /\ \A n \in 0..Len(s)-1 : g[n + 1] = g[n] \o s[n + 1]
<1> DEFINE step == [p \in Nat \X Seq(E) |->
                      IF p[1] < Len(s) THEN p[2] \o s[p[1] + 1] ELSE p[2]]
<1>1. step \in [Nat \X Seq(E) -> Seq(E)]
  <2>1. ASSUME NEW n \in Nat, NEW v \in Seq(E)
        PROVE  (IF n < Len(s) THEN v \o s[n + 1] ELSE v) \in Seq(E)
    <3>1. CASE n < Len(s)
      <4>1. s[n + 1] \in Seq(E)
        BY <3>1, ElementOfSeq
      <4> QED BY <3>1, <4>1, ConcatProperties
    <3> QED BY <3>1
  <2> QED BY <2>1
<1>2. <<>> \in Seq(E)
  OBVIOUS
<1>3. PICK g \in [Nat -> Seq(E)] : Recurs(g, <<>>, step)
  <2> HIDE DEF step
  <2> QED BY <1>1, <1>2, Recursion
<1>4. g[0] = <<>> /\ \A n \in Nat : g[n + 1] = step[<<n, g[n]>>]
  <2> HIDE DEF step
  <2> QED BY <1>3 DEF Recurs
<1>5. ASSUME NEW n \in 0..Len(s)-1 PROVE g[n + 1] = g[n] \o s[n + 1]
  <2>1. n \in Nat /\ n < Len(s)
    OBVIOUS
  <2>2. g[n] \in Seq(E)
    BY <2>1
  <2> QED BY <1>4, <2>1, <2>2
<1> QED BY <1>4, <1>5

(* There is only one such function, as far as the sequences go. *)
LEMMA FlattenUnique ==
    ASSUME NEW E, NEW s \in Seq(Seq(E)), NEW g,
           g[0] = <<>>,
           \A n \in 0..Len(s)-1 : g[n + 1] = g[n] \o s[n + 1]
    PROVE  FlattenSeq(s) = g[Len(s)]
<1>1. CASE Len(s) = 0
  <2>1. s = <<>>
    BY <1>1, EmptySeq
  <2>2. FlattenSeq(s) = s
    BY <1>1 DEF FlattenSeq
  <2> QED BY <1>1, <2>1, <2>2
<1>2. CASE Len(s) # 0
  <2> DEFINE f == [i \in 1..Len(s) |-> g[i]]
  <2>0. Len(s) \in Nat /\ 1 \in 1..Len(s) /\ Len(s) \in 1..Len(s)
    BY <1>2, LenProperties
  <2>1. g[1] = s[1]
    <3>1. g[1] = g[0] \o s[1]
      <4>1. 0 \in 0..Len(s)-1 /\ 0 + 1 = 1
        BY <2>0
      <4> QED BY <4>1
    <3>2. s[1] \in Seq(E)
      BY <2>0, ElementOfSeq
    <3> QED BY <3>1, <3>2, ConcatEmptySeq
  <2>2. ASSUME NEW i \in 1..Len(s), i # 1
        PROVE  f[i] = f[i - 1] \o s[i]
    <3>1. i - 1 \in 0..Len(s)-1 /\ i - 1 \in 1..Len(s) /\ (i - 1) + 1 = i
      BY <2>0, <2>2
    <3> QED BY <3>1
  <2>3. f = [i \in 1..Len(s) |-> IF i = 1 THEN s[i] ELSE f[i-1] \o s[i]]
    <3>1. ASSUME NEW i \in 1..Len(s)
          PROVE  f[i] = IF i = 1 THEN s[i] ELSE f[i - 1] \o s[i]
      BY <2>1, <2>2
    <3>2. f = [i \in 1..Len(s) |-> f[i]]
      OBVIOUS
    <3> HIDE DEF f
    <3> QED BY <3>1, <3>2
  <2>4. ASSUME NEW h,
               h = [i \in 1..Len(s) |-> IF i = 1 THEN s[i]
                                        ELSE h[i-1] \o s[i]]
        PROVE  h = f
    <3> DEFINE P == {i \in Nat : i + 1 <= Len(s) => h[i + 1] = f[i + 1]}
    <3>1. 0 \in P
      <4>1. h[1] = s[1]
        BY <2>0, <2>4
      <4> QED BY <2>0, <2>1, <4>1
    <3>2. ASSUME NEW i \in Nat, i \in P PROVE i + 1 \in P
      <4> SUFFICES ASSUME (i + 1) + 1 <= Len(s)
                   PROVE  h[(i + 1) + 1] = f[(i + 1) + 1]
        OBVIOUS
      <4>1. /\ (i + 1) + 1 \in 1..Len(s) /\ (i + 1) + 1 # 1
            /\ ((i + 1) + 1) - 1 = i + 1 /\ i + 1 <= Len(s)
        BY <2>0
      <4>2. h[i + 1] = f[i + 1]
        BY <3>2, <4>1
      <4>3. h[(i + 1) + 1] = h[i + 1] \o s[(i + 1) + 1]
        BY <2>4, <4>1
      <4>4. f[(i + 1) + 1] = f[i + 1] \o s[(i + 1) + 1]
        <5> HIDE DEF f
        <5> QED BY <2>2, <4>1
      <4> HIDE DEF f
      <4> QED BY <4>2, <4>3, <4>4
    <3>3. \A i \in Nat : i \in P
      <4> HIDE DEF P
      <4> QED BY <3>1, <3>2, Induction
    <3>4. \A i \in 1..Len(s) : h[i] = f[i]
      <4> SUFFICES ASSUME NEW i \in 1..Len(s) PROVE h[i] = f[i]
        OBVIOUS
      <4>1. i - 1 \in Nat /\ (i - 1) + 1 = i /\ (i - 1) + 1 <= Len(s)
        BY <2>0
      <4> HIDE DEF f
      <4> QED BY <3>3, <4>1
    <3>5. h = [i \in 1..Len(s) |-> h[i]] /\ f = [i \in 1..Len(s) |-> f[i]]
      BY <2>4
    <3> HIDE DEF f
    <3> QED BY <3>4, <3>5
  <2>5. FlattenSeq(s) = f[Len(s)]
    <3> HIDE DEF f
    <3> QED BY <1>2, <2>3, <2>4, Zenon DEF FlattenSeq
  <2> QED BY <2>0, <2>5
<1> QED BY <1>1, <1>2

(* A sequence of sequences over E gives a sequence over E; none gives the  *)
(* empty one, one gives itself.                                            *)
LEMMA FlattenType ==
    ASSUME NEW E, NEW s \in Seq(Seq(E)) PROVE FlattenSeq(s) \in Seq(E)
<1>1. PICK g \in [Nat -> Seq(E)] :
         /\ g[0] = <<>>
         /\ \A n \in 0..Len(s)-1 : g[n + 1] = g[n] \o s[n + 1]
  BY FlattenSteps
<1>2. FlattenSeq(s) = g[Len(s)]
  BY <1>1, FlattenUnique
<1> QED BY <1>2, LenProperties

LEMMA FlattenNone == FlattenSeq(<<>>) = <<>>
BY DEF FlattenSeq

LEMMA FlattenOne ==
    ASSUME NEW E, NEW x \in Seq(E) PROVE FlattenSeq(<<x>>) = x
<1> DEFINE g == [n \in 0..1 |-> IF n = 0 THEN <<>> ELSE x]
<1>1. /\ <<x>> \in Seq(Seq(E)) /\ Len(<<x>>) = 1
      /\ <<x>>[1] = x
  OBVIOUS
<1>2. g[0] = <<>> /\ g[1] = x
  OBVIOUS
<1>3. \A n \in 0..Len(<<x>>)-1 : g[n + 1] = g[n] \o <<x>>[n + 1]
  <2>1. <<>> \o x = x
    BY ConcatEmptySeq
  <2> SUFFICES ASSUME NEW n \in 0..Len(<<x>>)-1
               PROVE  g[n + 1] = g[n] \o <<x>>[n + 1]
    OBVIOUS
  <2>2. n = 0 /\ n + 1 = 1
    BY <1>1
  <2> HIDE DEF g
  <2> QED BY <1>1, <1>2, <2>1, <2>2
<1> HIDE DEF g
<1> QED BY <1>1, <1>2, <1>3, FlattenUnique

(* The sequences of a concatenation give the concatenation. *)
LEMMA FlattenConcat ==
    ASSUME NEW E, NEW s \in Seq(Seq(E)), NEW t \in Seq(Seq(E))
    PROVE  FlattenSeq(s \o t) = FlattenSeq(s) \o FlattenSeq(t)
<1>1. PICK g \in [Nat -> Seq(E)] :
         /\ g[0] = <<>>
         /\ \A n \in 0..Len(s)-1 : g[n + 1] = g[n] \o s[n + 1]
  BY FlattenSteps
<1>2. PICK h \in [Nat -> Seq(E)] :
         /\ h[0] = <<>>
         /\ \A n \in 0..Len(t)-1 : h[n + 1] = h[n] \o t[n + 1]
  BY FlattenSteps
<1> DEFINE ls == Len(s)
           lt == Len(t)
           f == [n \in Nat |-> IF n <= ls THEN g[n] ELSE g[ls] \o h[n - ls]]
           st == s \o t
<1>3. /\ ls \in Nat /\ lt \in Nat
      /\ FlattenSeq(s) = g[ls] /\ FlattenSeq(t) = h[lt]
  BY <1>1, <1>2, FlattenUnique, LenProperties
<1>4. /\ st \in Seq(Seq(E)) /\ Len(st) = ls + lt
      /\ \A i \in 1..ls + lt : st[i] = IF i <= ls THEN s[i] ELSE t[i - ls]
  BY ConcatProperties
<1>5. \A n \in Nat : f[ls + n] = g[ls] \o h[n]
  <2>1. g[ls] \o h[0] = g[ls]
    BY <1>1, <1>2, <1>3, ConcatEmptySeq
  <2> SUFFICES ASSUME NEW n \in Nat PROVE f[ls + n] = g[ls] \o h[n]
    OBVIOUS
  <2>2. CASE n = 0
    <3>1. ls + n = ls
      BY <1>3, <2>2
    <3>2. f[ls] = g[ls]
      BY <1>3
    <3> HIDE DEF f
    <3> QED BY <2>1, <2>2, <3>1, <3>2
  <2>3. CASE n # 0
    <3> HIDE DEF ls
    <3>1. ls + n \in Nat /\ ~(ls + n <= ls) /\ (ls + n) - ls = n
      BY <1>3, <2>3
    <3> QED BY <3>1
  <2> QED BY <2>2, <2>3
<1>6. ASSUME NEW n \in 0..Len(st)-1 PROVE f[n + 1] = f[n] \o st[n + 1]
  <2> HIDE DEF ls, lt, st
  <2>1. n \in 0..(ls + lt)-1 /\ n + 1 \in 1..ls + lt
    BY <1>3, <1>4
  <2>2. CASE n < ls
    <3>0. n \in Nat /\ n + 1 <= ls /\ n <= ls /\ n \in 0..ls-1
      BY <1>3, <2>1, <2>2
    <3>1. st[n + 1] = s[n + 1]
      BY <1>4, <2>1, <3>0
    <3>2. f[n] = g[n] /\ f[n + 1] = g[n + 1]
      BY <3>0
    <3>3. g[n + 1] = g[n] \o s[n + 1]
      BY <1>1, <3>0 DEF ls
    <3> QED BY <3>1, <3>2, <3>3
  <2>3. CASE n >= ls
    <3> DEFINE k == n - ls
    <3>1. /\ k \in 0..lt-1 /\ k \in Nat /\ k + 1 \in Nat
          /\ n = ls + k /\ n + 1 = ls + (k + 1)
          /\ ~(n + 1 <= ls) /\ (n + 1) - ls = k + 1
      BY <1>3, <2>1, <2>3
    <3> HIDE DEF k, f
    <3>2. st[n + 1] = t[k + 1]
      BY <1>4, <2>1, <3>1
    <3>3. f[n] = g[ls] \o h[k] /\ f[n + 1] = g[ls] \o h[k + 1]
      BY <1>5, <3>1
    <3>4. h[k + 1] = h[k] \o t[k + 1]
      BY <1>2, <3>1 DEF lt
    <3>5. g[ls] \in Seq(E) /\ h[k] \in Seq(E)
      BY <1>3, <3>1
    <3>6. t[k + 1] \in Seq(E)
      <4>1. k + 1 \in 1..Len(t)
        BY <1>3, <3>1 DEF lt
      <4> QED BY <4>1, ElementOfSeq
    <3>7. g[ls] \o (h[k] \o t[k + 1]) = (g[ls] \o h[k]) \o t[k + 1]
      <4>1. Associates(g[ls], h[k], t[k + 1])
        BY <3>5, <3>6, Associativity
      <4> QED BY <4>1 DEF Associates
    <3> QED BY <3>2, <3>3, <3>4, <3>7
  <2>4. n < ls \/ n >= ls
    BY <1>3, <2>1
  <2> QED BY <2>2, <2>3, <2>4
<1>7. f[0] = <<>>
  BY <1>1, <1>3
<1>8. FlattenSeq(st) = f[Len(st)]
  <2> HIDE DEF f, st
  <2> QED BY <1>4, <1>6, <1>7, FlattenUnique
<1>9. f[Len(st)] = g[ls] \o h[lt]
  <2> HIDE DEF f
  <2> QED BY <1>3, <1>4, <1>5
<1> QED BY <1>3, <1>8, <1>9
(* The sequence w is p and then q, element by element. *)
Joins(w, p, q) ==
    /\ Len(w) = Len(p) + Len(q)
    /\ \A m \in 1..Len(p) : w[m] = p[m]
    /\ \A m \in 1..Len(q) : w[Len(p) + m] = q[m]

LEMMA Joining ==
    ASSUME NEW E, NEW p \in Seq(E), NEW q \in Seq(E)
    PROVE  p \o q \in Seq(E) /\ Joins(p \o q, p, q)
BY DEF Joins

(* RemoveAt takes out one element and moves those after it forward. *)
LEMMA RemoveAtProperties ==
    ASSUME NEW E, NEW s \in Seq(E), NEW i \in 1..Len(s)
    PROVE  /\ RemoveAt(s, i) \in Seq(E)
           /\ Len(RemoveAt(s, i)) = Len(s) - 1
           /\ \A m \in 1..Len(s)-1 :
                RemoveAt(s, i)[m] = IF m < i THEN s[m] ELSE s[m + 1]
<1> DEFINE a == SubSeq(s, 1, i - 1)
           b == SubSeq(s, i + 1, Len(s))
<1>1. /\ a \in Seq(E) /\ Len(a) = i - 1
      /\ \A m \in 1..i-1 : a[m] = s[m]
  OBVIOUS
<1>2. /\ b \in Seq(E) /\ Len(b) = Len(s) - i
      /\ \A m \in 1..Len(s)-i : b[m] = s[i + m]
  OBVIOUS
<1>3. RemoveAt(s, i) = a \o b
  BY DEF RemoveAt
<1>4. Len(s) \in Nat /\ i \in Int
  BY LenProperties
<1> HIDE DEF a, b
<1>5. /\ a \o b \in Seq(E) /\ Len(a \o b) = Len(s) - 1
      /\ \A m \in 1..i-1 : (a \o b)[m] = a[m]
      /\ \A m \in 1..Len(s)-i : (a \o b)[(i - 1) + m] = b[m]
  <2>1. a \o b \in Seq(E) /\ Joins(a \o b, a, b)
    BY <1>1, <1>2, Joining
  <2> QED BY <1>1, <1>2, <1>4, <2>1 DEF Joins
<1>6. ASSUME NEW m \in 1..Len(s)-1
      PROVE  (a \o b)[m] = IF m < i THEN s[m] ELSE s[m + 1]
  <2>1. CASE m < i
    <3>1. m \in 1..i-1 /\ m <= i - 1
      BY <1>4, <2>1
    <3> QED BY <1>1, <1>5, <2>1, <3>1
  <2>2. CASE ~(m < i)
    <3>1. /\ m - (i - 1) \in 1..Len(s)-i /\ ~(m <= i - 1)
          /\ i + (m - (i - 1)) = m + 1
          /\ (i - 1) + (m - (i - 1)) = m
      BY <1>4, <2>2
    <3>2. (a \o b)[m] = b[m - (i - 1)]
      BY <1>5, <3>1
    <3>3. b[m - (i - 1)] = s[m + 1]
      BY <1>2, <3>1
    <3> QED BY <2>2, <3>2, <3>3
  <2> QED BY <2>1, <2>2
<1> QED BY <1>3, <1>5, <1>6

(* The last element is taken out by taking the front. *)
LEMMA RemoveLast ==
    ASSUME NEW E, NEW s \in Seq(E), s # <<>>
    PROVE  RemoveAt(s, Len(s)) = Front(s)
<1>1. Len(s) \in Nat \ {0} /\ Len(s) \in 1..Len(s)
  BY EmptySeq, LenProperties
<1>2. /\ RemoveAt(s, Len(s)) \in Seq(E)
      /\ Len(RemoveAt(s, Len(s))) = Len(s) - 1
      /\ \A m \in 1..Len(s)-1 : RemoveAt(s, Len(s))[m] = s[m]
  BY <1>1, RemoveAtProperties
<1>3. /\ Front(s) \in Seq(E) /\ Len(Front(s)) = Len(s) - 1
      /\ \A m \in 1..Len(s)-1 : Front(s)[m] = s[m]
  BY <1>1 DEF Front
<1> QED BY <1>2, <1>3, SeqEqual

(* Three sequences in a row, element by element. *)
Row(w, p, n, q) ==
    /\ Len(w) = Len(p) + Len(n) + Len(q)
    /\ \A m \in 1..Len(p) : w[m] = p[m]
    /\ \A m \in 1..Len(n) : w[Len(p) + m] = n[m]
    /\ \A m \in 1..Len(q) : w[Len(p) + Len(n) + m] = q[m]

LEMMA RowOfThree ==
    ASSUME NEW E, NEW p \in Seq(E), NEW n \in Seq(E), NEW q \in Seq(E)
    PROVE  (p \o n) \o q \in Seq(E) /\ Row((p \o n) \o q, p, n, q)
BY DEF Row

(* To take an element out of the middle one of three sequences is to take  *)
(* it out of all of them.                                                  *)
TakenInside(p, n, q, j) ==
    RemoveAt((p \o n) \o q, Len(p) + j) = (p \o RemoveAt(n, j)) \o q

LEMMA RemoveInside ==
    ASSUME NEW E, NEW p \in Seq(E), NEW n \in Seq(E), NEW q \in Seq(E),
           NEW j \in 1..Len(n)
    PROVE  TakenInside(p, n, q, j)
<1> DEFINE w == (p \o n) \o q
           r == RemoveAt(n, j)
           v == (p \o r) \o q
           i == Len(p) + j
<1>1. Len(p) \in Nat /\ Len(n) \in Nat /\ Len(q) \in Nat
  BY LenProperties
<1>2. /\ r \in Seq(E) /\ Len(r) = Len(n) - 1
      /\ \A m \in 1..Len(n)-1 : r[m] = IF m < j THEN n[m] ELSE n[m + 1]
  BY RemoveAtProperties
<1>3. /\ w \in Seq(E) /\ Len(w) = Len(p) + Len(n) + Len(q)
      /\ \A m \in 1..Len(p) : w[m] = p[m]
      /\ \A m \in 1..Len(n) : w[Len(p) + m] = n[m]
      /\ \A m \in 1..Len(q) : w[Len(p) + Len(n) + m] = q[m]
  BY RowOfThree DEF Row
<1>4. /\ v \in Seq(E) /\ Len(v) = Len(p) + (Len(n) - 1) + Len(q)
      /\ \A m \in 1..Len(p) : v[m] = p[m]
      /\ \A m \in 1..Len(n)-1 : v[Len(p) + m] = r[m]
      /\ \A m \in 1..Len(q) : v[Len(p) + (Len(n) - 1) + m] = q[m]
  <2> HIDE DEF r
  <2>1. v \in Seq(E) /\ Row(v, p, r, q)
    BY <1>2, RowOfThree
  <2> HIDE DEF v
  <2> QED BY <1>2, <2>1 DEF Row
<1>5. i \in 1..Len(w) /\ j \in Int /\ i = Len(p) + j
  BY <1>1, <1>3
<1> HIDE DEF w, r, v, i
<1>6. /\ RemoveAt(w, i) \in Seq(E) /\ Len(RemoveAt(w, i)) = Len(w) - 1
      /\ \A m \in 1..Len(w)-1 :
           RemoveAt(w, i)[m] = IF m < i THEN w[m] ELSE w[m + 1]
  BY <1>3, <1>5, RemoveAtProperties
<1>7. ASSUME NEW m \in 1..Len(w)-1 PROVE RemoveAt(w, i)[m] = v[m]
  <2>1. CASE m <= Len(p)
    <3>1. m \in 1..Len(p) /\ m < i
      BY <1>1, <1>5, <2>1
    <3> QED BY <1>3, <1>4, <1>6, <3>1
  <2>2. CASE Len(p) < m /\ m <= Len(p) + (Len(n) - 1)
    <3>1. PICK k \in 1..Len(n)-1 : m = Len(p) + k
      <4>1. m - Len(p) \in 1..Len(n)-1 /\ m = Len(p) + (m - Len(p))
        BY <1>1, <2>2
      <4> QED BY <4>1
    <3>2. /\ k \in 1..Len(n) /\ k + 1 \in 1..Len(n)
          /\ m + 1 = Len(p) + (k + 1) /\ (m < i <=> k < j)
      BY <1>1, <1>5, <3>1
    <3>3. w[m] = n[k] /\ w[m + 1] = n[k + 1] /\ v[m] = r[k]
      BY <1>3, <1>4, <3>1, <3>2
    <3> QED BY <1>2, <1>6, <3>1, <3>2, <3>3
  <2>3. CASE m > Len(p) + (Len(n) - 1)
    <3>1. PICK k \in 1..Len(q) : m = Len(p) + (Len(n) - 1) + k
      <4> DEFINE k == m - (Len(p) + (Len(n) - 1))
      <4>1. k \in 1..Len(q) /\ m = Len(p) + (Len(n) - 1) + k
        BY <1>1, <1>3, <2>3
      <4> QED BY <4>1
    <3>2. m + 1 = Len(p) + Len(n) + k /\ ~(m < i)
      BY <1>1, <1>5, <3>1
    <3>3. w[m + 1] = q[k] /\ v[m] = q[k]
      BY <1>3, <1>4, <3>1, <3>2
    <3> QED BY <1>6, <3>2, <3>3
  <2> QED BY <1>1, <1>3, <2>1, <2>2, <2>3
<1>8. Len(RemoveAt(w, i)) = Len(v)
  BY <1>1, <1>3, <1>4, <1>6
<1>9. RemoveAt(w, i) = v
  BY <1>4, <1>6, <1>7, <1>8, SeqEqual
<1> QED BY <1>9 DEF w, r, v, i, TakenInside
(* What the sequences before and after the k-th give. *)
Pre(s, k)  == FlattenSeq(SubSeq(s, 1, k - 1))
Post(s, k) == FlattenSeq(SubSeq(s, k + 1, Len(s)))

(* A sequence is what is before an element, the element, what is after it. *)
LEMMA SplitAt ==
    ASSUME NEW E, NEW s \in Seq(E), NEW k \in 1..Len(s)
    PROVE  /\ SubSeq(s, 1, k - 1) \in Seq(E)
           /\ SubSeq(s, k + 1, Len(s)) \in Seq(E)
           /\ s = (SubSeq(s, 1, k - 1) \o <<s[k]>>)
                     \o SubSeq(s, k + 1, Len(s))
<1> DEFINE p == SubSeq(s, 1, k - 1)
           q == SubSeq(s, k + 1, Len(s))
           n == <<s[k]>>
           w == (p \o n) \o q
<1>0. Len(s) \in Nat /\ k \in Nat
  BY LenProperties
<1>1. /\ p \in Seq(E) /\ Len(p) = k - 1
      /\ \A m \in 1..k-1 : p[m] = s[m]
  OBVIOUS
<1>2. /\ q \in Seq(E) /\ Len(q) = Len(s) - k
      /\ \A m \in 1..Len(s)-k : q[m] = s[k + m]
  OBVIOUS
<1>3. n \in Seq(E) /\ Len(n) = 1 /\ n[1] = s[k]
  BY ElementOfSeq
<1>4. w \in Seq(E) /\ Row(w, p, n, q)
  <2> HIDE DEF p, n, q
  <2> QED BY <1>1, <1>2, <1>3, RowOfThree
<1> HIDE DEF p, n, q, w
<1>5. Len(w) = Len(s)
  BY <1>0, <1>1, <1>2, <1>3, <1>4 DEF Row
<1>6. ASSUME NEW m \in 1..Len(s) PROVE s[m] = w[m]
  <2>1. CASE m < k
    BY <1>0, <1>1, <1>4, <2>1 DEF Row
  <2>2. CASE m = k
    <3>1. m = Len(p) + 1 /\ 1 \in 1..Len(n)
      BY <1>0, <1>1, <1>3, <2>2
    <3> QED BY <1>3, <1>4, <2>2, <3>1 DEF Row
  <2>3. CASE m > k
    <3>1. PICK j \in 1..Len(s)-k : m = k + j
      <4>1. m - k \in 1..Len(s)-k /\ m = k + (m - k)
        BY <1>0, <2>3
      <4> QED BY <4>1
    <3>2. j \in 1..Len(q) /\ m = Len(p) + Len(n) + j
      BY <1>0, <1>1, <1>2, <1>3, <3>1
    <3> QED BY <1>2, <1>4, <3>1, <3>2 DEF Row
  <2> QED BY <1>0, <2>1, <2>2, <2>3
<1>7. s = w
  BY <1>4, <1>5, <1>6, SeqEqual
<1> QED BY <1>1, <1>2, <1>7 DEF p, n, q, w

(* So is what a sequence of sequences gives. *)
LEMMA FlattenAt ==
    ASSUME NEW E, NEW s \in Seq(Seq(E)), NEW k \in 1..Len(s)
    PROVE  /\ s[k] \in Seq(E) /\ Pre(s, k) \in Seq(E) /\ Post(s, k) \in Seq(E)
           /\ FlattenSeq(s) = (Pre(s, k) \o s[k]) \o Post(s, k)
<1> DEFINE p == SubSeq(s, 1, k - 1)
           q == SubSeq(s, k + 1, Len(s))
           n == <<s[k]>>
<1>1. s[k] \in Seq(E) /\ n \in Seq(Seq(E))
  BY ElementOfSeq
<1>2. p \in Seq(Seq(E)) /\ q \in Seq(Seq(E)) /\ s = (p \o n) \o q
  BY SplitAt
<1>3. FlattenSeq(n) = s[k]
  BY <1>1, FlattenOne
<1> HIDE DEF p, q, n
<1>4. p \o n \in Seq(Seq(E)) /\ FlattenSeq(p \o n) = FlattenSeq(p) \o s[k]
  BY <1>1, <1>2, <1>3, FlattenConcat, ConcatProperties
<1>5. FlattenSeq((p \o n) \o q) = FlattenSeq(p \o n) \o FlattenSeq(q)
  BY <1>2, <1>4, FlattenConcat
<1>6. FlattenSeq(p) \in Seq(E) /\ FlattenSeq(q) \in Seq(E)
  BY <1>2, FlattenType
<1>7. Pre(s, k) = FlattenSeq(p) /\ Post(s, k) = FlattenSeq(q)
  BY DEF Pre, Post, p, q
<1> QED BY <1>1, <1>2, <1>4, <1>5, <1>6, <1>7

LEMMA FlattenAppend ==
    ASSUME NEW E, NEW s \in Seq(Seq(E)), NEW x \in Seq(E)
    PROVE  FlattenSeq(Append(s, x)) = FlattenSeq(s) \o x
<1>1. Append(s, x) = s \o <<x>> /\ <<x>> \in Seq(Seq(E))
  BY AppendIsConcat
<1>2. FlattenSeq(s \o <<x>>) = FlattenSeq(s) \o FlattenSeq(<<x>>)
  BY <1>1, FlattenConcat
<1> QED BY <1>1, <1>2, FlattenOne

(* What is before the next place. *)
LEMMA PreFirst == ASSUME NEW s PROVE Pre(s, 1) = <<>>
<1>1. 1 - 1 = 0 /\ SubSeq(s, 1, 0) = <<>>
  BY SubSeqEmpty
<1> QED BY <1>1, FlattenNone DEF Pre

LEMMA PreNext ==
    ASSUME NEW E, NEW s \in Seq(Seq(E)), NEW k \in 1..Len(s)
    PROVE  Pre(s, k + 1) = Pre(s, k) \o s[k]
<1>1. SubSeq(s, 1, k) = Append(SubSeq(s, 1, k - 1), s[k])
  BY LenProperties
<1>2. SubSeq(s, 1, k - 1) \in Seq(Seq(E)) /\ s[k] \in Seq(E)
  BY SplitAt, ElementOfSeq
<1>3. (k + 1) - 1 = k
  OBVIOUS
<1> QED BY <1>1, <1>2, <1>3, FlattenAppend DEF Pre

(* Two sequences that agree up to a place have the same before it. *)
LEMMA PreSame ==
    ASSUME NEW E, NEW s \in Seq(E), NEW t \in Seq(E), NEW k \in Int,
           k - 1 <= Len(s), k - 1 <= Len(t),
           \A m \in 1..k-1 : s[m] = t[m]
    PROVE  Pre(s, k) = Pre(t, k)
<1>1. SubSeq(s, 1, k - 1) = SubSeq(t, 1, k - 1)
  OBVIOUS
<1> QED BY <1>1 DEF Pre

LEMMA PostSame ==
    ASSUME NEW E, NEW s \in Seq(E), NEW t \in Seq(E), NEW k \in Nat,
           Len(s) = Len(t), \A m \in k+1..Len(s) : s[m] = t[m]
    PROVE  Post(s, k) = Post(t, k)
<1>1. SubSeq(s, k + 1, Len(s)) = SubSeq(t, k + 1, Len(t))
  OBVIOUS
<1> QED BY <1>1 DEF Post

(* One of the sequences replaced; one of them taken out. *)
LEMMA FlattenReplace ==
    ASSUME NEW E, NEW s \in Seq(Seq(E)), NEW k \in 1..Len(s),
           NEW x \in Seq(E)
    PROVE  FlattenSeq([s EXCEPT ![k] = x]) = (Pre(s, k) \o x) \o Post(s, k)
<1> DEFINE t == [s EXCEPT ![k] = x]
<1>1. /\ t \in Seq(Seq(E)) /\ Len(t) = Len(s) /\ t[k] = x
      /\ \A m \in 1..Len(s) : m # k => t[m] = s[m]
  BY ExceptSeq
<1>2. k \in Nat /\ Len(s) \in Nat
  BY LenProperties
<1> HIDE DEF t
<1>3. Pre(t, k) = Pre(s, k)
  <2>1. /\ k \in Int /\ k - 1 <= Len(s)
        /\ \A m \in 1..k-1 : m \in 1..Len(s) /\ m # k
    BY <1>2
  <2>2. k - 1 <= Len(t) /\ \A m \in 1..k-1 : t[m] = s[m]
    BY <1>1, <2>1
  <2> QED BY <1>1, <2>1, <2>2, PreSame
<1>4. Post(t, k) = Post(s, k)
  BY <1>1, <1>2, PostSame
<1>5. FlattenSeq(t) = (Pre(t, k) \o t[k]) \o Post(t, k)
  BY <1>1, FlattenAt
<1>6. FlattenSeq(t) = (Pre(s, k) \o x) \o Post(s, k)
  BY <1>1, <1>3, <1>4, <1>5
<1> QED BY <1>6 DEF t

LEMMA FlattenRemove ==
    ASSUME NEW E, NEW s \in Seq(Seq(E)), NEW k \in 1..Len(s)
    PROVE  FlattenSeq(RemoveAt(s, k)) = Pre(s, k) \o Post(s, k)
<1>1. /\ SubSeq(s, 1, k - 1) \in Seq(Seq(E))
      /\ SubSeq(s, k + 1, Len(s)) \in Seq(Seq(E))
  BY SplitAt
<1> QED BY <1>1, FlattenConcat DEF Pre, Post, RemoveAt
=============================================================================
