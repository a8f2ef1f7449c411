-------------------------- MODULE DumpRestoreProofs --------------------------
(***************************************************************************)
(* Proofs about a simulation that may be dumped and resumed, for every     *)
(* task system and every number of restarts.                               *)
(*                                                                         *)
(* They go along the life of a file.  A dump lists the jobs of both        *)
(* queues, a dropped job leaves the other records as they are, and so the  *)
(* turns of the loop over the records fill the queues of the new process   *)
(* with them.  DumpInv says what then holds at every point of the process: *)
(* from the first call on it is the invariant of the event loop that does  *)
(* not depend on how the queues were filled (LoopInv), unless there is no  *)
(* job to come.  That no job is late is kept apart (DumpOnTime): it holds  *)
(* of dumps that are written between two runs, not of those a signal       *)
(* causes.                                                                 *)
(***************************************************************************)
EXTENDS DumpRestore, EventLoopProofs, SequenceLemmas

(* What a function yields for the elements of a finite set is finite. *)
LEMMA FiniteImage ==
    ASSUME NEW S, IsFiniteSet(S), NEW f
    PROVE  IsFiniteSet({f[x] : x \in S})
<1> DEFINE T == {f[x] : x \in S}
           g == [x \in S |-> f[x]]
<1>1. g \in Surjection(S, T)
  BY DEF Surjection
<1> HIDE DEF g, T
<1>2. IsFiniteSet(T)
  BY <1>1, FS_Surjection
<1> QED BY <1>2 DEF T

(***************************************************************************)
(* The dump                                                                *)
(***************************************************************************)

(* The record with number k, counted from 0, is inside the file f.         *)
InFile(f, k) == 5 * k + 6 <= Len(f)

(* The five numbers of that record. *)
RecordAt(f, k) ==
    job_init(f[5 * k + 2], f[5 * k + 3], f[5 * k + 4], f[5 * k + 5], f[5 * k + 6])

(* The numbers in a file. *)
Numbers == Nat \cup Tasks

(* The sequences s of five numbers each make up v, one after the other. *)
Fives(v, s) ==
    /\ Len(v) = 5 * Len(s)
    /\ \A k \in 0..Len(s)-1 : \A i \in 1..5 : v[5 * k + i] = s[k + 1][i]

LEMMA InsideFives ==
    ASSUME NEW n \in Nat, NEW k \in 0..n-1, NEW i \in 1..5
    PROVE  5 * k + i \in 1..5 * n
<1>1. k \in Nat /\ k + 1 <= n /\ i \in Nat /\ i >= 1 /\ i <= 5
  OBVIOUS
<1>2. 5 * k + 5 <= 5 * n /\ 5 * k >= 0 /\ 5 * k \in Nat /\ 5 * n \in Nat
  BY <1>1
<1> QED BY <1>1, <1>2

LEMMA FlattenFives ==
    ASSUME NEW E, NEW s \in Seq(Seq(E)),
           \A k \in 1..Len(s) : Len(s[k]) = 5
    PROVE  FlattenSeq(s) \in Seq(E) /\ Fives(FlattenSeq(s), s)
<1>1. PICK g \in [Nat -> Seq(E)] :
         /\ g[0] = <<>>
         /\ \A n \in 0..Len(s)-1 : g[n + 1] = g[n] \o s[n + 1]
  BY FlattenSteps
<1>2. FlattenSeq(s) = g[Len(s)] /\ Len(s) \in Nat
  BY <1>1, FlattenUnique, LenProperties
<1> DEFINE Good(n) == /\ Len(g[n]) = 5 * n
                      /\ \A k \in 0..n-1 : \A i \in 1..5 :
                            g[n][5 * k + i] = s[k + 1][i]
           P == {n \in Nat : n <= Len(s) => Good(n)}
<1>3. 0 \in P
  BY <1>1
<1>4. ASSUME NEW n \in Nat, n \in P PROVE n + 1 \in P
  <2> SUFFICES ASSUME n + 1 <= Len(s) PROVE Good(n + 1)
    OBVIOUS
  <2>1. n \in 0..Len(s)-1 /\ n + 1 \in 1..Len(s) /\ n <= Len(s)
    BY <1>2
  <2>2. /\ Len(g[n]) = 5 * n
        /\ \A k \in 0..n-1 : \A i \in 1..5 : g[n][5 * k + i] = s[k + 1][i]
    BY <1>4, <2>1
  <2>3. g[n] \in Seq(E) /\ s[n + 1] \in Seq(E) /\ Len(s[n + 1]) = 5
    BY <2>1, ElementOfSeq
  <2>4. g[n + 1] = g[n] \o s[n + 1]
    BY <1>1, <2>1
  <2>5. Joins(g[n + 1], g[n], s[n + 1])
    BY <2>3, <2>4, Joining
  <2>6. Len(g[n + 1]) = 5 * (n + 1)
    BY <2>2, <2>3, <2>5 DEF Joins
  <2>7. ASSUME NEW k \in 0..n, NEW i \in 1..5
        PROVE  g[n + 1][5 * k + i] = s[k + 1][i]
    <3>1. CASE k \in 0..n-1
      <4>1. 5 * k + i \in 1..Len(g[n])
        <5>1. 5 * k + i \in 1..5 * n
          BY <3>1, InsideFives
        <5> QED BY <2>2, <5>1
      <4> QED BY <2>2, <2>5, <3>1, <4>1 DEF Joins
    <3>2. CASE k = n
      <4>1. 5 * k + i = Len(g[n]) + i /\ i \in 1..Len(s[n + 1])
        BY <2>2, <2>3, <3>2
      <4> QED BY <2>5, <3>2, <4>1 DEF Joins
    <3> QED BY <3>1, <3>2
  <2>8. (n + 1) - 1 = n
    OBVIOUS
  <2> QED BY <2>6, <2>7, <2>8
<1>5. \A n \in Nat : n \in P
  <2> HIDE DEF P
  <2> QED BY <1>3, <1>4, Induction
<1>6. Good(Len(s))
  <2>1. Len(s) \in P
    <3> HIDE DEF P
    <3> QED BY <1>2, <1>5
  <2>2. Len(s) <= Len(s)
    BY <1>2
  <2> QED BY <2>1, <2>2
<1> QED BY <1>2, <1>6 DEF Fives

(* A dump has the time, and then a record of every job, in some order.     *)
Lists(f, time, jobs) ==
    /\ f \in Seq(Numbers)
    /\ Len(f) = 5 * Cardinality(jobs) + 1
    /\ f[1] = time
    /\ \E order \in [1..Cardinality(jobs) -> jobs] :
          /\ \A k, l \in 1..Cardinality(jobs) : k # l => order[k] # order[l]
          /\ \A k \in 0..Cardinality(jobs)-1 : RecordAt(f, k) = order[k + 1]

LEMMA DumpLists ==
    ASSUME NEW time \in Nat, NEW jobs \in SUBSET Jobs(Tasks),
           IsFiniteSet(jobs), NEW f \in Dumps(time, jobs)
    PROVE  Lists(f, time, jobs)
<1> DEFINE n == Cardinality(jobs)
<1>0. n \in Nat
  BY FS_CardinalityType
<1>1. PICK order \in SetToSeqs(jobs) :
         f = <<time>> \o FlattenSeq([k \in DOMAIN order |-> Fields(order[k])])
  BY DEF Dumps
<1>2. /\ order \in [1..n -> jobs]
      /\ \A k, l \in 1..n : k # l => order[k] # order[l]
  BY DEF SetToSeqs
<1> DEFINE s == [k \in DOMAIN order |-> Fields(order[k])]
           v == FlattenSeq(s)
<1>3. ASSUME NEW k \in 1..n
      PROVE  /\ s[k] = Fields(order[k]) /\ s[k] \in Seq(Numbers)
             /\ Len(s[k]) = 5
  <2>1. order[k] \in Jobs(Tasks) /\ s[k] = Fields(order[k])
    BY <1>2
  <2>2. Fields(order[k]) \in Seq(Numbers) /\ Len(Fields(order[k])) = 5
    BY <2>1 DEF Fields, Numbers, Jobs
  <2> QED BY <2>1, <2>2
<1>4. s \in [1..n -> Seq(Numbers)] /\ DOMAIN s = 1..n
  BY <1>2, <1>3
<1> HIDE DEF s
<1>5. s \in Seq(Seq(Numbers)) /\ Len(s) = n
  BY <1>0, <1>4
<1>6. v \in Seq(Numbers) /\ Fives(v, s)
  BY <1>3, <1>5, FlattenFives
<1> HIDE DEF v
<1>7. <<time>> \in Seq(Numbers) /\ Len(<<time>>) = 1 /\ <<time>>[1] = time
  BY DEF Numbers
<1>8. f \in Seq(Numbers) /\ Joins(f, <<time>>, v)
  <2>1. f = <<time>> \o v
    BY <1>1 DEF v, s
  <2> QED BY <1>6, <1>7, <2>1, Joining
<1>9. Len(f) = 5 * n + 1 /\ f[1] = time
  <2>1. 1 \in 1..Len(<<time>>)
    BY <1>7
  <2> QED BY <1>0, <1>5, <1>6, <1>7, <1>8, <2>1 DEF Joins, Fives
<1>10. ASSUME NEW k \in 0..n-1 PROVE RecordAt(f, k) = order[k + 1]
  <2>1. k + 1 \in 1..n /\ order[k + 1] \in Jobs(Tasks)
    BY <1>0, <1>2
  <2>2. ASSUME NEW i \in 1..5 PROVE f[5 * k + (i + 1)] = Fields(order[k + 1])[i]
    <3>1. 5 * k + i \in 1..Len(v) /\ 1 + (5 * k + i) = 5 * k + (i + 1)
      BY <1>0, <1>5, <1>6 DEF Fives
    <3>2. f[Len(<<time>>) + (5 * k + i)] = v[5 * k + i]
      BY <1>8, <3>1 DEF Joins
    <3>3. v[5 * k + i] = s[k + 1][i]
      BY <1>5, <1>6 DEF Fives
    <3> QED BY <1>3, <1>7, <2>1, <3>1, <3>2, <3>3
  <2> DEFINE j == order[k + 1]
  <2>3. /\ f[5 * k + 2] = j.taskid
        /\ f[5 * k + 3] = j.starttime
        /\ f[5 * k + 4] = j.overruntime
        /\ f[5 * k + 5] = j.deadline
        /\ f[5 * k + 6] = j.computation
    <3>1. /\ 1 + 1 = 2 /\ 2 + 1 = 3 /\ 3 + 1 = 4 /\ 4 + 1 = 5 /\ 5 + 1 = 6
          /\ 1 \in 1..5 /\ 2 \in 1..5 /\ 3 \in 1..5 /\ 4 \in 1..5 /\ 5 \in 1..5
      OBVIOUS
    <3>2. /\ f[5 * k + 2] = Fields(j)[1]
          /\ f[5 * k + 3] = Fields(j)[2]
          /\ f[5 * k + 4] = Fields(j)[3]
          /\ f[5 * k + 5] = Fields(j)[4]
          /\ f[5 * k + 6] = Fields(j)[5]
      <4> HIDE DEF j
      <4> QED BY <2>2, <3>1 DEF j
    <3> HIDE DEF j
    <3> QED BY <3>2 DEF Fields
  <2>4. j \in Jobs(Tasks)
    BY <2>1
  <2> HIDE DEF j
  <2>5. RecordAt(f, k) = j
    BY <2>3, <2>4 DEF RecordAt, job_init, Jobs
  <2> QED BY <2>5 DEF j
<1> HIDE DEF n
<1>11. /\ Len(f) = 5 * n + 1
       /\ \E o \in [1..n -> jobs] :
             /\ \A k, l \in 1..n : k # l => o[k] # o[l]
             /\ \A k \in 0..n-1 : RecordAt(f, k) = o[k + 1]
  BY <1>2, <1>9, <1>10
<1> QED BY <1>8, <1>9, <1>11 DEF Lists, n

(* What the proofs use of a file: it begins with a time, and each record   *)
(* is a job whose deadline is not before its arrival.                      *)
FileOK(f) ==
    /\ f \in Seq(Numbers)
    /\ f # <<>> => f[1] \in Nat
    /\ \A k \in Nat : InFile(f, k) =>
          /\ RecordAt(f, k) \in Jobs(Tasks)
          /\ RecordAt(f, k).starttime <= RecordAt(f, k).deadline

LEMMA ListsRecords ==
    ASSUME NEW time, NEW jobs, IsFiniteSet(jobs), NEW f, Lists(f, time, jobs)
    PROVE  \A k \in Nat : InFile(f, k) => RecordAt(f, k) \in jobs
<1> DEFINE n == Cardinality(jobs)
<1>1. PICK order \in [1..n -> jobs] :
          \A k \in 0..n-1 : RecordAt(f, k) = order[k + 1]
  BY DEF Lists
<1>2. Len(f) = 5 * n + 1 /\ n \in Nat
  BY FS_CardinalityType DEF Lists
<1> HIDE DEF n
<1> SUFFICES ASSUME NEW k \in Nat, InFile(f, k)
             PROVE  RecordAt(f, k) \in jobs
  OBVIOUS
<1>3. k \in 0..n-1 /\ k + 1 \in 1..n
  BY <1>2 DEF InFile
<1> QED BY <1>1, <1>3

(* As many records as jobs, all different, are a record of every job.      *)
LEMMA ListsAll ==
    ASSUME NEW time, NEW jobs, IsFiniteSet(jobs), NEW f, Lists(f, time, jobs),
           NEW j \in jobs
    PROVE  \E k \in Nat : InFile(f, k) /\ RecordAt(f, k) = j
<1> DEFINE n == Cardinality(jobs)
<1>1. n \in Nat
  BY FS_CardinalityType
<1>2. /\ Len(f) = 5 * n + 1
      /\ \E order \in [1..n -> jobs] :
            /\ \A k, l \in 1..n : k # l => order[k] # order[l]
            /\ \A k \in 0..n-1 : RecordAt(f, k) = order[k + 1]
  BY DEF Lists
<1>3. PICK order \in [1..n -> jobs] :
            /\ \A k, l \in 1..n : k # l => order[k] # order[l]
            /\ \A k \in 0..n-1 : RecordAt(f, k) = order[k + 1]
  BY <1>2
<1>4. order \in Injection(1..n, jobs)
  BY <1>3 DEF Injection, IsInjective
<1>5. Cardinality(1..n) = n
  <2> HIDE DEF n
  <2>1. 1 \in Int /\ n \in Int
    BY <1>1
  <2>2. Cardinality(1..n) = IF 1 > n THEN 0 ELSE n - 1 + 1
    BY <2>1, FS_Interval
  <2> QED BY <1>1, <2>2
<1>6. order \in Surjection(1..n, jobs)
  BY <1>4, <1>5, FS_Injection
<1>7. PICK i \in 1..n : order[i] = j
  BY <1>6 DEF Surjection
<1> HIDE DEF n
<1>8. i - 1 \in 0..n-1 /\ (i - 1) + 1 = i /\ i - 1 \in Nat
  BY <1>1
<1>9. InFile(f, i - 1)
  BY <1>1, <1>2, <1>8 DEF InFile
<1> QED BY <1>3, <1>7, <1>8, <1>9

LEMMA ListsFileOK ==
    ASSUME NEW time \in Nat, NEW jobs \in SUBSET Jobs(Tasks),
           IsFiniteSet(jobs), NEW f, Lists(f, time, jobs),
           \A j \in jobs : j.starttime <= j.deadline
    PROVE  FileOK(f)
BY ListsRecords DEF FileOK, Lists

LEMMA NotEmpty ==
    ASSUME NEW g \in Seq(Numbers), NEW k \in Nat, InFile(g, k)
    PROVE  g # <<>>
<1> SUFFICES ASSUME g = <<>> PROVE FALSE
  OBVIOUS
<1>1. Len(g) = 0
  BY EmptySeq
<1> QED BY <1>1 DEF InFile

(* Every record of g is one of f. *)
PartOf(g, f) ==
    /\ g \in Seq(Numbers)
    /\ g # <<>> => f # <<>> /\ g[1] = f[1]
    /\ \E h \in [Nat -> Nat] :
          /\ \A k, l \in Nat : k # l => h[k] # h[l]
          /\ \A k \in Nat : InFile(g, k) =>
                InFile(f, h[k]) /\ RecordAt(g, k) = RecordAt(f, h[k])

(* Without one of its jobs, or cut short, a file is part of what it was. *)
LEMMA DroppedPart ==
    ASSUME NEW f \in Seq(Numbers), NEW k \in 0..(Len(f) \div 5) - 1
    PROVE  PartOf(SubSeq(f, 1, 5 * k + 1) \o SubSeq(f, 5 * k + 7, Len(f)), f)
<1> DEFINE a == SubSeq(f, 1, 5 * k + 1)
           b == SubSeq(f, 5 * k + 7, Len(f))
           g == a \o b
           h == [i \in Nat |-> IF i < k THEN i ELSE i + 1]
           n == Len(f)
<1>1. n \in Nat /\ k \in Nat /\ 5 * k + 5 <= n
  BY LenProperties
<1>2. /\ a \in Seq(Numbers) /\ Len(a) = 5 * k + 1
      /\ \A i \in 1..5*k+1 : a[i] = f[i]
  <2>1. 5 * k + 1 \in 0..Len(f) /\ 1 \in Nat
    BY <1>1
  <2> QED BY <2>1
<1>3. /\ b \in Seq(Numbers)
      /\ Len(b) = IF 5 * k + 7 <= n THEN n - (5 * k + 6) ELSE 0
      /\ \A i \in 1..Len(b) : b[i] = f[5 * k + 6 + i]
  <2>1. 5 * k + 7 \in 1..n+2 /\ 5 * k + 7 \in Nat
    BY <1>1
  <2> QED BY <1>1, <2>1
<1> HIDE DEF a, b
<1>4. g \in Seq(Numbers) /\ Joins(g, a, b)
  BY <1>2, <1>3, Joining
<1> HIDE DEF g
<1>5. /\ Len(g) = Len(a) + Len(b) /\ Len(a) \in Nat /\ Len(b) \in Nat
      /\ \A i \in 1..Len(g) : g[i] = IF i <= 5 * k + 1 THEN f[i] ELSE f[i + 5]
  <2>1. Len(g) = Len(a) + Len(b) /\ Len(a) \in Nat /\ Len(b) \in Nat
    BY <1>2, <1>3, <1>4, LenProperties DEF Joins
  <2>2. ASSUME NEW i \in 1..Len(g), i <= 5 * k + 1 PROVE g[i] = f[i]
    <3>1. i \in 1..Len(a) /\ i \in 1..5*k+1
      BY <1>2, <2>2
    <3> QED BY <1>2, <1>4, <3>1 DEF Joins
  <2>3. ASSUME NEW i \in 1..Len(g), ~(i <= 5 * k + 1) PROVE g[i] = f[i + 5]
    <3> DEFINE m == i - (5 * k + 1)
    <3>1. /\ m \in 1..Len(b) /\ Len(a) + m = i /\ 5 * k + 6 + m = i + 5
      BY <1>1, <1>2, <2>1, <2>3
    <3> HIDE DEF m
    <3> QED BY <1>3, <1>4, <3>1 DEF Joins
  <2> QED BY <2>1, <2>2, <2>3
<1>6. 1 \in 1..Len(g) /\ g[1] = f[1] /\ f # <<>>
  BY <1>1, <1>2, <1>5
<1>7. /\ h \in [Nat -> Nat]
      /\ \A i, l \in Nat : i # l => h[i] # h[l]
      /\ \A i \in Nat : h[i] = IF i < k THEN i ELSE i + 1
  BY <1>1
<1> HIDE DEF h
<1>8. ASSUME NEW i \in Nat, InFile(g, i)
      PROVE  InFile(f, h[i]) /\ RecordAt(g, i) = RecordAt(f, h[i])
  <2>1. 5 * i + 6 <= Len(g) /\ 5 * i + 6 \in Nat
    BY <1>8 DEF InFile
  <2>2. CASE i < k
    <3>1. 5 * i + 6 <= 5 * k + 1 /\ 5 * i + 6 <= n
      BY <1>1, <2>2
    <3>2. \A m \in 2..6 : g[5 * i + m] = f[5 * i + m]
      <4> SUFFICES ASSUME NEW m \in 2..6 PROVE g[5 * i + m] = f[5 * i + m]
        OBVIOUS
      <4>1. 5 * i + m \in 1..Len(g) /\ 5 * i + m <= 5 * k + 1
        BY <2>1, <3>1, <1>5
      <4> QED BY <1>5, <4>1
    <3>3. h[i] = i
      BY <1>7, <2>2
    <3> QED BY <3>1, <3>2, <3>3 DEF InFile, RecordAt
  <2>3. CASE ~(i < k)
    <3>1. h[i] = i + 1 /\ 5 * (i + 1) + 6 <= n
      <4>1. h[i] = i + 1
        BY <1>7, <2>3
      <4>2. Len(b) > 0
        BY <1>1, <1>2, <1>5, <2>1, <2>3
      <4>3. 5 * k + 7 <= n
        BY <1>3, <4>2
      <4>4. Len(g) = n - 5
        <5>1. Len(b) = n - (5 * k + 6)
          BY <1>3, <4>3
        <5>2. Len(g) = (5 * k + 1) + Len(b)
          BY <1>2, <1>5
        <5> QED BY <1>1, <5>1, <5>2
      <4> QED BY <1>1, <2>1, <4>1, <4>4
    <3>2. \A m \in 2..6 : g[5 * i + m] = f[5 * (i + 1) + m]
      <4> SUFFICES ASSUME NEW m \in 2..6 PROVE g[5 * i + m] = f[5 * (i + 1) + m]
        OBVIOUS
      <4>1. /\ 5 * i + m \in 1..Len(g) /\ ~(5 * i + m <= 5 * k + 1)
            /\ (5 * i + m) + 5 = 5 * (i + 1) + m
        BY <1>1, <2>1, <2>3, <1>5
      <4> QED BY <1>5, <4>1
    <3> QED BY <3>1, <3>2 DEF InFile, RecordAt
  <2> QED BY <2>2, <2>3
<1>9. PartOf(g, f)
  BY <1>4, <1>6, <1>7, <1>8 DEF PartOf
<1> QED BY <1>9 DEF g, a, b

LEMMA CutPart ==
    ASSUME NEW f \in Seq(Numbers), NEW k \in 0..Len(f)-1
    PROVE  PartOf(SubSeq(f, 1, k), f)
<1> DEFINE g == SubSeq(f, 1, k)
           h == [i \in Nat |-> i]
<1>1. Len(f) \in Nat /\ k \in Nat /\ k < Len(f)
  BY LenProperties
<1>2. g \in Seq(Numbers) /\ Len(g) = k /\ \A i \in 1..k : g[i] = f[i]
  BY <1>1
<1> HIDE DEF g
<1>3. g # <<>> => f # <<>> /\ g[1] = f[1]
  <2> SUFFICES ASSUME g # <<>> PROVE f # <<>> /\ g[1] = f[1]
    OBVIOUS
  <2>1. k # 0
    BY <1>2, EmptySeq
  <2>2. 1 \in 1..k
    BY <1>1, <2>1
  <2> QED BY <1>1, <1>2, <2>2
<1>4. /\ h \in [Nat -> Nat] /\ \A i \in Nat : h[i] = i
      /\ \A i, l \in Nat : i # l => h[i] # h[l]
  OBVIOUS
<1> HIDE DEF h
<1>5. ASSUME NEW i \in Nat, InFile(g, i)
      PROVE  InFile(f, h[i]) /\ RecordAt(g, i) = RecordAt(f, h[i])
  <2>1. 5 * i + 6 <= k
    BY <1>2, <1>5 DEF InFile
  <2>2. 5 * i + 6 <= Len(f)
    BY <1>1, <2>1
  <2>3. \A m \in 2..6 : g[5 * i + m] = f[5 * i + m]
    <3> SUFFICES ASSUME NEW m \in 2..6 PROVE g[5 * i + m] = f[5 * i + m]
      OBVIOUS
    <3>1. 5 * i + m \in 1..k
      BY <1>1, <2>1
    <3> QED BY <1>2, <3>1
  <2>4. h[i] = i
    BY <1>4
  <2>5. RecordAt(g, i) = RecordAt(f, i)
    BY <2>3 DEF RecordAt
  <2> QED BY <2>2, <2>4, <2>5 DEF InFile
<1>6. PartOf(g, f)
  BY <1>2, <1>3, <1>4, <1>5 DEF PartOf
<1> QED BY <1>6 DEF g

LEMMA PartFileOK ==
    ASSUME NEW f, NEW g, FileOK(f), PartOf(g, f)
    PROVE  FileOK(g)
<1>1. PICK h \in [Nat -> Nat] :
          \A k \in Nat : InFile(g, k) =>
                InFile(f, h[k]) /\ RecordAt(g, k) = RecordAt(f, h[k])
  BY DEF PartOf
<1>2. g # <<>> => g[1] = f[1] /\ f[1] \in Nat
  BY DEF PartOf, FileOK
<1>3. \A k \in Nat : InFile(g, k) => g # <<>>
  BY NotEmpty DEF PartOf
<1> QED BY <1>1, <1>2, <1>3 DEF FileOK, PartOf

(***************************************************************************)
(* Reading the dump                                                        *)
(***************************************************************************)

(* A file of whole records has those that JobsRead counts. *)
LEMMA WholeFile ==
    ASSUME FileOK(file), IsWhole
    PROVE  /\ JobsRead \in Nat /\ RestoredTime \in Nat
           /\ \A k \in Nat : InFile(file, k) <=> k < JobsRead
           /\ \A k \in 0..JobsRead-1 :
                 /\ ReadJob(k) \in Jobs(Tasks)
                 /\ ReadJob(k).starttime <= ReadJob(k).deadline
<1>1. /\ Len(file) \in Nat /\ Len(file) = 5 * JobsRead + 1 /\ JobsRead \in Nat
  <2>1. Len(file) \in Nat
    BY LenProperties DEF FileOK
  <2> QED BY <2>1 DEF IsWhole, JobsRead
<1>2. file # <<>>
  <2> SUFFICES ASSUME file = <<>> PROVE FALSE
    OBVIOUS
  <2>1. Len(file) = 0
    BY EmptySeq DEF FileOK
  <2> QED BY <1>1, <2>1
<1>3. \A k \in Nat : InFile(file, k) <=> k < JobsRead
  BY <1>1 DEF InFile
<1>4. \A k \in Nat : ReadJob(k) = RecordAt(file, k)
  BY DEF ReadJob, RecordAt
<1>5. \A k \in 0..JobsRead-1 : k \in Nat /\ InFile(file, k)
  BY <1>1, <1>3
<1> QED BY <1>1, <1>2, <1>3, <1>4, <1>5 DEF FileOK, RestoredTime

(* The queues and clocks while they are filled. *)
RestoredQueues ==
    [scheduler : JobQs, generator : JobQs, simtimes : [Tasks -> Nat]]

LEMMA RestoredClockType ==
    ASSUME NEW j \in Jobs(Tasks)
    PROVE  RestoredClock(j) \in Nat
           /\ RestoredClock(j) = j.starttime + TaskSystem[j.taskid].period
<1>1. /\ j.starttime \in Nat /\ j.computation \in Nat
      /\ TaskSystem[j.taskid].period \in Nat
  BY JobGenAssumption DEF TaskAssumption, Jobs
<1> QED BY <1>1 DEF RestoredClock

LEMMA EnqueueType ==
    ASSUME NEW q \in RestoredQueues, NEW j \in Jobs(Tasks)
    PROVE  Enqueue(q, j) \in RestoredQueues
<1>1. /\ jobq_insert_by(q.generator, j, ByStarttime) \in JobQs
      /\ jobq_insert_by(q.scheduler, j, ByDeadline) \in JobQs
  BY DEF RestoredQueues, jobq_insert_by, JobQs
<1>2. RestoredClock(j) \in Nat /\ j.taskid \in Tasks
  BY RestoredClockType DEF Jobs
<1>3. [q.simtimes EXCEPT ![j.taskid] = RestoredClock(j)] \in [Tasks -> Nat]
  BY <1>2 DEF RestoredQueues
<1> QED BY <1>1, <1>3 DEF RestoredQueues, Enqueue

(* What a turn of the loop over the list does. *)
LEMMA RestoredSteps ==
    ASSUME FileOK(file), IsWhole
    PROVE  /\ Restored[0] = [scheduler |-> jobq_init, generator |-> jobq_init,
                             simtimes  |-> [t \in Tasks |-> 0]]
           /\ \A n \in 0..JobsRead-1 :
                 Restored[n + 1] = Enqueue(Restored[n], ReadJob(n))
<1> DEFINE q0 == [scheduler |-> jobq_init, generator |-> jobq_init,
                  simtimes  |-> [t \in Tasks |-> 0]]
           step == [p \in Nat \X RestoredQueues |->
                      IF p[1] < JobsRead THEN Enqueue(p[2], ReadJob(p[1]))
                      ELSE p[2]]
<1>1. /\ JobsRead \in Nat
      /\ \A k \in 0..JobsRead-1 : ReadJob(k) \in Jobs(Tasks)
  BY WholeFile
<1>2. q0 \in RestoredQueues
  BY DEF RestoredQueues, jobq_init, JobQs
<1>3. step \in [Nat \X RestoredQueues -> RestoredQueues]
  <2>1. ASSUME NEW n \in Nat, NEW q \in RestoredQueues
        PROVE  (IF n < JobsRead THEN Enqueue(q, ReadJob(n)) ELSE q)
                  \in RestoredQueues
    <3>1. CASE n < JobsRead
      <4>1. n \in 0..JobsRead-1
        BY <1>1, <3>1
      <4> QED BY <1>1, <3>1, <4>1, EnqueueType
    <3> QED BY <3>1
  <2> QED BY <2>1
<1> HIDE DEF q0
<1>4. PICK g \in [Nat -> RestoredQueues] : Recurs(g, q0, step)
  <2> HIDE DEF step
  <2> QED BY <1>2, <1>3, Recursion
<1>5. g[0] = q0 /\ \A n \in Nat : g[n + 1] = step[<<n, g[n]>>]
  <2> HIDE DEF step
  <2> QED BY <1>4 DEF Recurs
<1>6. ASSUME NEW n \in 0..JobsRead-1
      PROVE  g[n + 1] = Enqueue(g[n], ReadJob(n))
  <2>1. n \in Nat /\ n < JobsRead /\ g[n] \in RestoredQueues
    BY <1>1, <1>4
  <2> QED BY <1>5, <2>1
<1> HIDE DEF step
<1> DEFINE f == [n \in 0..JobsRead |-> g[n]]
           Steps(h) == [n \in 0..JobsRead |->
                          IF n = 0 THEN q0 ELSE Enqueue(h[n - 1], ReadJob(n - 1))]
<1>7. f = Steps(f)
  <2>1. ASSUME NEW n \in 0..JobsRead
        PROVE  f[n] = IF n = 0 THEN q0 ELSE Enqueue(f[n - 1], ReadJob(n - 1))
    <3>1. CASE n = 0
      BY <1>5, <3>1
    <3>2. CASE n # 0
      <4>1. n - 1 \in 0..JobsRead-1 /\ n - 1 \in 0..JobsRead /\ (n - 1) + 1 = n
        BY <1>1, <3>2
      <4>2. f[n] = g[n] /\ f[n - 1] = g[n - 1]
        BY <4>1
      <4>3. g[n] = Enqueue(g[n - 1], ReadJob(n - 1))
        BY <1>6, <4>1
      <4> HIDE DEF f
      <4> QED BY <3>2, <4>2, <4>3
    <3> QED BY <3>1, <3>2
  <2>2. f = [n \in 0..JobsRead |-> f[n]]
    OBVIOUS
  <2> HIDE DEF f
  <2> QED BY <2>1, <2>2
<1>8. Restored = Steps(Restored)
  <2>1. \E h : h = Steps(h)
    <3> HIDE DEF f, Steps
    <3> QED BY <1>7
  <2>2. Restored = CHOOSE h : h = Steps(h)
    BY DEF Restored, q0
  <2> HIDE DEF Steps
  <2> QED BY <2>1, <2>2, Zenon
<1>9. Restored[0] = q0
  <2>1. 0 \in 0..JobsRead
    BY <1>1
  <2> QED BY <1>8, <2>1
<1>10. ASSUME NEW n \in 0..JobsRead-1
       PROVE  Restored[n + 1] = Enqueue(Restored[n], ReadJob(n))
  <2>1. n + 1 \in 0..JobsRead /\ n + 1 # 0 /\ (n + 1) - 1 = n
    BY <1>1
  <2>2. Steps(Restored)[n + 1] = Enqueue(Restored[(n + 1) - 1], ReadJob((n + 1) - 1))
    BY <2>1
  <2>3. Restored[n + 1] = Steps(Restored)[n + 1]
    <3> HIDE DEF Steps
    <3> QED BY <1>8
  <2> HIDE DEF Steps
  <2> QED BY <2>1, <2>2, <2>3
<1> QED BY <1>9, <1>10 DEF q0

(* The first n jobs read, those that are due and those that are to come. *)
Due(n) ==
    {ReadJob(k) : k \in {i \in 0..n-1 : ReadJob(i).starttime <= RestoredTime}}
Coming(n) ==
    {ReadJob(k) : k \in {i \in 0..n-1 : ReadJob(i).starttime > RestoredTime}}

(* What the queues and clocks are after n turns of the loop.  A clock      *)
(* stands a period after the last of its jobs read.                        *)
Filled(q, n) ==
    /\ q \in RestoredQueues
    /\ q.scheduler.elems = Due(n) /\ IsJobQ(q.scheduler, ByDeadline)
    /\ q.generator.elems = Coming(n) /\ IsJobQ(q.generator, ByStarttime)
    /\ \A j \in Coming(n) : \E k \in Coming(n) :
          /\ k.taskid = j.taskid
          /\ k.starttime + TaskSystem[k.taskid].period = q.simtimes[k.taskid]

LEMMA EnqueueFills ==
    ASSUME FileOK(file), IsWhole, NEW n \in 0..JobsRead-1,
           NEW q, Filled(q, n)
    PROVE  Filled(Enqueue(q, ReadJob(n)), n + 1)
<1> DEFINE j == ReadJob(n)
           r == Enqueue(q, j)
<1>1. j \in Jobs(Tasks) /\ RestoredTime \in Nat /\ n \in Nat
  BY WholeFile
<1>2. /\ q \in RestoredQueues
      /\ q.scheduler \in JobQs /\ q.generator \in JobQs
      /\ q.simtimes \in [Tasks -> Nat]
      /\ q.scheduler.elems = Due(n) /\ IsJobQ(q.scheduler, ByDeadline)
      /\ q.generator.elems = Coming(n) /\ IsJobQ(q.generator, ByStarttime)
      /\ \A i \in Coming(n) : \E k \in Coming(n) :
            /\ k.taskid = i.taskid
            /\ k.starttime + TaskSystem[k.taskid].period = q.simtimes[k.taskid]
  BY DEF Filled, RestoredQueues
<1>3. r \in RestoredQueues
  BY <1>1, <1>2, EnqueueType
<1>4. j.taskid \in Tasks /\ j.starttime \in Nat
  BY <1>1 DEF Jobs
<1>5. \A i \in Int : i \in 0..(n + 1)-1 <=> i \in 0..n-1 \/ i = n
  BY <1>1
<1>6. CASE j.starttime > RestoredTime
  <2>1. Due(n + 1) = Due(n) /\ Coming(n + 1) = Coming(n) \cup {j}
    BY <1>1, <1>4, <1>5, <1>6 DEF Due, Coming
  <2>2. /\ r.scheduler = q.scheduler
        /\ r.generator = jobq_insert_by(q.generator, j, ByStarttime)
        /\ r.simtimes = [q.simtimes EXCEPT ![j.taskid] = RestoredClock(j)]
    BY <1>2, <1>6 DEF Enqueue, RestoredQueues
  <2> HIDE DEF r
  <2>3. /\ r.generator.elems = Coming(n) \cup {j}
        /\ IsJobQ(r.generator, ByStarttime)
    BY <1>1, <1>2, <2>2, InsertJob DEF Keys
  <2>4. /\ r.simtimes[j.taskid] = j.starttime + TaskSystem[j.taskid].period
        /\ \A t \in Tasks \ {j.taskid} : r.simtimes[t] = q.simtimes[t]
    BY <1>1, <1>2, <1>4, <2>2, RestoredClockType
  <2>5. Coming(n) \subseteq Jobs(Tasks)
    BY <1>2 DEF JobQs
  <2> HIDE DEF j
  <2>6. ASSUME NEW i \in Coming(n) \cup {j}
        PROVE  \E k \in Coming(n) \cup {j} :
                  /\ k.taskid = i.taskid
                  /\ k.starttime + TaskSystem[k.taskid].period = r.simtimes[k.taskid]
    <3>1. CASE i.taskid = j.taskid
      BY <2>4, <3>1
    <3>2. CASE i.taskid # j.taskid
      <4>1. i \in Coming(n) /\ i.taskid \in Tasks \ {j.taskid}
        BY <2>5, <3>2 DEF Jobs
      <4>2. PICK k \in Coming(n) :
              /\ k.taskid = i.taskid
              /\ k.starttime + TaskSystem[k.taskid].period = q.simtimes[k.taskid]
        BY <1>2, <4>1
      <4> QED BY <2>4, <4>1, <4>2
    <3> QED BY <3>1, <3>2
  <2>7. Filled(r, n + 1)
    BY <1>2, <1>3, <2>1, <2>2, <2>3, <2>6 DEF Filled
  <2> QED BY <2>7 DEF r, j
<1>7. CASE ~(j.starttime > RestoredTime)
  <2>1. Due(n + 1) = Due(n) \cup {j} /\ Coming(n + 1) = Coming(n)
    BY <1>1, <1>4, <1>5, <1>7 DEF Due, Coming
  <2>2. /\ r.scheduler = jobq_insert_by(q.scheduler, j, ByDeadline)
        /\ r.generator = q.generator
        /\ r.simtimes = q.simtimes
    BY <1>2, <1>7 DEF Enqueue, RestoredQueues
  <2> HIDE DEF r
  <2>3. /\ r.scheduler.elems = Due(n) \cup {j}
        /\ IsJobQ(r.scheduler, ByDeadline)
    BY <1>1, <1>2, <2>2, InsertJob DEF Keys
  <2>4. Filled(r, n + 1)
    BY <1>2, <1>3, <2>1, <2>2, <2>3 DEF Filled
  <2> QED BY <2>4 DEF r
<1> QED BY <1>6, <1>7

LEMMA AllFilled ==
    ASSUME FileOK(file), IsWhole
    PROVE  Filled(Restored[JobsRead], JobsRead)
<1>1. JobsRead \in Nat
  BY WholeFile
<1> DEFINE P == {n \in Nat : n <= JobsRead => Filled(Restored[n], n)}
<1>2. 0 \in P
  <2>1. /\ Restored[0].scheduler = jobq_init
        /\ Restored[0].generator = jobq_init
        /\ Restored[0] \in RestoredQueues
    <3>1. Restored[0] = [scheduler |-> jobq_init, generator |-> jobq_init,
                         simtimes  |-> [t \in Tasks |-> 0]]
      BY RestoredSteps
    <3>2. jobq_init \in JobQs
      BY DEF jobq_init, JobQs
    <3> QED BY <3>1, <3>2 DEF RestoredQueues
  <2>2. Due(0) = {} /\ Coming(0) = {}
    BY DEF Due, Coming
  <2>3. Filled(Restored[0], 0)
    BY <2>1, <2>2 DEF Filled, IsJobQ, jobq_init
  <2> QED BY <2>3
<1>3. ASSUME NEW n \in Nat, n \in P PROVE n + 1 \in P
  <2> SUFFICES ASSUME n + 1 <= JobsRead PROVE Filled(Restored[n + 1], n + 1)
    OBVIOUS
  <2>1. n \in 0..JobsRead-1 /\ n <= JobsRead
    BY <1>1
  <2>2. Filled(Restored[n], n)
    BY <1>3, <2>1
  <2>3. Restored[n + 1] = Enqueue(Restored[n], ReadJob(n))
    BY <2>1, RestoredSteps
  <2> QED BY <2>1, <2>2, <2>3, EnqueueFills
<1>4. \A n \in Nat : n \in P
  <2> HIDE DEF P
  <2> QED BY <1>2, <1>3, Induction
<1>5. JobsRead \in P /\ JobsRead <= JobsRead
  <2>1. JobsRead <= JobsRead
    BY <1>1
  <2> HIDE DEF P
  <2> QED BY <1>1, <1>4, <2>1
<1> QED BY <1>5

(* The jobs read are finitely many. *)
LEMMA ReadFinite ==
    ASSUME NEW S \in SUBSET (0..JobsRead-1), JobsRead \in Nat
    PROVE  IsFiniteSet({ReadJob(k) : k \in S})
<1> DEFINE f == [k \in 0..JobsRead-1 |-> ReadJob(k)]
<1>1. IsFiniteSet(0..JobsRead-1)
  <2>1. 0 \in Int /\ JobsRead - 1 \in Int
    OBVIOUS
  <2> QED BY <2>1, FS_Interval
<1>2. IsFiniteSet(S)
  BY <1>1, FS_Subset
<1>3. {ReadJob(k) : k \in S} = {f[k] : k \in S}
  OBVIOUS
<1> HIDE DEF f
<1>4. IsFiniteSet({f[k] : k \in S})
  BY <1>2, FiniteImage
<1> QED BY <1>3, <1>4

(* What a new process makes of the dump. *)
LEMMA RestoreEffect ==
    ASSUME FileOK(file), Restore
    PROVE  /\ pq' \in JobQs /\ IsFiniteSet(pq'.elems) /\ IsJobQ(pq', ByDeadline)
           /\ jq' \in JobQs /\ IsFiniteSet(jq'.elems) /\ IsJobQ(jq', ByStarttime)
           /\ pq'.elems = Due(JobsRead)
           /\ jq'.elems = Coming(JobsRead) /\ Coming(JobsRead) = DumpedAhead
           /\ now' = RestoredTime /\ RestoredTime \in Nat
           /\ simtime_state' \in [Tasks -> Nat]
           /\ \A j \in jq'.elems : \E k \in jq'.elems :
                 /\ k.taskid = j.taskid
                 /\ k.starttime + TaskSystem[k.taskid].period
                       = simtime_state'[k.taskid]
           /\ \A j \in pq'.elems \cup jq'.elems :
                 /\ j \in Jobs(Tasks)
                 /\ j.starttime <= j.deadline
           /\ \A j \in pq'.elems : j.starttime <= now'
           /\ \A j \in jq'.elems : now' < j.starttime
<1> DEFINE q == Restored[JobsRead]
<1>1. /\ IsWhole /\ now' = RestoredTime
      /\ pq' = q.scheduler /\ jq' = q.generator /\ simtime_state' = q.simtimes
  BY DEF Restore
<1>2. Filled(q, JobsRead)
  BY <1>1, AllFilled
<1>3. /\ JobsRead \in Nat /\ RestoredTime \in Nat
      /\ \A k \in 0..JobsRead-1 :
            /\ ReadJob(k) \in Jobs(Tasks)
            /\ ReadJob(k).starttime <= ReadJob(k).deadline
  BY <1>1, WholeFile
<1>4. IsFiniteSet(Due(JobsRead)) /\ IsFiniteSet(Coming(JobsRead))
  <2> DEFINE A == {i \in 0..JobsRead-1 : ReadJob(i).starttime <= RestoredTime}
             B == {i \in 0..JobsRead-1 : ReadJob(i).starttime > RestoredTime}
  <2>1. A \in SUBSET (0..JobsRead-1) /\ B \in SUBSET (0..JobsRead-1)
    OBVIOUS
  <2>2. Due(JobsRead) = {ReadJob(k) : k \in A}
    BY DEF Due
  <2>3. Coming(JobsRead) = {ReadJob(k) : k \in B}
    BY DEF Coming
  <2> HIDE DEF A, B
  <2> QED BY <1>3, <2>1, <2>2, <2>3, ReadFinite
<1>5. Coming(JobsRead) = DumpedAhead
  BY DEF Coming, DumpedAhead, JobsRead, RestoredTime, job_get_starttime
<1>6. /\ pq'.elems = Due(JobsRead) /\ jq'.elems = Coming(JobsRead)
      /\ pq' \in JobQs /\ jq' \in JobQs /\ simtime_state' \in [Tasks -> Nat]
      /\ IsJobQ(q.scheduler, ByDeadline) /\ IsJobQ(q.generator, ByStarttime)
      /\ \A j \in jq'.elems : \E k \in jq'.elems :
            /\ k.taskid = j.taskid
            /\ k.starttime + TaskSystem[k.taskid].period = simtime_state'[k.taskid]
  <2> HIDE DEF q
  <2> QED BY <1>1, <1>2 DEF Filled, RestoredQueues
<1>7. IsJobQ(pq', ByDeadline) /\ IsJobQ(jq', ByStarttime)
  BY <1>1, <1>6 DEF IsJobQ, Firsts, ByDeadline, ByStarttime
<1>8. \A j \in Due(JobsRead) : \E k \in 0..JobsRead-1 :
         j = ReadJob(k) /\ j.starttime <= RestoredTime
  BY DEF Due
<1>9. \A j \in Coming(JobsRead) : \E k \in 0..JobsRead-1 :
         j = ReadJob(k) /\ RestoredTime < j.starttime
  <2> SUFFICES ASSUME NEW j \in Coming(JobsRead)
               PROVE  \E k \in 0..JobsRead-1 :
                         j = ReadJob(k) /\ RestoredTime < j.starttime
    OBVIOUS
  <2>1. PICK k \in 0..JobsRead-1 : j = ReadJob(k) /\ j.starttime > RestoredTime
    BY DEF Coming
  <2> QED BY <1>3, <2>1 DEF Jobs
<1> HIDE DEF q
<1> QED BY <1>1, <1>3, <1>4, <1>5, <1>6, <1>7, <1>8, <1>9

(* The types of the variables, at all points.  The queues hold finitely    *)
(* many jobs, so a dump can list them.                                     *)
DumpTypes ==
    /\ jq \in JobQs /\ IsFiniteSet(jq.elems)
    /\ pq \in JobQs /\ IsFiniteSet(pq.elems)
    /\ simtime_state \in [Tasks -> Nat]
    /\ now \in Nat /\ events_done \in Nat /\ jobs_done \in Nat
    /\ had_overrun \in BOOLEAN /\ allow_first_overrun \in BOOLEAN
    /\ breaktime \in Nat /\ speed \in Nat /\ overrunbreak \in BOOLEAN
    /\ runtime \in Nat /\ overrun \in Nat
    /\ pc \in {"init1", "init2", "idle", "top", "work",
               "exited", "read1", "read2", "crashed", "aborted"}
    /\ result \in Results
    /\ nextjob \in Jobs(Tasks) \cup {NULL}
    /\ evl_nextjob \in Jobs(Tasks) \cup {NULL}
    /\ overflowing \in (Tasks \X Nat) \cup {NULL}
    /\ restores \in Nat

(* The queues are in order and no job to come is late, at all points.      *)
QueuesOK ==
    /\ IsJobQ(pq, ByDeadline) /\ IsJobQ(jq, ByStarttime)
    /\ \A j \in pq.elems : j.starttime <= j.deadline
    /\ \A j \in jq.elems :
          /\ now <= j.starttime
          /\ j.starttime <= j.deadline
          /\ \E k \in jq.elems : /\ k.taskid = j.taskid
                                 /\ k.starttime <= simtime_state[k.taskid]

Simulating == pc \in {"init1", "init2", "idle", "top", "work"}

TasksOf(S) == {j.taskid : j \in S}

(* While there is a job to come a resumed simulation is in the states of   *)
(* any other (LoopInv); without one, the loop is never worked in.          *)
DumpInv ==
    /\ DumpTypes /\ QueuesOK /\ FileOK(file)
    /\ Simulating /\ jq.elems # {} => LoopInv
    /\ jq.elems = {} => /\ restores > 0
                        /\ pc \notin {"init1", "init2", "work"}
                        /\ pc = "idle" => evl_nextjob = NULL
                        /\ pc = "top" => nextjob = NULL
    /\ pc \in {"read1", "read2"} => restores > 0
    /\ pc = "crashed" => jq.elems = {}
    /\ restores > 0 /\ pc \notin {"exited", "aborted"} =>
          IsWhole /\ TasksOf(DumpedAhead) \subseteq TasksOf(jq.elems)
    /\ pc = "read1" => /\ jq.elems = DumpedAhead
                       /\ \A j \in pq.elems : j.starttime <= now

(* In the states of LoopInv the types are right and the queues in order.   *)
LEMMA LoopQueues ==
    ASSUME LoopInv
    PROVE  QueuesOK
<1>1. /\ TypeOK /\ GeneratorInv /\ SchedulerOrdered /\ NextToArrive
      /\ \A j \in pq.elems : j.starttime <= j.deadline
  BY DEF LoopInv
<1>2. jq.elems \subseteq Jobs(Tasks) /\ now \in Nat
  BY <1>1 DEF TypeOK, JobQs
<1>3. \A j \in jq.elems : now <= j.starttime
  <2>1. CASE pc = "init1"
    BY <1>2, <2>1 DEF LoopInv, Jobs
  <2>2. CASE pc = "init2"
    BY <2>2 DEF LoopInv
  <2>3. CASE pc \in {"idle", "top", "work"}
    <3>1. PICK i : Pending = {i}
      BY <2>3 DEF Pending
    <3>2. i \in Jobs(Tasks)
      BY <1>1, <3>1 DEF TypeOK
    <3>3. now <= i.starttime /\ \A k \in jq.elems : i.starttime <= k.starttime
      BY <1>1, <3>1 DEF NextToArrive, job_get_starttime
    <3> QED BY <1>2, <3>2, <3>3 DEF Jobs
  <2> QED BY <1>1, <2>1, <2>2, <2>3 DEF TypeOK
<1> QED BY <1>1, <1>3 DEF QueuesOK, GeneratorInv, SchedulerOrdered

LEMMA LoopTypes ==
    ASSUME LoopInv, restores \in Nat,
           IsFiniteSet(jq.elems), IsFiniteSet(pq.elems)
    PROVE  DumpTypes
BY DEF LoopInv, TypeOK, DumpTypes

LEMMA FiniteReplace ==
    ASSUME NEW S, IsFiniteSet(S), NEW x, NEW y, NEW T, T = (S \ {x}) \cup {y}
    PROVE  IsFiniteSet(T)
<1> DEFINE R == S \ {x}
<1>1. IsFiniteSet(R)
  BY FS_RemoveElement
<1> HIDE DEF R
<1>2. IsFiniteSet(R \cup {y})
  BY <1>1, FS_AddElement
<1> QED BY <1>2 DEF R

(* A step puts at most one job into a queue. *)
LEMMA NextFinite ==
    ASSUME LoopInv, [Next]_vars, IsFiniteSet(jq.elems), IsFiniteSet(pq.elems)
    PROVE  IsFiniteSet(jq'.elems) /\ IsFiniteSet(pq'.elems)
<1>1. IsFiniteSet(jq'.elems)
  <2>1. CASE UNCHANGED jobgenvars
    BY <2>1 DEF jobgenvars
  <2>2. CASE jobgen_rise
    <3>1. PICK new : jq'.elems = (jq.elems \ {jobq_peek(jq)}) \cup {new}
      BY <2>2, RiseEffect DEF LoopInv
    <3> QED BY <3>1, FiniteReplace
  <2> QED
    BY <2>1, <2>2 DEF Next, Run, vars, InitFirst, InitSecond, Call, RunPass,
       RunStart, CalcRuntime, SpendBudget, FinishJob, ProgressTo,
       StopAtBreaktime, StopAtOverrun, Arrival
<1>2. IsFiniteSet(pq'.elems)
  <2>1. CASE pq'.elems = pq.elems
    BY <2>1
  <2>2. ASSUME NEW j, pq' = jobq_insert_by(pq, j, ByDeadline)
        PROVE  IsFiniteSet(pq'.elems)
    <3>1. pq'.elems = pq.elems \cup {j}
      BY <2>2 DEF jobq_insert_by
    <3> QED BY <3>1, FS_AddElement
  <2>3. CASE SpendBudget
    <3>1. PICK k : pq'.elems = (pq.elems \ {pq.head}) \cup {k}
      BY <2>3 DEF SpendBudget, WriteRoot
    <3> QED BY <3>1, FiniteReplace
  <2>4. CASE FinishJob
    <3>1. pq'.elems = pq.elems \ {pq.head}
      BY <2>4, PopRoot DEF FinishJob, LoopInv, TypeOK, Keys
    <3> QED BY <3>1, FS_RemoveElement
  <2>5. CASE InitFirst \/ Arrival
    BY <2>5, <2>2 DEF InitFirst, Arrival
  <2> QED
    BY <2>1, <2>3, <2>4, <2>5 DEF Next, Run, vars, InitSecond, Call, RunPass,
       RunStart, CalcRuntime, StopAtBreaktime, StopAtOverrun
<1> QED BY <1>1, <1>2

(* A step leaves every task that has a job in the generator one. *)
LEMMA NextTasks ==
    ASSUME LoopInv, [Next]_vars
    PROVE  TasksOf(jq'.elems) = TasksOf(jq.elems)
<1>1. CASE UNCHANGED jobgenvars
  BY <1>1 DEF jobgenvars
<1>2. CASE jobgen_rise
  BY <1>2, RiseTasks DEF TasksOf, LoopInv
<1> QED
  BY <1>1, <1>2 DEF Next, Run, vars, InitFirst, InitSecond, Call, RunPass,
     RunStart, CalcRuntime, SpendBudget, FinishJob, ProgressTo,
     StopAtBreaktime, StopAtOverrun, Arrival

(* What the file says is the same as long as the file is. *)
LEMMA SameFile ==
    ASSUME file' = file
    PROVE  /\ FileOK(file)' <=> FileOK(file)
           /\ IsWhole' <=> IsWhole
           /\ DumpedAhead' = DumpedAhead
BY DEF FileOK, InFile, RecordAt, IsWhole, DumpedAhead, ReadJob

LEMMA InitDumpInv == DumpInit => DumpInv
<1> SUFFICES ASSUME DumpInit PROVE DumpInv
  OBVIOUS
<1>1. /\ Init /\ file = <<>> /\ restores = 0 /\ pc = "init1" /\ pq.elems = {}
      /\ jobgen_init
  BY DEF DumpInit, Init, jobq_init
<1>2. LoopInv
  BY <1>1, InitLoopInv
<1>3. IsFiniteSet(jq.elems)
  <2>1. PICK new, first : jq = [elems |-> {new[t] : t \in Tasks}, head |-> new[first]]
    BY <1>1 DEF jobgen_init
  <2>2. IsFiniteSet(Tasks)
    BY DumpRestoreAssumption
  <2>3. IsFiniteSet({new[t] : t \in Tasks})
    BY <2>2, FiniteImage
  <2> QED BY <2>1, <2>3
<1>4. DumpTypes
  <2>1. restores \in Nat /\ IsFiniteSet(pq.elems)
    BY <1>1, FS_EmptySet
  <2> QED BY <1>2, <1>3, <2>1, LoopTypes
<1>5. QueuesOK
  BY <1>2, LoopQueues
<1>6. FileOK(file)
  <2>1. file \in Seq(Numbers) /\ Len(file) = 0
    BY <1>1
  <2> QED BY <1>1, <2>1 DEF FileOK, InFile
<1>7. jq.elems # {}
  BY <1>2 DEF LoopInv, TypeOK
<1> QED BY <1>1, <1>2, <1>4, <1>5, <1>6, <1>7 DEF DumpInv

LEMMA SimulateStep ==
    ASSUME DumpInv, Simulate
    PROVE  DumpInv'
<1>1. /\ Next /\ file' = file /\ restores' = restores /\ restores \in Nat
      /\ pc = "top" => nextjob # NULL
      /\ pc \in {"init1", "init2", "idle", "top", "work"}
  BY DEF Simulate, Next, InitFirst, InitSecond, Call, Run, CalcRuntime,
         SpendBudget, FinishJob, StopAtBreaktime, StopAtOverrun, Arrival,
         WindowDone, DumpInv, DumpTypes
<1>2. FileOK(file)' /\ (IsWhole' <=> IsWhole) /\ DumpedAhead' = DumpedAhead
  BY <1>1, SameFile DEF DumpInv
<1>3. CASE jq.elems # {}
  <2>1. LoopInv /\ LoopInv'
    BY <1>1, <1>3, NextLoopInv DEF DumpInv, Simulating
  <2>2. QueuesOK'
    BY <2>1, LoopQueues, PTL
  <2>3. DumpTypes'
    <3>1. IsFiniteSet(jq'.elems) /\ IsFiniteSet(pq'.elems)
      BY <1>1, <2>1, NextFinite DEF DumpInv, DumpTypes
    <3> QED BY <1>1, <2>1, <3>1 DEF LoopInv, TypeOK, DumpTypes
  <2>4. jq'.elems # {} /\ pc' \in {"init1", "init2", "idle", "top", "work"}
    BY <2>1 DEF LoopInv, TypeOK
  <2>5. TasksOf(jq'.elems) = TasksOf(jq.elems)
    BY <1>1, <2>1, NextTasks
  <2>6. restores' > 0 => IsWhole' /\ TasksOf(DumpedAhead') \subseteq TasksOf(jq'.elems)
    BY <1>1, <1>2, <2>5 DEF DumpInv
  <2> QED BY <1>2, <2>1, <2>2, <2>3, <2>4, <2>6 DEF DumpInv, TasksOf
<1>4. CASE jq.elems = {}
  <2>1. /\ pc = "idle" /\ evl_nextjob = NULL /\ restores > 0 /\ Call
    BY <1>1, <1>4 DEF DumpInv, Next, InitFirst, InitSecond, Run, CalcRuntime,
       SpendBudget, FinishJob, StopAtBreaktime, StopAtOverrun, Arrival,
       WindowDone
  <2>2. /\ UNCHANGED <<jobgenvars, pq, now, counters, evl_nextjob, overflow,
                       allow_first_overrun, runtime, overrun>>
        /\ breaktime' \in Nat /\ speed' \in Nat /\ overrunbreak' \in BOOLEAN
        /\ result' \in Results
        /\ \/ pc' = "idle" /\ nextjob' = nextjob
           \/ pc' = "top" /\ nextjob' = evl_nextjob
    BY <2>1, EventLoopAssumption DEF Call, RunPass, RunStart, Results
  <2>3. DumpTypes'
    BY <1>1, <2>1, <2>2 DEF DumpInv, DumpTypes, jobgenvars, counters, overflow
  <2>4. QueuesOK'
    BY <2>2 DEF DumpInv, QueuesOK, jobgenvars, IsJobQ, Firsts, ByDeadline,
                ByStarttime
  <2>5. IsWhole' /\ TasksOf(DumpedAhead)' \subseteq TasksOf(jq.elems)'
    BY <1>2, <2>1, <2>2 DEF DumpInv, TasksOf, jobgenvars
  <2> QED BY <1>1, <1>2, <1>4, <2>1, <2>2, <2>3, <2>4, <2>5
          DEF DumpInv, Simulating, jobgenvars
<1> QED BY <1>3, <1>4

(* What eventloop_dump writes lists the jobs of both queues. *)
LEMMA DumpEffect ==
    ASSUME DumpInv, NEW f \in Dumps(now, DumpedJobs)
    PROVE  /\ now \in Nat /\ DumpedJobs \in SUBSET Jobs(Tasks)
           /\ IsFiniteSet(DumpedJobs)
           /\ Lists(f, now, DumpedJobs)
           /\ FileOK(f)
<1>1. /\ now \in Nat /\ DumpedJobs \in SUBSET Jobs(Tasks)
  BY DEF DumpInv, DumpTypes, JobQs, DumpedJobs
<1>2. IsFiniteSet(DumpedJobs)
  BY FS_Union DEF DumpInv, DumpTypes, DumpedJobs
<1>3. \A j \in DumpedJobs : j.starttime <= j.deadline
  BY DEF DumpInv, QueuesOK, DumpedJobs
<1>4. Lists(f, now, DumpedJobs)
  BY <1>1, <1>2, DumpLists
<1> QED BY <1>1, <1>2, <1>3, <1>4, ListsFileOK

LEMMA DumpStep ==
    ASSUME DumpInv, eventloop_dump
    PROVE  DumpInv'
<1>1. /\ file' \in Dumps(now, DumpedJobs) /\ pc' = "exited"
      /\ UNCHANGED <<jobgenvars, pq, now, counters, evl_nextjob, overflow,
                     allow_first_overrun, args, nextjob, runtime, overrun,
                     result, restores>>
      /\ pc = "idle"
  BY DEF eventloop_dump
<1>2. FileOK(file)'
  BY <1>1, DumpEffect
<1>3. DumpTypes'
  BY <1>1 DEF DumpInv, DumpTypes, jobgenvars, counters, overflow, args
<1>4. QueuesOK'
  BY <1>1 DEF DumpInv, QueuesOK, jobgenvars, IsJobQ, Firsts, ByDeadline,
              ByStarttime
<1>5. ~Simulating'
  BY <1>1 DEF Simulating
<1>6. jq' = jq /\ restores' = restores
  BY <1>1 DEF jobgenvars
<1> QED BY <1>1, <1>2, <1>3, <1>4, <1>5, <1>6 DEF DumpInv

LEMMA FileStep ==
    ASSUME DumpInv, DropJob \/ CutFile
    PROVE  DumpInv' /\ PartOf(file', file)
<1>1. pc = "exited" /\ UNCHANGED <<vars, restores>>
  BY DEF DropJob, CutFile
<1>2. file \in Seq(Numbers)
  BY DEF DumpInv, FileOK
<1>3. PartOf(file', file)
  <2>1. CASE DropJob
    BY <1>2, <2>1, DroppedPart DEF DropJob
  <2>2. CASE CutFile
    BY <1>2, <2>2, CutPart DEF CutFile
  <2> QED BY <2>1, <2>2
<1>4. FileOK(file)'
  BY <1>3, PartFileOK DEF DumpInv
<1>5. DumpTypes'
  BY <1>1 DEF DumpInv, DumpTypes, vars, jobgenvars, counters, overflow, args
<1>6. QueuesOK'
  BY <1>1 DEF DumpInv, QueuesOK, vars, jobgenvars, IsJobQ, Firsts, ByDeadline,
              ByStarttime
<1>7. pc' = "exited" /\ jq' = jq /\ restores' = restores /\ ~Simulating'
  BY <1>1 DEF vars, jobgenvars, Simulating
<1>8. DumpInv'
  BY <1>1, <1>4, <1>5, <1>6, <1>7 DEF DumpInv
<1> QED BY <1>3, <1>8

LEMMA RestoreStep ==
    ASSUME DumpInv, Restore
    PROVE  DumpInv'
<1>1. /\ pc' = "read1" /\ restores' = restores + 1 /\ IsWhole
      /\ events_done' = 0 /\ jobs_done' = 0 /\ evl_nextjob' = NULL
      /\ had_overrun' = FALSE /\ overflowing' = NULL
      /\ allow_first_overrun' \in AllowFirstOverrun
      /\ breaktime' = 0 /\ speed' = 0 /\ overrunbreak' = FALSE
      /\ result' = "none"
      /\ UNCHANGED <<nextjob, runtime, overrun, file>>
  BY DEF Restore
<1>2. /\ restores' \in Nat /\ restores' > 0
  BY <1>1 DEF DumpInv, DumpTypes
<1>3. FileOK(file)' /\ IsWhole' /\ DumpedAhead' = DumpedAhead
  BY <1>1, SameFile DEF DumpInv
<1>4. /\ pq' \in JobQs /\ IsFiniteSet(pq'.elems) /\ IsJobQ(pq', ByDeadline)
      /\ jq' \in JobQs /\ IsFiniteSet(jq'.elems) /\ IsJobQ(jq', ByStarttime)
      /\ jq'.elems = DumpedAhead
      /\ now' \in Nat
      /\ simtime_state' \in [Tasks -> Nat]
      /\ \A j \in jq'.elems : \E k \in jq'.elems :
            /\ k.taskid = j.taskid
            /\ k.starttime + TaskSystem[k.taskid].period
                  = simtime_state'[k.taskid]
      /\ \A j \in pq'.elems \cup jq'.elems :
            /\ j \in Jobs(Tasks)
            /\ j.starttime <= j.deadline
      /\ \A j \in pq'.elems : j.starttime <= now'
      /\ \A j \in jq'.elems : now' < j.starttime
  BY RestoreEffect DEF DumpInv
<1>5. DumpTypes'
  BY <1>1, <1>2, <1>4, EventLoopAssumption DEF DumpInv, DumpTypes, Results
<1>6. ASSUME NEW j \in jq'.elems
      PROVE  \E k \in jq'.elems : /\ k.taskid = j.taskid
                                  /\ k.starttime <= simtime_state'[k.taskid]
  <2>1. PICK k \in jq'.elems :
            /\ k.taskid = j.taskid
            /\ k.starttime + TaskSystem[k.taskid].period
                  = simtime_state'[k.taskid]
    BY <1>4
  <2>2. k.starttime \in Nat /\ TaskSystem[k.taskid].period \in Nat
    BY <1>4, JobGenAssumption DEF TaskAssumption, Jobs
  <2> QED BY <2>1, <2>2
<1>7. QueuesOK'
  <2>1. \A j \in jq'.elems : now' <= j.starttime
    BY <1>4 DEF Jobs
  <2>2. IsJobQ(pq, ByDeadline)' /\ IsJobQ(jq, ByStarttime)'
    BY <1>4 DEF IsJobQ, Firsts, ByDeadline, ByStarttime
  <2> QED BY <1>4, <1>6, <2>1, <2>2 DEF QueuesOK
<1>8. ~Simulating'
  BY <1>1 DEF Simulating
<1> QED BY <1>1, <1>2, <1>3, <1>4, <1>5, <1>7, <1>8 DEF DumpInv, TasksOf

LEMMA AbortStep ==
    ASSUME DumpInv, RestoreAborts
    PROVE  DumpInv'
<1>1. /\ pc' = "aborted"
      /\ UNCHANGED <<jobgenvars, pq, now, counters, evl_nextjob, overflow,
                     allow_first_overrun, args, nextjob, runtime, overrun,
                     result, file, restores>>
      /\ pc = "exited"
  BY DEF RestoreAborts
<1>2. FileOK(file)'
  BY <1>1, SameFile DEF DumpInv
<1>3. DumpTypes'
  BY <1>1 DEF DumpInv, DumpTypes, jobgenvars, counters, overflow, args
<1>4. QueuesOK'
  BY <1>1 DEF DumpInv, QueuesOK, jobgenvars, IsJobQ, Firsts, ByDeadline,
              ByStarttime
<1>5. ~Simulating'
  BY <1>1 DEF Simulating
<1>6. jq' = jq /\ restores' = restores
  BY <1>1 DEF jobgenvars
<1> QED BY <1>1, <1>2, <1>3, <1>4, <1>5, <1>6 DEF DumpInv

(* With a job to come the generator is as jobgen_rise needs it. *)
LEMMA QueuesGenerator ==
    ASSUME DumpInv, jq.elems # {}
    PROVE  GeneratorInv
BY DEF DumpInv, DumpTypes, QueuesOK, GeneratorInv

LEMMA RestoreFirstStep ==
    ASSUME DumpInv, RestoreFirst
    PROVE  DumpInv'
<1> DEFINE j == jobq_peek(jq)
<1>1. /\ pc = "read1" /\ pc' = "read2" /\ jobgen_rise
      /\ UNCHANGED <<now, counters, evl_nextjob, overflow, allow_first_overrun,
                     args, nextjob, runtime, overrun, result, file, restores>>
  BY DEF RestoreFirst
<1>2. FileOK(file)' /\ (IsWhole' <=> IsWhole) /\ DumpedAhead' = DumpedAhead
  BY <1>1, SameFile DEF DumpInv
<1>3. ~Simulating'
  BY <1>1 DEF Simulating
<1>4. CASE jq.elems = {}
  <2>1. pq' = pq /\ UNCHANGED jobgenvars
    BY <1>1, <1>4 DEF RestoreFirst, jobgen_rise
  <2>2. DumpTypes'
    BY <1>1, <2>1 DEF DumpInv, DumpTypes, jobgenvars, counters, overflow, args
  <2>3. QueuesOK'
    BY <1>1, <2>1 DEF DumpInv, QueuesOK, jobgenvars, IsJobQ, Firsts,
                      ByDeadline, ByStarttime
  <2> QED BY <1>1, <1>2, <1>3, <2>1, <2>2, <2>3 DEF DumpInv, TasksOf, jobgenvars
<1>5. CASE jq.elems # {}
  <2>1. GeneratorInv
    BY <1>5, QueuesGenerator
  <2>2. /\ GeneratorInv'
        /\ j \in jq.elems /\ j \in Jobs(Tasks)
        /\ \A k \in jq'.elems : j.starttime <= k.starttime
    BY <1>1, <2>1, GeneratorRise DEF job_get_starttime
  <2>3. pq' = jobq_insert_by(pq, j, ByDeadline)
    BY <1>5 DEF RestoreFirst
  <2>4. /\ pq' \in JobQs /\ pq'.elems = pq.elems \cup {j}
        /\ IsJobQ(pq', ByDeadline)
    BY <2>2, <2>3, InsertJob DEF DumpInv, DumpTypes, QueuesOK, Keys
  <2>5. IsFiniteSet(pq'.elems)
    BY <2>4, FS_AddElement DEF DumpInv, DumpTypes
  <2>6. IsFiniteSet(jq'.elems)
    <3>1. PICK new : jq'.elems = (jq.elems \ {j}) \cup {new}
      BY <1>1, <2>1, RiseEffect
    <3>2. IsFiniteSet(jq.elems \ {j})
      BY FS_RemoveElement DEF DumpInv, DumpTypes
    <3> QED BY <3>1, <3>2, FS_AddElement
  <2>7. now \in Nat /\ now' = now /\ jq'.elems # {} /\ jq' \in JobQs
    BY <1>1, <2>2 DEF DumpInv, DumpTypes, GeneratorInv
  <2>8. DumpTypes'
    BY <1>1, <2>2, <2>4, <2>5, <2>6
       DEF DumpInv, DumpTypes, GeneratorInv, counters, overflow, args
  <2>9. /\ now <= j.starttime /\ j.starttime <= j.deadline
        /\ j.starttime \in Nat /\ j.deadline \in Nat
    BY <2>2 DEF DumpInv, QueuesOK, Jobs
  <2>10. \A k \in pq'.elems : k.starttime <= k.deadline
    BY <2>4, <2>9 DEF DumpInv, QueuesOK
  <2>11. \A k \in jq'.elems : now' <= k.starttime
    BY <2>2, <2>7, <2>9 DEF JobQs, Jobs
  <2>12. QueuesOK'
    BY <2>2, <2>4, <2>10, <2>11 DEF QueuesOK, GeneratorInv, IsJobQ, Firsts,
                                    ByDeadline
  <2>13. TasksOf(jq'.elems) = TasksOf(jq.elems)
    BY <1>1, <2>1, RiseTasks DEF TasksOf
  <2>14. TasksOf(DumpedAhead)' \subseteq TasksOf(jq.elems)'
    BY <1>1, <1>2, <2>13 DEF DumpInv, TasksOf
  <2> QED BY <1>1, <1>2, <1>3, <2>7, <2>8, <2>12, <2>14 DEF DumpInv
<1> QED BY <1>4, <1>5

LEMMA RestoreSecondStep ==
    ASSUME DumpInv, RestoreSecond
    PROVE  DumpInv'
<1> DEFINE j == jobq_peek(jq)
<1>1. /\ pc = "read2" /\ pc' = "idle" /\ jobgen_rise /\ evl_nextjob' = j
      /\ UNCHANGED <<pq, now, counters, overflow, allow_first_overrun, args,
                     nextjob, runtime, overrun, result, file, restores>>
  BY DEF RestoreSecond
<1>2. FileOK(file)' /\ (IsWhole' <=> IsWhole) /\ DumpedAhead' = DumpedAhead
  BY <1>1, SameFile DEF DumpInv
<1>3. CASE jq.elems = {}
  <2>1. UNCHANGED jobgenvars /\ j = NULL
    BY <1>1, <1>3 DEF jobgen_rise, DumpInv, QueuesOK, IsJobQ, jobq_peek
  <2>2. DumpTypes'
    BY <1>1, <2>1 DEF DumpInv, DumpTypes, jobgenvars, counters, overflow, args
  <2>3. QueuesOK'
    BY <1>1, <2>1 DEF DumpInv, QueuesOK, jobgenvars, IsJobQ, Firsts,
                      ByDeadline, ByStarttime
  <2> QED BY <1>1, <1>2, <1>3, <2>1, <2>2, <2>3 DEF DumpInv, TasksOf, jobgenvars
<1>4. CASE jq.elems # {}
  <2>1. GeneratorInv
    BY <1>4, QueuesGenerator
  <2>2. /\ GeneratorInv'
        /\ j \in jq.elems /\ j \in Jobs(Tasks)
        /\ \A k \in jq'.elems : j.starttime <= k.starttime
    BY <1>1, <2>1, GeneratorRise DEF job_get_starttime
  <2>3. IsFiniteSet(jq'.elems)
    <3>1. PICK new : jq'.elems = (jq.elems \ {j}) \cup {new}
      BY <1>1, <2>1, RiseEffect
    <3>2. IsFiniteSet(jq.elems \ {j})
      BY FS_RemoveElement DEF DumpInv, DumpTypes
    <3> QED BY <3>1, <3>2, FS_AddElement
  <2>4. /\ now \in Nat /\ now' = now /\ pq' = pq
        /\ now <= j.starttime /\ j.starttime <= j.deadline
    BY <1>1, <2>2 DEF DumpInv, DumpTypes, QueuesOK
  <2>5. DumpTypes'
    BY <1>1, <2>2, <2>3
       DEF DumpInv, DumpTypes, GeneratorInv, counters, overflow, args
  <2>6. Pending' = {j}
    BY <1>1 DEF Pending
  <2>7. TypeOK'
    BY <1>1, <2>2, <2>5, <2>6 DEF TypeOK, DumpTypes, GeneratorInv
  <2>8. SchedulerOrdered'
    BY <2>4 DEF DumpInv, QueuesOK, SchedulerOrdered, IsJobQ, Firsts, ByDeadline
  <2>9. NextToArrive'
    BY <2>2, <2>4, <2>6 DEF NextToArrive, job_get_starttime
  <2>10. \A k \in pq'.elems \cup Pending' : k.starttime <= k.deadline
    BY <2>4, <2>6 DEF DumpInv, QueuesOK
  <2>11. WindowBounded' /\ WindowExact'
    BY <1>1 DEF WindowBounded, WindowExact
  <2>12. LoopInv'
    BY <1>1, <2>2, <2>7, <2>8, <2>9, <2>10, <2>11 DEF LoopInv
  <2>13. QueuesOK'
    BY <2>12, LoopQueues, PTL
  <2>14. TasksOf(jq'.elems) = TasksOf(jq.elems)
    BY <1>1, <2>1, RiseTasks DEF TasksOf
  <2>15. TasksOf(DumpedAhead)' \subseteq TasksOf(jq.elems)' /\ IsWhole'
    BY <1>1, <1>2, <2>14 DEF DumpInv, TasksOf
  <2>16. jq'.elems # {}
    BY <2>2 DEF GeneratorInv
  <2> QED BY <1>1, <1>2, <2>5, <2>12, <2>13, <2>15, <2>16 DEF DumpInv
<1> QED BY <1>3, <1>4

LEMMA CrashStep ==
    ASSUME DumpInv, Crash
    PROVE  DumpInv'
<1>1. /\ pc = "top" /\ nextjob = NULL /\ pc' = "crashed"
      /\ UNCHANGED <<jobgenvars, pq, now, counters, evl_nextjob, overflow,
                     allow_first_overrun, args, nextjob, runtime, overrun,
                     result, file, restores>>
  BY DEF Crash
<1>2. jq.elems = {}
  <2> SUFFICES ASSUME jq.elems # {} PROVE FALSE
    OBVIOUS
  <2>1. Pending = {nextjob} /\ Pending \subseteq Jobs(Tasks)
    BY <1>1 DEF DumpInv, Simulating, LoopInv, TypeOK, Pending
  <2> QED BY <1>1, <2>1, JobGenAssumption
<1>3. FileOK(file)' /\ (IsWhole' <=> IsWhole) /\ DumpedAhead' = DumpedAhead
  BY <1>1, SameFile DEF DumpInv
<1>4. DumpTypes'
  BY <1>1 DEF DumpInv, DumpTypes, jobgenvars, counters, overflow, args
<1>5. QueuesOK'
  BY <1>1 DEF DumpInv, QueuesOK, jobgenvars, IsJobQ, Firsts, ByDeadline,
              ByStarttime
<1>6. ~Simulating' /\ jq' = jq
  BY <1>1 DEF Simulating, jobgenvars
<1> QED BY <1>1, <1>2, <1>3, <1>4, <1>5, <1>6 DEF DumpInv, TasksOf

LEMMA DumpStutter ==
    ASSUME DumpInv, UNCHANGED dumpvars
    PROVE  DumpInv'
<1>1. UNCHANGED vars /\ file' = file /\ restores' = restores
  BY DEF dumpvars
<1>2. UNCHANGED <<jq, simtime_state, pq, now, events_done, jobs_done, evl_nextjob,
                  had_overrun, overflowing, allow_first_overrun, breaktime,
                  speed, overrunbreak, nextjob, runtime, overrun, pc, result>>
  BY <1>1 DEF vars, jobgenvars, counters, args, overflow
<1>3. FileOK(file)' /\ (IsWhole' <=> IsWhole) /\ DumpedAhead' = DumpedAhead
  BY <1>1, SameFile DEF DumpInv
<1>4. DumpTypes'
  BY <1>1, <1>2 DEF DumpInv, DumpTypes
<1>5. QueuesOK'
  BY <1>2 DEF DumpInv, QueuesOK, IsJobQ, Firsts, ByDeadline, ByStarttime
<1>6. LoopInv => LoopInv'
  BY <1>1, NextLoopInv
<1>7. Simulating' <=> Simulating
  BY <1>2 DEF Simulating
<1> QED BY <1>1, <1>2, <1>3, <1>4, <1>5, <1>6, <1>7 DEF DumpInv, TasksOf

LEMMA NextDumpInv == DumpInv /\ [DumpNext]_dumpvars => DumpInv'
<1> SUFFICES ASSUME DumpInv, [DumpNext]_dumpvars PROVE DumpInv'
  OBVIOUS
<1>1. CASE Simulate
  BY <1>1, SimulateStep
<1>2. CASE eventloop_dump
  BY <1>2, DumpStep
<1>3. CASE DropJob \/ CutFile
  BY <1>3, FileStep
<1>4. CASE Restore
  BY <1>4, RestoreStep
<1>5. CASE RestoreAborts
  BY <1>5, AbortStep
<1>6. CASE RestoreFirst
  BY <1>6, RestoreFirstStep
<1>7. CASE RestoreSecond
  BY <1>7, RestoreSecondStep
<1>8. CASE Crash
  BY <1>8, CrashStep
<1>9. CASE UNCHANGED dumpvars
  BY <1>9, DumpStutter
<1> QED BY <1>1, <1>2, <1>3, <1>4, <1>5, <1>6, <1>7, <1>8, <1>9 DEF DumpNext

(* The invariant of simulations that end in a dump and are resumed from    *)
(* it, however often, with jobs taken out of the dump and with dumps that  *)
(* are cut short.                                                          *)
LEMMA DumpInvariance == DumpSpec => []DumpInv
  BY InitDumpInv, NextDumpInv, PTL DEF DumpSpec

(* The event loop is entered without a job to come only if the dump that   *)
(* was resumed has none (eventloop.c 88-90, 318-376).                      *)
THEOREM NextJobIsThere == DumpSpec => []NextJobThere
<1>1. DumpInv => NextJobThere
  <2> SUFFICES ASSUME DumpInv, pc = "crashed",
                      NEW k \in 0..Len(file) \div 5 - 1
               PROVE  job_get_starttime(ReadJob(k)) <= file[1]
    BY DEF NextJobThere
  <2>1. jq.elems = {} /\ restores > 0 /\ FileOK(file)
    BY DEF DumpInv
  <2>2. IsWhole /\ DumpedAhead = {}
    BY <2>1 DEF DumpInv, TasksOf
  <2>3. ReadJob(k) \in Jobs(Tasks) /\ file[1] \in Nat
    BY <2>1, <2>2, WholeFile DEF JobsRead, RestoredTime
  <2>4. ~(job_get_starttime(ReadJob(k)) > file[1])
    BY <2>2 DEF DumpedAhead
  <2> QED BY <2>3, <2>4 DEF Jobs, job_get_starttime
<1> QED BY <1>1, DumpInvariance, PTL

(* A task goes on releasing jobs after a resume if the dump has a job of   *)
(* it to come (eventloop.c 326-335).                                       *)
THEOREM DumpedTasksRelease == DumpSpec => []DumpedTaskReleases
<1>1. DumpInv => DumpedTaskReleases
  <2> SUFFICES ASSUME DumpInv, restores > 0, pc \in {"idle", "top", "work"},
                      NEW d \in DumpedAhead
               PROVE  \E j \in jq.elems : j.taskid = d.taskid
    BY DEF DumpedTaskReleases
  <2>1. TasksOf(DumpedAhead) \subseteq TasksOf(jq.elems)
    BY DEF DumpInv
  <2> QED BY <2>1 DEF TasksOf
<1> QED BY <1>1, DumpInvariance, PTL

(***************************************************************************)
(* Deadlines                                                               *)
(***************************************************************************)

(* A job is late after a step only if it was before, and time stands still *)
(* - unless the step restores it late from a file.                         *)
LEMMA NextDumpLate ==
    ASSUME DumpInv, [DumpNext]_dumpvars, ~Restore, ~NoUndetectedMiss'
    PROVE  /\ ~NoUndetectedMiss /\ now' = now
           /\ ~SpendBudget /\ ~FinishJob
<1>1. CASE Simulate
  <2>1. /\ Next /\ file' = file /\ restores' = restores
        /\ pc = "top" => nextjob # NULL
        /\ pc \in {"init1", "init2", "idle", "top", "work"}
    BY <1>1 DEF Simulate, Next, InitFirst, InitSecond, Call, Run, CalcRuntime,
         SpendBudget, FinishJob, StopAtBreaktime, StopAtOverrun, Arrival,
         WindowDone
  <2>2. CASE jq.elems # {}
    <3>1. LoopInv
      BY <2>1, <2>2 DEF DumpInv, Simulating
    <3> QED BY <2>1, <3>1, NextLate
  <2>3. CASE jq.elems = {}
    <3>1. Call /\ pc = "idle"
      BY <2>1, <2>3 DEF DumpInv, Next, InitFirst, InitSecond, Run, CalcRuntime,
         SpendBudget, FinishJob, StopAtBreaktime, StopAtOverrun, Arrival,
         WindowDone
    <3>2. pq' = pq /\ now' = now
      BY <3>1 DEF Call, RunPass, RunStart
    <3> QED BY <3>1, <3>2 DEF NoUndetectedMiss, job_get_deadline, SpendBudget,
                              FinishJob
  <2> QED BY <2>2, <2>3
<1>2. CASE RestoreFirst
  <2> DEFINE j == jobq_peek(jq)
  <2>1. /\ now' = now /\ pc = "read1"
        /\ IF jq.elems = {} THEN pq' = pq
           ELSE pq' = jobq_insert_by(pq, j, ByDeadline)
    BY <1>2 DEF RestoreFirst
  <2>2. CASE jq.elems = {}
    BY <2>1, <2>2 DEF NoUndetectedMiss, job_get_deadline, SpendBudget, FinishJob
  <2>3. CASE jq.elems # {}
    <3>1. j \in jq.elems /\ j \in Jobs(Tasks) /\ now \in Nat
      BY <2>3 DEF DumpInv, DumpTypes, QueuesOK, IsJobQ, Firsts, JobQs, jobq_peek
    <3>2. now <= j.starttime /\ j.starttime <= j.deadline
      BY <3>1 DEF DumpInv, QueuesOK
    <3>3. now <= j.deadline
      BY <3>1, <3>2 DEF Jobs
    <3>4. pq'.elems = pq.elems \cup {j}
      BY <2>1, <2>3 DEF jobq_insert_by
    <3> QED BY <2>1, <3>3, <3>4 DEF NoUndetectedMiss, job_get_deadline,
                                    SpendBudget, FinishJob
  <2> QED BY <2>2, <2>3
<1>3. CASE \/ eventloop_dump \/ DropJob \/ CutFile \/ RestoreAborts
           \/ RestoreSecond \/ Crash
  <2>1. pq' = pq /\ now' = now /\ pc # "work"
    BY <1>3 DEF eventloop_dump, DropJob, CutFile, RestoreAborts, RestoreSecond,
                Crash, vars
  <2> QED BY <2>1 DEF NoUndetectedMiss, job_get_deadline, SpendBudget, FinishJob
<1>4. CASE UNCHANGED dumpvars
  <2>1. pq' = pq /\ now' = now /\ pc' = pc /\ events_done' = events_done
        /\ events_done \in Nat
    BY <1>4 DEF dumpvars, vars, counters, DumpInv, DumpTypes
  <2>2. ~SpendBudget /\ ~FinishJob
    BY <2>1 DEF SpendBudget, FinishJob, ProgressTo
  <2> QED BY <2>1, <2>2 DEF NoUndetectedMiss, job_get_deadline
<1> QED BY <1>1, <1>2, <1>3, <1>4 DEF DumpNext

(* No record of the file is late. *)
OnTime(f) ==
    \A k \in Nat : InFile(f, k) => f[1] <= RecordAt(f, k).deadline

DumpOnTime == NoUndetectedMiss /\ OnTime(file)

LEMMA NextDumpOnTime ==
    DumpInv /\ DumpOnTime /\ [DumpNext]_dumpvars => DumpOnTime'
<1> SUFFICES ASSUME DumpInv, DumpOnTime, [DumpNext]_dumpvars
             PROVE  DumpOnTime'
  OBVIOUS
<1>1. NoUndetectedMiss'
  <2>1. CASE Restore
    <3>1. /\ FileOK(file) /\ IsWhole /\ OnTime(file)
      BY <2>1 DEF DumpInv, DumpOnTime, Restore
    <3>2. pq'.elems = Due(JobsRead) /\ now' = file[1]
      BY <2>1, <3>1, RestoreEffect DEF RestoredTime
    <3>3. ASSUME NEW j \in pq'.elems PROVE now' <= j.deadline
      <4>1. PICK k \in 0..JobsRead-1 : j = ReadJob(k)
        BY <3>2 DEF Due
      <4>2. k \in Nat /\ InFile(file, k) /\ j = RecordAt(file, k)
        BY <3>1, <4>1, WholeFile DEF ReadJob, RecordAt
      <4> QED BY <3>1, <3>2, <4>2 DEF OnTime
    <3> QED BY <3>3 DEF NoUndetectedMiss, job_get_deadline
  <2>2. CASE ~Restore
    BY <2>2, NextDumpLate DEF DumpOnTime
  <2> QED BY <2>1, <2>2
<1>2. OnTime(file)'
  <2>1. CASE file' = file
    BY <2>1 DEF DumpOnTime, OnTime, InFile, RecordAt
  <2>2. CASE eventloop_dump
    <3>1. file' \in Dumps(now, DumpedJobs)
      BY <2>2 DEF eventloop_dump
    <3>2. /\ Lists(file', now, DumpedJobs) /\ now \in Nat
          /\ DumpedJobs \in SUBSET Jobs(Tasks) /\ IsFiniteSet(DumpedJobs)
      BY <3>1, DumpEffect
    <3>3. ASSUME NEW j \in DumpedJobs PROVE now <= j.deadline
      <4>1. CASE j \in pq.elems
        BY <4>1 DEF DumpOnTime, NoUndetectedMiss, job_get_deadline
      <4>2. CASE j \in jq.elems
        <5>1. now <= j.starttime /\ j.starttime <= j.deadline
          BY <4>2 DEF DumpInv, QueuesOK
        <5> QED BY <3>2, <5>1 DEF Jobs
      <4> QED BY <4>1, <4>2 DEF DumpedJobs
    <3>4. \A k \in Nat : InFile(file', k) => RecordAt(file', k) \in DumpedJobs
      BY <3>2, ListsRecords
    <3>5. file'[1] = now
      BY <3>2 DEF Lists
    <3> QED BY <3>3, <3>4, <3>5 DEF OnTime, InFile, RecordAt
  <2>3. CASE DropJob \/ CutFile
    <3>1. PartOf(file', file)
      BY <2>3, FileStep
    <3>2. PICK h \in [Nat -> Nat] :
             \A k \in Nat : InFile(file', k) =>
                InFile(file, h[k]) /\ RecordAt(file', k) = RecordAt(file, h[k])
      BY <3>1 DEF PartOf
    <3>3. ASSUME NEW k \in Nat, InFile(file', k)
          PROVE  file'[1] <= RecordAt(file', k).deadline
      <4>1. file' # <<>>
        BY <3>1, <3>3, NotEmpty DEF PartOf
      <4>2. file'[1] = file[1]
        BY <3>1, <4>1 DEF PartOf
      <4> QED BY <3>2, <3>3, <4>2 DEF DumpOnTime, OnTime
    <3> QED BY <3>3 DEF OnTime, InFile, RecordAt
  <2> QED BY <2>1, <2>2, <2>3 DEF DumpNext, dumpvars, Simulate, Restore,
             RestoreAborts, RestoreFirst, RestoreSecond, Crash
<1> QED BY <1>1, <1>2 DEF DumpOnTime

LEMMA OnTimeInvariance == DumpSpec => []DumpOnTime
<1>1. DumpInit => DumpOnTime
  <2> SUFFICES ASSUME DumpInit PROVE DumpOnTime
    OBVIOUS
  <2>1. pq.elems = {} /\ file = <<>>
    BY DEF DumpInit, Init, jobq_init
  <2>2. Len(file) = 0
    BY <2>1
  <2> QED BY <2>1, <2>2 DEF DumpOnTime, NoUndetectedMiss, OnTime, InFile
<1> QED BY <1>1, NextDumpOnTime, DumpInvariance, PTL DEF DumpSpec

(***************************************************************************)
(* Jobs scheduled before their arrival                                     *)
(***************************************************************************)

(* At most one of jobs is not due at time, and none of bound is sooner.    *)
OneEarly(jobs, time, bound) ==
    \A j \in jobs : j.starttime > time =>
        /\ \A d \in bound : j.starttime <= d.starttime
        /\ \A k \in jobs : k.starttime > time => k = j

LEMMA NextOneEarly ==
    ASSUME LoopInv, NoUndetectedMiss, [Next]_vars, NEW D,
           OneEarly(pq.elems, now, D)
    PROVE  OneEarly(pq'.elems, now', D)
<1>0. /\ pq \in JobQs /\ pq.elems \subseteq Jobs(Tasks) /\ now \in Nat
      /\ now' \in Nat /\ now <= now'
  BY NextMonotone, NextLoopInv DEF LoopInv, TypeOK, JobQs
<1>1. ASSUME NEW from \in [pq'.elems -> pq.elems],
             \A j \in pq'.elems : j.starttime = from[j].starttime,
             \A i, j \in pq'.elems : i # j => from[i] # from[j]
      PROVE  OneEarly(pq'.elems, now', D)
  <2>1. \A j \in pq'.elems : /\ from[j] \in pq.elems
                             /\ j.starttime \in Nat
                             /\ j.starttime > now' => from[j].starttime > now
    BY <1>0, <1>1 DEF Jobs
  <2> QED BY <1>1, <2>1 DEF OneEarly
<1>2. ASSUME pq'.elems \subseteq pq.elems
      PROVE  OneEarly(pq'.elems, now', D)
  <2>1. \A j \in pq'.elems : j \in pq.elems /\ (j.starttime > now' => j.starttime > now)
    BY <1>0, <1>2 DEF Jobs
  <2> QED BY <2>1 DEF OneEarly
<1>3. ASSUME NEW n, pq'.elems = pq.elems \cup {n}, n.starttime = now'
      PROVE  OneEarly(pq'.elems, now', D)
  <2>1. ~(n.starttime > now')
    BY <1>0, <1>3
  <2>2. \A j \in pq.elems : j.starttime > now' => j.starttime > now
    BY <1>0 DEF Jobs
  <2> QED BY <1>3, <2>1, <2>2 DEF OneEarly
<1>4. CASE InitFirst
  <2>1. pq'.elems = pq.elems \cup {jobq_peek(jq)} /\ now' = jobq_peek(jq).starttime
    BY <1>4 DEF InitFirst, jobq_insert_by, job_get_starttime
  <2> QED BY <2>1, <1>3
<1>5. CASE SpendBudget
  <2> DEFINE j == jobq_peek(pq)
             k == [j EXCEPT !.computation = @ - runtime * speed,
                            !.overruntime = max(0, @ - runtime * speed)]
  <2>1. j \in pq.elems /\ j \in Jobs(Tasks)
    BY <1>5, RootIsEarliest DEF SpendBudget
  <2>2. k.starttime = j.starttime
    BY <2>1 DEF Jobs
  <2> HIDE DEF k
  <2>3. pq'.elems = (pq.elems \ {j}) \cup {k}
    BY <1>5 DEF SpendBudget, WriteRoot, jobq_peek, k
  <2> DEFINE from == [i \in pq'.elems |-> IF i = k THEN j ELSE i]
  <2>4. /\ from \in [pq'.elems -> pq.elems]
        /\ \A i \in pq'.elems : from[i] = IF i = k THEN j ELSE i
    BY <2>1, <2>3
  <2> HIDE DEF from
  <2>5. /\ \A i \in pq'.elems : i.starttime = from[i].starttime
        /\ \A i, h \in pq'.elems : i # h => from[i] # from[h]
    BY <2>2, <2>3, <2>4
  <2> QED BY <2>4, <2>5, <1>1
<1>6. CASE FinishJob
  <2>1. pq'.elems = pq.elems \ {jobq_peek(pq)}
    BY <1>6, <1>0, PopRoot DEF FinishJob, Keys, jobq_peek
  <2> QED BY <2>1, <1>2
<1>7. CASE Arrival
  <2>1. pq'.elems = pq.elems \cup {nextjob} /\ now' = nextjob.starttime
    BY <1>7 DEF Arrival, jobq_insert_by, job_get_starttime
  <2> QED BY <2>1, <1>3
<1>8. CASE pq' = pq
  BY <1>8, <1>2
<1> QED
  BY <1>4, <1>5, <1>6, <1>7, <1>8
     DEF Next, Run, vars, InitSecond, Call, RunPass, RunStart, CalcRuntime,
         StopAtBreaktime, StopAtOverrun

(* A simulation that was not resumed has no job scheduled before its       *)
(* arrival; a resumed one has at most the first of those that were to come.*)
EarlyInv ==
    pc \notin {"exited", "aborted", "crashed"} =>
        IF restores = 0 THEN \A j \in pq.elems : j.starttime <= now
        ELSE OneEarly(pq.elems, now, DumpedAhead)

LEMMA NextEarlyInv ==
    DumpInv /\ DumpOnTime /\ EarlyInv /\ [DumpNext]_dumpvars => EarlyInv'
<1> SUFFICES ASSUME DumpInv, DumpOnTime, EarlyInv, [DumpNext]_dumpvars
             PROVE  EarlyInv'
  OBVIOUS
<1>0. /\ pq \in JobQs /\ pq.elems \subseteq Jobs(Tasks) /\ now \in Nat
      /\ restores \in Nat
  BY DEF DumpInv, DumpTypes, JobQs
<1>1. ASSUME UNCHANGED <<pq, now, file, restores>>,
             pc \notin {"exited", "aborted", "crashed"}
      PROVE  EarlyInv'
  <2>1. DumpedAhead' = DumpedAhead
    BY <1>1, SameFile
  <2> QED BY <1>1, <2>1 DEF EarlyInv
<1>2. CASE Simulate
  <2>1. /\ Next /\ file' = file /\ restores' = restores
        /\ pc = "top" => nextjob # NULL
        /\ pc \in {"init1", "init2", "idle", "top", "work"}
    BY <1>2 DEF Simulate, Next, InitFirst, InitSecond, Call, Run, CalcRuntime,
         SpendBudget, FinishJob, StopAtBreaktime, StopAtOverrun, Arrival,
         WindowDone
  <2>2. CASE jq.elems # {}
    <3>1. LoopInv /\ NoUndetectedMiss
      BY <2>1, <2>2 DEF DumpInv, Simulating, DumpOnTime
    <3>2. DumpedAhead' = DumpedAhead
      BY <2>1, SameFile
    <3>3. CASE restores = 0
      <4>1. \A j \in pq.elems : j.starttime <= now
        BY <2>1, <3>3 DEF EarlyInv
      <4>2. \A j \in pq'.elems : j.starttime <= now'
        BY <2>1, <3>1, <4>1, NextArrived
      <4> QED BY <2>1, <3>3, <4>2 DEF EarlyInv
    <3>4. CASE restores # 0
      <4>1. OneEarly(pq.elems, now, DumpedAhead)
        BY <2>1, <3>4 DEF EarlyInv
      <4>2. OneEarly(pq'.elems, now', DumpedAhead)
        BY <2>1, <3>1, <4>1, NextOneEarly
      <4> QED BY <2>1, <3>2, <3>4, <4>2 DEF EarlyInv
    <3> QED BY <3>3, <3>4
  <2>3. CASE jq.elems = {}
    <3>1. Call
      BY <2>1, <2>3 DEF DumpInv, Next, InitFirst, InitSecond, Run, CalcRuntime,
         SpendBudget, FinishJob, StopAtBreaktime, StopAtOverrun, Arrival,
         WindowDone
    <3>2. pq' = pq /\ now' = now
      BY <3>1 DEF Call, RunPass, RunStart
    <3> QED BY <1>1, <2>1, <3>2
  <2> QED BY <2>2, <2>3
<1>3. CASE pc' \in {"exited", "aborted", "crashed"}
  BY <1>3 DEF EarlyInv
<1>4. CASE Restore
  <2>1. /\ \A j \in pq'.elems : j \in Jobs(Tasks) /\ j.starttime <= now'
        /\ now' \in Nat
    BY <1>4, RestoreEffect DEF DumpInv
  <2>2. \A j \in pq'.elems : ~(j.starttime > now')
    BY <2>1 DEF Jobs
  <2>3. restores' # 0
    BY <1>0, <1>4 DEF Restore
  <2> QED BY <2>2, <2>3 DEF EarlyInv, OneEarly
<1>5. CASE RestoreFirst
  <2> DEFINE j == jobq_peek(jq)
  <2>1. /\ pc = "read1" /\ now' = now /\ file' = file /\ restores' = restores
        /\ restores # 0 /\ jq.elems = DumpedAhead
        /\ \A k \in pq.elems : k.starttime <= now
    BY <1>0, <1>5 DEF RestoreFirst, DumpInv
  <2>2. DumpedAhead' = DumpedAhead
    BY <2>1, SameFile
  <2>3. \A k \in pq.elems : ~(k.starttime > now)
    BY <1>0, <2>1 DEF Jobs
  <2>4. CASE jq.elems = {}
    <3>1. pq' = pq
      BY <1>5, <2>4 DEF RestoreFirst
    <3> QED BY <2>1, <2>2, <2>3, <3>1 DEF EarlyInv, OneEarly
  <2>5. CASE jq.elems # {}
    <3>1. pq'.elems = pq.elems \cup {j}
      BY <1>5, <2>5 DEF RestoreFirst, jobq_insert_by
    <3>2. \A k \in jq.elems : j.starttime <= k.starttime
      BY <2>5 DEF DumpInv, QueuesOK, IsJobQ, Firsts, jobq_peek, ByStarttime
    <3> HIDE DEF j
    <3>3. OneEarly(pq'.elems, now', DumpedAhead')
      BY <2>1, <2>2, <2>3, <3>1, <3>2 DEF OneEarly
    <3> QED BY <2>1, <3>3 DEF EarlyInv
  <2> QED BY <2>4, <2>5
<1>6. CASE RestoreSecond
  BY <1>6, <1>1 DEF RestoreSecond
<1>7. CASE UNCHANGED dumpvars
  <2>1. UNCHANGED <<pq, now, file, restores, pc>>
    BY <1>7 DEF dumpvars, vars
  <2>2. DumpedAhead' = DumpedAhead
    BY <2>1, SameFile
  <2> QED BY <2>1, <2>2 DEF EarlyInv
<1>8. CASE eventloop_dump \/ DropJob \/ CutFile \/ RestoreAborts \/ Crash
  <2>1. pc' \in {"exited", "aborted", "crashed"}
    BY <1>8 DEF eventloop_dump, DropJob, CutFile, RestoreAborts, Crash, vars
  <2> QED BY <1>3, <2>1
<1> QED BY <1>2, <1>4, <1>5, <1>6, <1>7, <1>8 DEF DumpNext

LEMMA EarlyInvariance == DumpSpec => []EarlyInv
<1>1. DumpInit => EarlyInv
  BY DEF DumpInit, Init, jobq_init, EarlyInv
<1> QED BY <1>1, NextEarlyInv, OnTimeInvariance, DumpInvariance, PTL
    DEF DumpSpec

(* Only one job is ever scheduled before its arrival, the first of those   *)
(* to come at the time of the dump (eventloop.c 370-374), however often    *)
(* the simulation is resumed.                                              *)
THEOREM OnlyFirstIsEarly == DumpSpec => []EarlyOnlyFirst
<1>1. DumpInv /\ EarlyInv => EarlyOnlyFirst
  <2> SUFFICES ASSUME DumpInv, EarlyInv,
                      pc \in {"read1", "read2", "idle", "top", "work"},
                      NEW j \in pq.elems, j.starttime > now
               PROVE  /\ restores > 0
                      /\ \A d \in DumpedAhead : j.starttime <= d.starttime
                      /\ \A k \in pq.elems : k.starttime > now => k = j
    BY DEF EarlyOnlyFirst, job_get_starttime
  <2>1. now \in Nat /\ restores \in Nat /\ j \in Jobs(Tasks)
    BY DEF DumpInv, DumpTypes, JobQs
  <2>2. restores # 0
    BY <2>1 DEF EarlyInv, Jobs
  <2> QED BY <2>1, <2>2 DEF EarlyInv, OneEarly
<1> QED BY <1>1, EarlyInvariance, DumpInvariance, PTL

(***************************************************************************)
(* Overruns of a resumed simulation                                        *)
(***************************************************************************)

(* A process that is restored starts like a new one. *)
DumpOverrunInv ==
    /\ OverrunInv
    /\ pc \in {"read1", "read2"} => ~ had_overrun /\ result = "none"

LEMMA NextDumpOverrun ==
    ASSUME ContinueAfter \subseteq {"none", "EVL_PASS"}
    PROVE  DumpInv /\ DumpOverrunInv /\ [DumpNext]_dumpvars => DumpOverrunInv'
<1> SUFFICES ASSUME DumpInv, DumpOverrunInv, [DumpNext]_dumpvars
             PROVE  DumpOverrunInv'
  OBVIOUS
<1>1. CASE Simulate
  <2>1. /\ Next
        /\ pc = "top" => nextjob # NULL
        /\ pc \in {"init1", "init2", "idle", "top", "work"}
    BY <1>1 DEF Simulate, Next, InitFirst, InitSecond, Call, Run, CalcRuntime,
         SpendBudget, FinishJob, StopAtBreaktime, StopAtOverrun, Arrival,
         WindowDone
  <2>2. CASE jq.elems # {}
    <3>1. LoopInv
      BY <2>1, <2>2 DEF DumpInv, Simulating
    <3>2. OverrunInv'
      BY <2>1, <3>1, NextOverrun DEF DumpOverrunInv
    <3>3. pc' \in {"init1", "init2", "idle", "top", "work"}
      BY <2>1, <3>1, NextLoopInv DEF LoopInv, TypeOK
    <3> QED BY <3>2, <3>3 DEF DumpOverrunInv
  <2>3. CASE jq.elems = {}
    <3>1. Call
      BY <2>1, <2>3 DEF DumpInv, Next, InitFirst, InitSecond, Run, CalcRuntime,
         SpendBudget, FinishJob, StopAtBreaktime, StopAtOverrun, Arrival,
         WindowDone
    <3>2. /\ pc = "idle" /\ result \in {"none", "EVL_PASS"} /\ ~ had_overrun
          /\ UNCHANGED overflow
          /\ \/ pc' = "idle" /\ result' = "EVL_PASS"
             \/ pc' = "top" /\ result' = "none"
      BY <3>1 DEF Call, RunPass, RunStart, DumpOverrunInv, OverrunInv
    <3> QED BY <3>2 DEF overflow, DumpOverrunInv, OverrunInv, OverrunGenuine
  <2> QED BY <2>2, <2>3
<1>2. ASSUME pc' \in {"read1", "read2", "idle"}, ~ had_overrun', result' = "none"
      PROVE  DumpOverrunInv'
  <2>1. OverrunGenuine'
    BY <1>2 DEF OverrunGenuine
  <2>2. /\ pc' # "init1" /\ pc' # "init2" /\ pc' # "top" /\ pc' # "work"
    BY <1>2
  <2>3. OverrunInv'
    BY <1>2, <2>1, <2>2 DEF OverrunInv
  <2> QED BY <1>2, <2>3 DEF DumpOverrunInv
<1>3. CASE Restore
  <2>1. pc' = "read1" /\ had_overrun' = FALSE /\ result' = "none"
    BY <1>3 DEF Restore
  <2> QED BY <1>2, <2>1
<1>4. CASE RestoreFirst \/ RestoreSecond
  <2>1. /\ pc' \in {"read2", "idle"} /\ had_overrun' = had_overrun
        /\ result' = result /\ pc \in {"read1", "read2"}
    BY <1>4 DEF RestoreFirst, RestoreSecond, overflow
  <2>2. ~ had_overrun /\ result = "none"
    BY <2>1 DEF DumpOverrunInv
  <2> QED BY <1>2, <2>1, <2>2
<1>5. CASE eventloop_dump \/ DropJob \/ CutFile \/ RestoreAborts \/ Crash
  <2>1. /\ UNCHANGED <<pq, args, allow_first_overrun, result>>
        /\ pc' \in {"exited", "aborted", "crashed"}
    BY <1>5 DEF eventloop_dump, DropJob, CutFile, RestoreAborts, Crash, vars
  <2> QED BY <2>1 DEF DumpOverrunInv, OverrunInv, OverrunGenuine, Strict, args,
                      jobq_peek
<1>6. CASE UNCHANGED dumpvars
  BY <1>6 DEF dumpvars, vars, overflow, args, DumpOverrunInv, OverrunInv,
              OverrunGenuine, Strict, jobq_peek
<1> QED BY <1>1, <1>3, <1>4, <1>5, <1>6 DEF DumpNext

(* The first call of every process, also of one that resumes a dump,       *)
(* reports only genuine overruns, at speed 1 and to a caller who tolerates *)
(* none.                                                                   *)
THEOREM ResumedOverrunsGenuine ==
    ContinueAfter \subseteq {"none", "EVL_PASS"} =>
        (DumpSpec => []OverrunGenuine)
<1> SUFFICES ASSUME ContinueAfter \subseteq {"none", "EVL_PASS"}
             PROVE  DumpSpec => []OverrunGenuine
  OBVIOUS
<1>1. DumpInit => DumpOverrunInv
  BY DEF DumpInit, Init, DumpOverrunInv, OverrunInv, OverrunGenuine
<1>2. DumpInv /\ DumpOverrunInv /\ [DumpNext]_dumpvars => DumpOverrunInv'
  BY NextDumpOverrun
<1>3. DumpOverrunInv => OverrunGenuine
  BY DEF DumpOverrunInv, OverrunInv
<1> QED BY <1>1, <1>2, <1>3, DumpInvariance, PTL DEF DumpSpec

(***************************************************************************)
(* A simulation resumed once                                               *)
(***************************************************************************)

(* The jobs of a task in a file are a period apart, and no more than one   *)
(* of them is to come.                                                     *)
FileSeparate(f) ==
    \A k, l \in Nat : k # l /\ InFile(f, k) /\ InFile(f, l) =>
        /\ \/ Ahead(RecordAt(f, k), RecordAt(f, l))
           \/ Ahead(RecordAt(f, l), RecordAt(f, k))
        /\ RecordAt(f, k).starttime > f[1] /\ RecordAt(f, l).starttime > f[1] =>
              RecordAt(f, k).taskid # RecordAt(f, l).taskid

(* Jobs are in line at all points while there is one to come, and those    *)
(* that are scheduled are a period apart.  The file is not read again by a *)
(* simulation that was resumed.                                            *)
ResumeSepInv ==
    /\ restores <= 1
    /\ OneEach
    /\ \A a, b \in pq.elems : a # b => Ahead(a, b) \/ Ahead(b, a)
    /\ jq.elems # {} => InLine
    /\ restores = 0 => FileSeparate(file)

LEMMA PartSeparate ==
    ASSUME NEW f, NEW g, FileSeparate(f), FileOK(f), PartOf(g, f)
    PROVE  FileSeparate(g)
<1>1. PICK h \in [Nat -> Nat] :
          /\ \A k, l \in Nat : k # l => h[k] # h[l]
          /\ \A k \in Nat : InFile(g, k) =>
                InFile(f, h[k]) /\ RecordAt(g, k) = RecordAt(f, h[k])
  BY DEF PartOf
<1> SUFFICES ASSUME NEW k \in Nat, NEW l \in Nat, k # l, InFile(g, k), InFile(g, l)
             PROVE  /\ \/ Ahead(RecordAt(g, k), RecordAt(g, l))
                       \/ Ahead(RecordAt(g, l), RecordAt(g, k))
                    /\ /\ RecordAt(g, k).starttime > g[1]
                       /\ RecordAt(g, l).starttime > g[1]
                       => RecordAt(g, k).taskid # RecordAt(g, l).taskid
  BY DEF FileSeparate
<1>2. g[1] = f[1]
  <2>1. g # <<>>
    BY NotEmpty DEF PartOf
  <2> QED BY <2>1 DEF PartOf
<1>3. /\ InFile(f, h[k]) /\ RecordAt(g, k) = RecordAt(f, h[k])
      /\ InFile(f, h[l]) /\ RecordAt(g, l) = RecordAt(f, h[l])
      /\ h[k] \in Nat /\ h[l] \in Nat /\ h[k] # h[l]
  BY <1>1
<1> QED BY <1>2, <1>3 DEF FileSeparate

(* So is a file that lists such jobs. *)
LEMMA ListsSeparate ==
    ASSUME NEW time, NEW jobs, IsFiniteSet(jobs), NEW f, Lists(f, time, jobs),
           \A a, b \in jobs : a # b =>
              /\ Ahead(a, b) \/ Ahead(b, a)
              /\ a.starttime > time /\ b.starttime > time => a.taskid # b.taskid
    PROVE  FileSeparate(f)
<1> DEFINE n == Cardinality(jobs)
<1>1. n \in Nat
  BY FS_CardinalityType
<1>2. /\ Len(f) = 5 * n + 1 /\ f[1] = time
      /\ \E order \in [1..n -> jobs] :
            /\ \A k, l \in 1..n : k # l => order[k] # order[l]
            /\ \A k \in 0..n-1 : RecordAt(f, k) = order[k + 1]
  BY DEF Lists
<1> HIDE DEF n
<1>3. PICK order \in [1..n -> jobs] :
            /\ \A k, l \in 1..n : k # l => order[k] # order[l]
            /\ \A k \in 0..n-1 : RecordAt(f, k) = order[k + 1]
  BY <1>2
<1>4. \A k \in Nat : InFile(f, k) => k \in 0..n-1 /\ k + 1 \in 1..n
  BY <1>1, <1>2 DEF InFile
<1>5. ASSUME NEW k \in Nat, NEW l \in Nat, k # l, InFile(f, k), InFile(f, l)
      PROVE  /\ RecordAt(f, k) \in jobs
             /\ RecordAt(f, l) \in jobs
             /\ RecordAt(f, k) # RecordAt(f, l)
  <2>1. k + 1 # l + 1 /\ k + 1 \in 1..n /\ l + 1 \in 1..n
        /\ k \in 0..n-1 /\ l \in 0..n-1
    BY <1>4, <1>5
  <2> QED BY <1>3, <2>1
<1> QED BY <1>2, <1>5 DEF FileSeparate

(* The first process schedules no job before its arrival.                  *)
FirstArrived ==
    restores = 0 /\ Simulating => \A j \in pq.elems : j.starttime <= now

(* The first dump of a simulation. *)
LEMMA DumpSeparate ==
    ASSUME DumpInv, FirstArrived, ResumeSepInv, pc = "idle", restores = 0,
           NEW f \in Dumps(now, DumpedJobs)
    PROVE  FileSeparate(f)
<1>1. jq.elems # {} /\ OneEach /\ InLine
  BY DEF DumpInv, ResumeSepInv
<1>2. /\ Lists(f, now, DumpedJobs) /\ now \in Nat
      /\ DumpedJobs \in SUBSET Jobs(Tasks) /\ IsFiniteSet(DumpedJobs)
  BY DumpEffect
<1>3. \A a, b \in DumpedJobs : a # b =>
         /\ Ahead(a, b) \/ Ahead(b, a)
         /\ a.starttime > now /\ b.starttime > now => a.taskid # b.taskid
  <2> SUFFICES ASSUME NEW a \in DumpedJobs, NEW b \in DumpedJobs, a # b
               PROVE  /\ Ahead(a, b) \/ Ahead(b, a)
                      /\ a.starttime > now /\ b.starttime > now
                         => a.taskid # b.taskid
    OBVIOUS
  <2>1. a \in pq.elems \/ a \in jq.elems
    BY DEF DumpedJobs
  <2>2. b \in pq.elems \/ b \in jq.elems
    BY DEF DumpedJobs
  <2>3. CASE a \in jq.elems /\ b \in jq.elems
    <3>1. a.taskid # b.taskid
      BY <1>1, <2>3 DEF OneEach
    <3> QED BY <3>1 DEF Ahead
  <2>4. ASSUME NEW i \in pq.elems PROVE ~(i.starttime > now)
    <3>1. i.starttime <= now
      BY DEF FirstArrived, Simulating
    <3>2. i \in Jobs(Tasks)
      BY <1>2 DEF DumpedJobs
    <3> QED BY <1>2, <3>1, <3>2 DEF Jobs
  <2>5. CASE a \in pq.elems \/ b \in pq.elems
    <3>1. Ahead(a, b) \/ Ahead(b, a)
      BY <1>1, <2>1, <2>2, <2>5 DEF InLine
    <3> QED BY <2>4, <2>5, <3>1
  <2> QED BY <2>1, <2>2, <2>3, <2>5
<1> QED BY <1>2, <1>3, ListsSeparate

(* The queues a new process fills from such a file are in line. *)
LEMMA RestoreSeparate ==
    ASSUME DumpInv, FileSeparate(file), restores = 0, Restore
    PROVE  ResumeSepInv'
<1>1. /\ IsWhole /\ FileOK(file) /\ restores' = 1 /\ pc' = "read1"
  BY DEF DumpInv, Restore
<1>2. /\ pq'.elems = Due(JobsRead) /\ jq'.elems = Coming(JobsRead)
      /\ now' = RestoredTime /\ RestoredTime \in Nat
      /\ simtime_state' \in [Tasks -> Nat]
      /\ \A j \in jq'.elems : \E k \in jq'.elems :
            /\ k.taskid = j.taskid
            /\ k.starttime + TaskSystem[k.taskid].period
                  = simtime_state'[k.taskid]
      /\ \A j \in pq'.elems \cup jq'.elems : j \in Jobs(Tasks)
      /\ \A j \in pq'.elems : j.starttime <= now'
      /\ \A j \in jq'.elems : now' < j.starttime
  BY <1>1, RestoreEffect
<1>3. /\ JobsRead \in Nat
      /\ \A k \in Nat : InFile(file, k) <=> k < JobsRead
  BY <1>1, WholeFile
<1>4. \A k \in Nat : ReadJob(k) = RecordAt(file, k)
  BY DEF ReadJob, RecordAt
<1>5. ASSUME NEW a \in pq'.elems \cup jq'.elems
      PROVE  \E k \in Nat : InFile(file, k) /\ a = RecordAt(file, k)
  <2>1. PICK k \in 0..JobsRead-1 : a = ReadJob(k)
    BY <1>2 DEF Due, Coming
  <2>2. k \in Nat /\ k < JobsRead
    BY <1>3
  <2> QED BY <1>3, <1>4, <2>1, <2>2
<1>6. ASSUME NEW a \in pq'.elems \cup jq'.elems,
             NEW b \in pq'.elems \cup jq'.elems, a # b
      PROVE  /\ Ahead(a, b) \/ Ahead(b, a)
             /\ a.starttime > now' /\ b.starttime > now' => a.taskid # b.taskid
  <2>1. PICK k \in Nat : InFile(file, k) /\ a = RecordAt(file, k)
    BY <1>5
  <2>2. PICK l \in Nat : InFile(file, l) /\ b = RecordAt(file, l)
    BY <1>5
  <2>3. k # l /\ now' = file[1]
    BY <1>2, <1>6, <2>1, <2>2 DEF RestoredTime
  <2> QED BY <2>1, <2>2, <2>3 DEF FileSeparate
<1>7. \A a \in jq'.elems : a.starttime > now'
  BY <1>2 DEF Jobs
<1>8. \A a, b \in jq'.elems : a.taskid = b.taskid => a = b
  BY <1>6, <1>7
<1>9. ASSUME NEW j \in jq'.elems
      PROVE  j.starttime + TaskSystem[j.taskid].period <= simtime_state'[j.taskid]
  <2>1. PICK k \in jq'.elems :
            /\ k.taskid = j.taskid
            /\ k.starttime + TaskSystem[k.taskid].period
                  = simtime_state'[k.taskid]
    BY <1>2
  <2>2. k = j
    BY <1>8, <2>1
  <2>3. simtime_state'[j.taskid] \in Nat
    BY <1>2 DEF Jobs
  <2> QED BY <2>1, <2>2, <2>3
<1>10. OneEach'
  BY <1>8, <1>9 DEF OneEach
<1>11. ASSUME NEW a \in pq'.elems, NEW b \in jq'.elems
       PROVE  Ahead(a, b)
  <2>1. /\ a.starttime \in Nat /\ b.starttime \in Nat
        /\ a.starttime <= now' /\ now' < b.starttime /\ now' \in Nat
        /\ TaskSystem[b.taskid].period \in Nat
    BY <1>2, JobGenAssumption DEF Jobs, TaskAssumption
  <2>2. a # b
    BY <2>1
  <2>3. Ahead(a, b) \/ Ahead(b, a)
    BY <1>6, <2>2
  <2> QED BY <2>1, <2>3 DEF Ahead
<1>12. Pending' = {}
  BY <1>1 DEF Pending
<1>13. InLine'
  BY <1>6, <1>11, <1>12 DEF InLine, Ahead
<1>14. \A a, b \in pq'.elems : a # b => Ahead(a, b) \/ Ahead(b, a)
  BY <1>6
<1> QED BY <1>1, <1>10, <1>13, <1>14 DEF ResumeSepInv, Ahead

(* A step that leaves the queues alone. *)
LEMMA SameQueues ==
    ASSUME ResumeSepInv, UNCHANGED <<jobgenvars, pq, restores>>,
           jq.elems # {} => Pending' \subseteq Pending,
           restores = 0 => FileSeparate(file)'
    PROVE  ResumeSepInv'
<1>1. OneEach'
  BY DEF ResumeSepInv, OneEach, jobgenvars
<1>2. jq'.elems # {} => InLine'
  BY DEF ResumeSepInv, InLine, Ahead, jobgenvars
<1> QED BY <1>1, <1>2 DEF ResumeSepInv, Ahead

LEMMA NextResumeSep ==
    ASSUME Restores <= 1
    PROVE  DumpInv /\ FirstArrived /\ ResumeSepInv /\ [DumpNext]_dumpvars
              => ResumeSepInv'
<1> SUFFICES ASSUME DumpInv, FirstArrived, ResumeSepInv, [DumpNext]_dumpvars
             PROVE  ResumeSepInv'
  OBVIOUS
<1>0. /\ restores \in Nat /\ Restores \in Nat /\ FileOK(file)
      /\ pq.elems \subseteq Jobs(Tasks)
  BY DumpRestoreAssumption DEF DumpInv, DumpTypes, JobQs
<1>1. ASSUME file' = file PROVE FileSeparate(file)' <=> FileSeparate(file)
  BY <1>1 DEF FileSeparate, InFile, RecordAt, Ahead
<1>2. CASE Simulate
  <2>1. /\ Next /\ file' = file /\ restores' = restores
        /\ pc = "top" => nextjob # NULL
        /\ pc \in {"init1", "init2", "idle", "top", "work"}
    BY <1>2 DEF Simulate, Next, InitFirst, InitSecond, Call, Run, CalcRuntime,
         SpendBudget, FinishJob, StopAtBreaktime, StopAtOverrun, Arrival,
         WindowDone
  <2>2. CASE jq.elems # {}
    <3>1. LoopInv /\ SepInv
      BY <2>1, <2>2 DEF DumpInv, Simulating, ResumeSepInv, SepInv
    <3>2. SepInv'
      BY <2>1, <3>1, NextSep
    <3> QED BY <1>1, <2>1, <3>2 DEF ResumeSepInv, SepInv, InLine, Ahead
  <2>3. CASE jq.elems = {}
    <3>1. Call
      BY <2>1, <2>3 DEF DumpInv, Next, InitFirst, InitSecond, Run, CalcRuntime,
         SpendBudget, FinishJob, StopAtBreaktime, StopAtOverrun, Arrival,
         WindowDone
    <3>2. pq' = pq /\ UNCHANGED jobgenvars
      BY <3>1 DEF Call, RunPass, RunStart
    <3> QED BY <1>1, <2>1, <2>3, <3>2, SameQueues DEF ResumeSepInv
  <2> QED BY <2>2, <2>3
<1>3. CASE eventloop_dump
  <2>1. /\ pc = "idle" /\ pc' = "exited" /\ UNCHANGED <<jobgenvars, pq, restores>>
        /\ file' \in Dumps(now, DumpedJobs)
    BY <1>3 DEF eventloop_dump
  <2>2. Pending' = {}
    BY <2>1 DEF Pending
  <2>3. restores = 0 => FileSeparate(file)'
    BY <2>1, DumpSeparate
  <2> QED BY <2>1, <2>2, <2>3, SameQueues
<1>4. CASE DropJob \/ CutFile
  <2>1. UNCHANGED <<jobgenvars, pq, restores>> /\ pc' = "exited"
    BY <1>4 DEF DropJob, CutFile, vars
  <2>2. Pending' = {}
    BY <2>1 DEF Pending
  <2>3. restores = 0 => FileSeparate(file)'
    BY <1>0, <1>4, FileStep, PartSeparate DEF ResumeSepInv
  <2> QED BY <2>1, <2>2, <2>3, SameQueues
<1>5. CASE Restore
  <2>1. restores = 0
    BY <1>0, <1>5 DEF Restore
  <2> QED BY <1>5, <2>1, RestoreSeparate DEF ResumeSepInv
<1>6. CASE RestoreFirst \/ RestoreSecond
  <2>1. /\ file' = file /\ restores' = restores /\ jobgen_rise
        /\ pc \in {"read1", "read2"}
    BY <1>6 DEF RestoreFirst, RestoreSecond
  <2>2. CASE jq.elems = {}
    <3>1. UNCHANGED <<jobgenvars, pq>>
      BY <1>6, <2>2 DEF RestoreFirst, RestoreSecond, jobgen_rise
    <3> QED BY <1>1, <2>1, <2>2, <3>1, SameQueues DEF ResumeSepInv
  <2>3. CASE jq.elems # {}
    <3>1. GeneratorInv /\ SepInv /\ Pending = {}
      BY <2>1, <2>3, QueuesGenerator DEF ResumeSepInv, SepInv, Pending
    <3>2. CASE RestoreFirst
      <4>1. pq'.elems = pq.elems \cup {jobq_peek(jq)} /\ Pending' = {}
        BY <2>3, <3>2 DEF RestoreFirst, jobq_insert_by, Pending
      <4>2. SepInv'
        BY <1>0, <2>1, <3>1, <4>1, RiseStep
      <4> QED BY <1>1, <2>1, <4>2 DEF ResumeSepInv, SepInv, InLine, Ahead
    <3>3. CASE RestoreSecond
      <4>1. pq' = pq /\ Pending' = {jobq_peek(jq)}
        BY <3>3 DEF RestoreSecond, Pending
      <4>2. jobq_peek(jq) \notin pq.elems
        <5> SUFFICES ASSUME jobq_peek(jq) \in pq.elems PROVE FALSE
          OBVIOUS
        <5>1. /\ jobq_peek(jq) \in jq.elems /\ jobq_peek(jq) \in Jobs(Tasks)
              /\ TaskSystem[jobq_peek(jq).taskid].period \in Nat \ {0}
          BY <2>1, <3>1, RiseEffect
        <5>2. Ahead(jobq_peek(jq), jobq_peek(jq))
          BY <3>1, <5>1 DEF SepInv, InLine
        <5> QED BY <5>1, <5>2 DEF Ahead, Jobs
      <4>3. SepInv'
        BY <1>0, <2>1, <3>1, <4>1, <4>2, RiseStep
      <4> QED BY <1>1, <2>1, <4>3 DEF ResumeSepInv, SepInv, InLine, Ahead
    <3> QED BY <1>6, <3>2, <3>3
  <2> QED BY <2>2, <2>3
<1>7. CASE RestoreAborts \/ Crash
  <2>1. /\ UNCHANGED <<jobgenvars, pq, restores>> /\ file' = file
        /\ pc' \in {"aborted", "crashed"}
    BY <1>7 DEF RestoreAborts, Crash
  <2>2. Pending' = {}
    BY <2>1 DEF Pending
  <2> QED BY <1>1, <2>1, <2>2, SameQueues DEF ResumeSepInv
<1>8. CASE UNCHANGED dumpvars
  <2>1. UNCHANGED <<jobgenvars, pq, restores>> /\ file' = file /\ Pending' = Pending
    BY <1>8 DEF dumpvars, vars, Pending
  <2> QED BY <1>1, <2>1, SameQueues DEF ResumeSepInv
<1> QED BY <1>2, <1>3, <1>4, <1>5, <1>6, <1>7, <1>8 DEF DumpNext

LEMMA InitResumeSep == DumpInit => ResumeSepInv
<1> SUFFICES ASSUME DumpInit PROVE ResumeSepInv
  OBVIOUS
<1>1. Init /\ file = <<>> /\ restores = 0 /\ pq.elems = {}
  BY DEF DumpInit, Init, jobq_init
<1>2. SepInv
  BY <1>1, InitSep
<1>3. FileSeparate(file)
  <2>1. Len(file) = 0
    BY <1>1
  <2> QED BY <2>1 DEF FileSeparate, InFile
<1> QED BY <1>1, <1>2, <1>3 DEF ResumeSepInv, SepInv

LEMMA ResumeSepInvariance ==
    Restores <= 1 => (DumpSpec => []ResumeSepInv)
<1> SUFFICES ASSUME Restores <= 1 PROVE DumpSpec => []ResumeSepInv
  OBVIOUS
<1>1. DumpInv /\ FirstArrived /\ ResumeSepInv /\ [DumpNext]_dumpvars
         => ResumeSepInv'
  BY NextResumeSep
<1>2. EarlyInv => FirstArrived
  BY DEF EarlyInv, FirstArrived, Simulating
<1> QED BY <1>1, <1>2, InitResumeSep, EarlyInvariance, DumpInvariance, PTL
    DEF DumpSpec

(* A raised job is there exactly if there is another one to come.          *)
LEMMA NothingPending ==
    ASSUME DumpInv, jq.elems = {} PROVE Pending \subseteq {NULL}
BY DEF DumpInv, Pending

(* A simulation that was resumed keeps its queues in order, notices every  *)
(* missed deadline, and has no job to come in the past, behind the clock   *)
(* of its task or before the one raised (eventloop.c 318-376).             *)
THEOREM ResumedInOrder ==
    Restores <= 1 => (DumpSpec => []ResumeInv)
<1>1. DumpInv /\ DumpOnTime /\ ResumeSepInv => ResumeInv
  <2> SUFFICES ASSUME DumpInv, DumpOnTime, ResumeSepInv PROVE ResumeInv
    OBVIOUS
  <2>1. /\ IsJobQ(pq, ByDeadline) /\ IsJobQ(jq, ByStarttime) /\ NoUndetectedMiss
    BY DEF DumpInv, QueuesOK, DumpOnTime
  <2>2. ASSUME NEW j \in jq.elems
        PROVE  /\ now <= j.starttime
               /\ j.starttime <= simtime_state[j.taskid]
               /\ j.starttime <= j.deadline
    <3>1. now <= j.starttime /\ j.starttime <= j.deadline
      BY DEF DumpInv, QueuesOK
    <3>2. j.starttime + TaskSystem[j.taskid].period <= simtime_state[j.taskid]
      BY DEF ResumeSepInv, OneEach
    <3>3. /\ j.starttime \in Nat /\ TaskSystem[j.taskid].period \in Nat
          /\ simtime_state[j.taskid] \in Nat
      BY JobGenAssumption DEF DumpInv, DumpTypes, JobQs, Jobs, TaskAssumption
    <3> QED BY <3>1, <3>2, <3>3
  <2>3. ASSUME NEW j \in Pending \ {NULL}
        PROVE  /\ now <= j.starttime
               /\ \A k \in jq.elems : j.starttime <= k.starttime
    <3>1. jq.elems # {}
      BY NothingPending
    <3>2. pc \in {"idle", "top", "work"}
      BY DEF Pending
    <3>3. LoopInv
      BY <3>1, <3>2 DEF DumpInv, Simulating
    <3> QED BY <3>3 DEF LoopInv, NextToArrive, job_get_starttime
  <2> QED BY <2>1, <2>2, <2>3 DEF ResumeInv
<1> QED BY <1>1, ResumeSepInvariance, OnTimeInvariance, DumpInvariance, PTL

LEMMA ResumeSepSeparates == DumpInv /\ ResumeSepInv => ResumedSeparation
<1> SUFFICES ASSUME DumpInv, ResumeSepInv PROVE ResumedSeparation
  OBVIOUS
<1>1. CASE jq.elems # {}
  <2>1. SepInv
    BY <1>1 DEF ResumeSepInv, SepInv
  <2>2. SporadicSeparation
    BY <2>1, InLineSeparates
  <2> QED BY <2>2 DEF SporadicSeparation, ResumedSeparation
<1>2. CASE jq.elems = {}
  <2> SUFFICES ASSUME NEW a \in Placed, NEW b \in Placed,
                      a[2] # NULL, b[2] # NULL, a # b,
                      a[2].taskid = b[2].taskid
               PROVE  Ahead(a[2], b[2]) \/ Ahead(b[2], a[2])
    BY DEF ResumedSeparation, Ahead
  <2>1. \A p \in Placed : p[2] # NULL => p[2] \in pq.elems /\ p = <<"pq", p[2]>>
    BY <1>2, NothingPending DEF Placed
  <2>2. a[2] \in pq.elems /\ b[2] \in pq.elems /\ a[2] # b[2]
    BY <2>1
  <2> QED BY <2>2 DEF ResumeSepInv
<1> QED BY <1>1, <1>2

(* Jobs of one task stay a period apart over a resume, and none is in two  *)
(* places (eventloop.c 318-376).                                           *)
THEOREM ResumedSporadic ==
    Restores <= 1 => (DumpSpec => []ResumedSeparation)
  BY ResumeSepSeparates, ResumeSepInvariance, DumpInvariance, PTL
=============================================================================
