---------------------------- MODULE ProgramProofs ----------------------------
(***************************************************************************)
(* Whatever a user types, and however, the program understands it          *)
(* (Understood, OptionsEnd and DumpLeft of Program), for all words,        *)
(* arguments and files and any number of options.                          *)
(*                                                                         *)
(* The parser keeps two numbers and the user wrote words, so that the      *)
(* invariant says where in the words each option begins: Layout.  The      *)
(* parser is always at the beginning of an option (Ready), the settings    *)
(* are those that the options before it stand for, and none of these ends  *)
(* the loop.                                                               *)
(***************************************************************************)
EXTENDS Program, SequenceLemmas

Letters == Flags \cup Others \cup WithArgument

Word == Seq(Characters)

Items == [opt : Letters \cup {"word", "--"}, arg : Word \cup {NULL}]

PargState == [optarg : Word \cup {NULL}, optind : Nat, nextchar : Word \cup {NULL}]

(* Where the letter of an option is in its word: the first letter comes    *)
(* after the dash.                                                         *)
Letter(i) == IF i = 1 THEN 2 ELSE i

(* The option begins at place i of word w, and the next one at place i2 of *)
(* word w2.                                                                *)
LiesAsWord(words, item, w, i, w2, i2) ==
    /\ i = 1 /\ w2 = w + 1 /\ i2 = 1
    /\ \/ item.opt = "word" /\ item.arg = words[w] /\ item.arg \in Words
       \/ item.opt = "--" /\ words[w] = <<"-", "-">>

LiesAsLetter(words, item, w, i, w2, i2) ==
    LET j == Letter(i)
        n == Len(words[w])
    IN  /\ i # 2 /\ j \in 2..n
        /\ words[w][1] = "-" /\ words[w][j] = item.opt
        /\ i = 1 => item.opt # "-"
        /\ \/ /\ item.opt \in Flags \cup Others
              /\ IF j = n THEN w2 = w + 1 /\ i2 = 1 ELSE w2 = w /\ i2 = j + 1
           \/ /\ item.opt \in WithArgument
              /\ i2 = 1
              /\ \/ /\ item.arg \in Arguments[item.opt]
                    /\ j = n /\ w2 = w + 2
                    /\ w + 1 <= Len(words) /\ words[w + 1] = item.arg
                 \/ /\ item.arg \in Arguments[item.opt]
                    /\ j < n /\ w2 = w + 1
                    /\ item.arg = SubSeq(words[w], j + 1, n)
                 \/ item.arg = NULL /\ j = n /\ w = Len(words) /\ w2 = w + 1

Lies(words, item, w, i, w2, i2) ==
    /\ w \in 1..Len(words)
    /\ \/ LiesAsWord(words, item, w, i, w2, i2)
       \/ LiesAsLetter(words, item, w, i, w2, i2)

(* The options one after the other, from the beginning of the first word. *)
Line(words, items, wd, pl) ==
    /\ wd \in [1..Len(items)+1 -> Nat] /\ pl \in [1..Len(items)+1 -> Nat]
    /\ wd[1] = 1 /\ pl[1] = 1
    /\ \A k \in 1..Len(items) :
           Lies(words, items[k], wd[k], pl[k], wd[k + 1], pl[k + 1])

(* To the end of the last word. *)
Layout(words, items, wd, pl) ==
    /\ Line(words, items, wd, pl)
    /\ wd[Len(items) + 1] = Len(words) + 1 /\ pl[Len(items) + 1] = 1

(* As long as the user types no option lacks its argument. *)
Given(items) ==
    \A k \in 1..Len(items) : items[k].opt \in WithArgument => items[k].arg # NULL

(* The parser is at place i of word w. *)
Ready(p, words, w, i) ==
    /\ p \in PargState
    /\ IF i = 1 THEN p.optind = w /\ p.nextchar \in {NULL, <<>>}
       ELSE /\ p.optind = w + 1
            /\ p.nextchar = SubSeq(words[w], i, Len(words[w]))

(* Every option up to k was read and the settings are what they stand for. *)
ReadUpTo(k) ==
    /\ \A j \in 1..k : ~ Ends(typed[j])
    /\ s = Meant(SubSeq(typed, 1, k))

Typing ==
    /\ \E wd, pl : Layout(argv, typed, wd, pl)
    /\ Given(typed)
    /\ ps = parg_init /\ s = Defaults

Parsing ==
    \E wd, pl : \E k \in 1..Len(typed)+1 :
        /\ Layout(argv, typed, wd, pl)
        /\ Ready(ps, argv, wd[k], pl[k])
        /\ ReadUpTo(k - 1)

ProgInv ==
    /\ typed \in Seq(Items) /\ argv \in Seq(Word)
    /\ s.prefix \in Word
    /\ pc = "typing" => Typing
    /\ pc = "options" => Parsing
    /\ pc \in {"typing", "options"} => disk = Disk
    /\ Understood
    /\ pc = "dumped" => DumpName \in DOMAIN disk /\ disk[DumpName] \in Finished
    /\ DumpLeft

-----------------------------------------------------------------------------
(* The user *)

(* words2 begins with words; only its last word may be longer.             *)
Longer(words, words2) ==
    /\ Len(words) <= Len(words2)
    /\ \A k \in 1..Len(words) :
          /\ k < Len(words) => words2[k] = words[k]
          /\ Len(words[k]) <= Len(words2[k])
          /\ \A i \in 1..Len(words[k]) : words2[k][i] = words[k][i]

(* An option stays where it is when the words after it change and its own  *)
(* gets longer behind it.                                                  *)
LEMMA LiesKept ==
    ASSUME NEW words \in Seq(Word), NEW words2 \in Seq(Word),
           NEW item \in Items, item.opt \in WithArgument => item.arg # NULL,
           NEW w, NEW i \in Nat, NEW w2, NEW i2, Lies(words, item, w, i, w2, i2),
           Longer(words, words2),
           w2 <= Len(words) \/ words2[Len(words)] = words[Len(words)]
    PROVE  Lies(words2, item, w, i, w2, i2)
<1>1. w \in 1..Len(words) /\ w \in 1..Len(words2) /\ Len(words) \in Nat
      /\ Len(words2) \in Nat /\ words[w] \in Word /\ words2[w] \in Word
  BY DEF Lies, Longer
<1>2. \A k \in 1..Len(words) : k < w2 => words2[k] = words[k]
  <2> SUFFICES ASSUME NEW k \in 1..Len(words), k < w2 PROVE words2[k] = words[k]
    OBVIOUS
  <2>1. w2 \in Nat
    BY <1>1 DEF Lies, LiesAsWord, LiesAsLetter
  <2>2. k < Len(words) => words2[k] = words[k]
    BY DEF Longer
  <2> QED BY <1>1, <2>1, <2>2
<1>3. CASE LiesAsWord(words, item, w, i, w2, i2)
  <2>1. words2[w] = words[w]
    BY <1>1, <1>2, <1>3 DEF LiesAsWord
  <2> QED BY <1>1, <1>3, <2>1 DEF Lies, LiesAsWord
<1>4. CASE LiesAsLetter(words, item, w, i, w2, i2)
  <2> DEFINE j == Letter(i)
             n == Len(words[w])
             n2 == Len(words2[w])
  <2>1. /\ i # 2 /\ j \in 2..n /\ words[w][1] = "-" /\ words[w][j] = item.opt
        /\ i = 1 => item.opt # "-"
        /\ n \in Nat /\ n2 \in Nat
    BY <1>1, <1>4 DEF LiesAsLetter
  <2>2. /\ n <= n2 /\ \A k \in 1..n : words2[w][k] = words[w][k]
    BY <1>1 DEF Longer
  <2>3. j \in 2..n2 /\ words2[w][1] = "-" /\ words2[w][j] = item.opt
    <3>1. 1 \in 1..n /\ j \in 1..n
      BY <2>1
    <3> QED BY <2>1, <2>2, <3>1
  <2>4. w < w2 => words2[w] = words[w]
    BY <1>1, <1>2
  <2>5. CASE item.opt \in Flags \cup Others
    <3>1. IF j = n THEN w2 = w + 1 /\ i2 = 1 ELSE w2 = w /\ i2 = j + 1
      BY <1>4, <2>5 DEF LiesAsLetter, Flags, Others, WithArgument
    <3>2. IF j = n2 THEN w2 = w + 1 /\ i2 = 1 ELSE w2 = w /\ i2 = j + 1
      <4>1. CASE j = n
        <5>1. w < w2
          BY <1>1, <3>1, <4>1
        <5> QED BY <2>4, <3>1, <4>1, <5>1
      <4>2. CASE j # n
        BY <2>1, <2>2, <3>1, <4>2
      <4> QED BY <4>1, <4>2
    <3> QED BY <1>1, <2>1, <2>3, <2>5, <3>2 DEF Lies, LiesAsLetter
  <2>6. CASE item.opt \in WithArgument
    <3>1. /\ i2 = 1
          /\ item.arg \in Arguments[item.opt]
          /\ \/ /\ j = n /\ w2 = w + 2
                /\ w + 1 <= Len(words) /\ words[w + 1] = item.arg
             \/ /\ j < n /\ w2 = w + 1
                /\ item.arg = SubSeq(words[w], j + 1, n)
      BY <1>4, <2>6 DEF LiesAsLetter, Flags, Others, WithArgument
    <3>2. words2[w] = words[w]
      <4>1. w < w2
        BY <1>1, <3>1
      <4> QED BY <2>4, <4>1
    <3>3. CASE j < n
      BY <1>1, <2>1, <2>3, <2>6, <3>1, <3>2, <3>3 DEF Lies, LiesAsLetter
    <3>4. CASE j = n
      <4>1. /\ w2 = w + 2 /\ w + 1 <= Len(words) /\ words[w + 1] = item.arg
        <5>1. j \in Nat
          BY DEF Letter
        <5>2. n \in Nat
          BY <2>1
        <5>3. ~ (j < n)
          <6> HIDE DEF j, n
          <6> QED BY <3>4, <5>1, <5>2
        <5> HIDE DEF j, n
        <5> QED BY <3>1, <5>3
      <4>2. w + 1 \in 1..Len(words) /\ w + 1 < w2 /\ w + 1 <= Len(words2)
        BY <1>1, <4>1 DEF Longer
      <4>3. words2[w + 1] = item.arg
        BY <1>2, <4>1, <4>2
      <4> QED BY <1>1, <2>1, <2>3, <2>6, <3>1, <3>2, <3>4, <4>1, <4>2, <4>3
              DEF Lies, LiesAsLetter
    <3> QED BY <2>1, <3>3, <3>4
  <2>7. item.opt \in Flags \cup Others \/ item.opt \in WithArgument
    BY <1>4 DEF LiesAsLetter
  <2> QED BY <2>5, <2>6, <2>7
<1> QED BY <1>3, <1>4 DEF Lies

(* The options typed so far are where they were when words are added.      *)
LEMMA LineKept ==
    ASSUME NEW words \in Seq(Word), NEW words2 \in Seq(Word), Longer(words, words2),
           NEW items \in Seq(Items), Given(items),
           NEW wd, NEW pl, Layout(words, items, wd, pl),
           words # <<>> => words2[Len(words)] = words[Len(words)]
    PROVE  Line(words2, items, wd, pl)
<1>1. ASSUME NEW k \in 1..Len(items)
      PROVE  Lies(words2, items[k], wd[k], pl[k], wd[k + 1], pl[k + 1])
  <2>1. Lies(words, items[k], wd[k], pl[k], wd[k + 1], pl[k + 1])
    BY DEF Layout, Line
  <2>2. items[k] \in Items /\ pl[k] \in Nat
    <3>1. pl \in [1..Len(items)+1 -> Nat] /\ k \in 1..Len(items)+1
      BY DEF Layout, Line
    <3> QED BY <3>1
  <2>3. words # <<>>
    BY <2>1 DEF Lies
  <2> QED BY <2>1, <2>2, <2>3, LiesKept DEF Given
<1> QED BY <1>1 DEF Layout, Line

LEMMA LineNext ==
    ASSUME NEW words \in Seq(Word), NEW items \in Seq(Items), NEW item \in Items,
           NEW wd, NEW pl, Line(words, items, wd, pl),
           NEW w2 \in Nat, NEW i2 \in Nat,
           Lies(words, item, wd[Len(items) + 1], pl[Len(items) + 1], w2, i2)
    PROVE  \E wd2, pl2 :
              /\ Line(words, Append(items, item), wd2, pl2)
              /\ wd2[Len(items) + 2] = w2 /\ pl2[Len(items) + 2] = i2
<1> DEFINE n == Len(items)
           wd2 == [k \in 1..n+2 |-> IF k = n + 2 THEN w2 ELSE wd[k]]
           pl2 == [k \in 1..n+2 |-> IF k = n + 2 THEN i2 ELSE pl[k]]
           more == Append(items, item)
<1>1. /\ n \in Nat /\ Len(more) = n + 1 /\ more[n + 1] = item
      /\ \A k \in 1..n : more[k] = items[k]
  OBVIOUS
<1> HIDE DEF more
<1>2. /\ wd \in [1..n+1 -> Nat] /\ pl \in [1..n+1 -> Nat] /\ wd[1] = 1 /\ pl[1] = 1
      /\ \A k \in 1..n : Lies(words, items[k], wd[k], pl[k], wd[k + 1], pl[k + 1])
  BY DEF Line
<1>3. /\ wd2 \in [1..n+2 -> Nat] /\ pl2 \in [1..n+2 -> Nat]
      /\ wd2[1] = 1 /\ pl2[1] = 1 /\ wd2[n + 2] = w2 /\ pl2[n + 2] = i2
      /\ \A k \in 1..n+1 : wd2[k] = wd[k] /\ pl2[k] = pl[k]
  BY <1>1, <1>2
<1> HIDE DEF wd2, pl2
<1>4. ASSUME NEW k \in 1..n+1
      PROVE  Lies(words, more[k], wd2[k], pl2[k], wd2[k + 1], pl2[k + 1])
  <2>1. CASE k = n + 1
    <3>1. wd2[k] = wd[n + 1] /\ pl2[k] = pl[n + 1] /\ k + 1 = n + 2
      BY <1>1, <1>3, <2>1
    <3> QED BY <1>1, <1>3, <2>1, <3>1
  <2>2. CASE k # n + 1
    <3>1. k \in 1..n /\ k + 1 \in 1..n+1
      BY <1>1, <2>2
    <3> QED BY <1>1, <1>2, <1>3, <3>1
  <2> QED BY <2>1, <2>2
<1>5. (n + 1) + 1 = n + 2
  BY <1>1
<1>6. Line(words, more, wd2, pl2)
  BY <1>1, <1>3, <1>4, <1>5 DEF Line
<1> QED BY <1>3, <1>6 DEF more

(* A letter was typed, and its word may have got longer since: the options *)
(* before it are where they were, and it lies at the end of them.          *)
Ended(words, a, c, w, i) ==
    /\ w = Len(a) /\ w \in 1..Len(words)
    /\ i # 2 /\ Letter(i) = Len(a[w]) /\ Letter(i) \in 2..Len(words[w])
    /\ words[w][1] = "-" /\ words[w][Letter(i)] = c
    /\ i = 1 => c # "-"

LEMMA LetterTyped ==
    ASSUME argv \in Seq(Word), typed \in Seq(Items), Given(typed),
           NEW wd, NEW pl, Layout(argv, typed, wd, pl),
           NEW c \in Letters, NEW a \in WithLetter(c),
           NEW words \in Seq(Word), Longer(a, words)
    PROVE  /\ a \in Seq(Word) /\ a # <<>>
           /\ \E wd2, pl2 :
                 /\ Line(words, typed, wd2, pl2)
                 /\ Ended(words, a, c, wd2[Len(typed) + 1], pl2[Len(typed) + 1])
<1> DEFINE n == Len(typed)
           m == Len(argv)
<1>1. c \in Characters /\ n \in Nat /\ m \in Nat
  <2>1. c \in Characters
    BY ProgramAssumption DEF Letters
  <2> QED BY <2>1
<1>2. CASE c # "-" /\ a = Append(argv, <<"-", c>>)
  <2>1. /\ a \in Seq(Word) /\ a # <<>> /\ Len(a) = m + 1 /\ a[m + 1] = <<"-", c>>
        /\ \A k \in 1..m : a[k] = argv[k] /\ argv[k] \in Word
    <3> DEFINE x == <<"-", c>>
    <3>1. x \in Word
      BY <1>1, <1>2, ProgramAssumption DEF Word, Others
    <3>2. a = Append(argv, x)
      BY <1>2
    <3> HIDE DEF x
    <3>3. /\ a \in Seq(Word) /\ Len(a) = m + 1 /\ a[m + 1] = x
          /\ \A k \in 1..m : a[k] = argv[k] /\ argv[k] \in Word
      BY <3>1, <3>2
    <3>4. a # <<>>
      BY <1>1, <3>3
    <3> QED BY <3>3, <3>4 DEF x
  <2>2. /\ Longer(argv, words)
        /\ argv # <<>> => words[Len(argv)] = argv[Len(argv)]
    <3>1. \A k \in 1..m : words[k] = argv[k]
      BY <1>1, <2>1 DEF Longer
    <3>2. m <= Len(words)
      BY <1>1, <2>1 DEF Longer
    <3>3. \A k \in 1..m : Len(argv[k]) <= Len(words[k])
      BY <2>1, <3>1 DEF Word
    <3>4. argv # <<>> => m \in 1..m
      BY <1>1
    <3> QED BY <3>1, <3>2, <3>3, <3>4 DEF Longer
  <2>3. Line(words, typed, wd, pl)
    BY <2>2, LineKept
  <2>4. wd[n + 1] = m + 1 /\ pl[n + 1] = 1
    BY DEF Layout
  <2>5. Ended(words, a, c, m + 1, 1)
    <3>1. m + 1 \in 1..Len(a) /\ Len(a[m + 1]) = 2
          /\ a[m + 1][1] = "-" /\ a[m + 1][2] = c
      BY <1>1, <2>1
    <3>2. words[m + 1] \in Word /\ m + 1 \in 1..Len(words)
      BY <1>1, <2>1, <3>1 DEF Longer
    <3>3. Len(words[m + 1]) \in Nat
      BY <3>2 DEF Word
    <3>4. 2 <= Len(words[m + 1]) /\ words[m + 1][1] = "-" /\ words[m + 1][2] = c
      BY <3>1 DEF Longer
    <3> QED BY <1>2, <2>1, <3>1, <3>2, <3>3, <3>4 DEF Ended, Letter
  <2> QED BY <2>1, <2>3, <2>4, <2>5
<1>3. CASE Open /\ a = [argv EXCEPT ![m] = Append(@, c)]
  <2>1. n >= 1 /\ n \in 1..n /\ typed[n].opt \in Flags \cup Others
    BY <1>1, <1>3 DEF Open, Last
  <2> DEFINE i == pl[n]
             j == Letter(i)
  <2>2. Lies(argv, typed[n], wd[n], i, m + 1, 1)
    BY <1>1, <2>1 DEF Layout, Line
  <2>3. i \in Nat /\ j \in Nat /\ m + 1 \in Nat
    BY <1>1, <2>1 DEF Layout, Line, Letter
  <2>4. LiesAsLetter(argv, typed[n], wd[n], i, m + 1, 1) /\ wd[n] \in 1..m
    BY <2>1, <2>2 DEF Lies, LiesAsWord, Flags, Others
  <2>5. wd[n] = m /\ j = Len(argv[m])
    <3> HIDE DEF i
    <3>1. IF Letter(i) = Len(argv[wd[n]]) THEN m + 1 = wd[n] + 1
          ELSE m + 1 = wd[n]
      BY <2>1, <2>4 DEF LiesAsLetter, Flags, Others, WithArgument
    <3> QED BY <1>1, <2>4, <3>1
  <2>6. m \in 1..m /\ argv[m] \in Word /\ argv # <<>>
    BY <1>1, <2>4, <2>5
  <2>7. /\ a \in Seq(Word) /\ a # <<>> /\ Len(a) = m
        /\ a[m] = Append(argv[m], c)
        /\ \A k \in 1..m : k # m => a[k] = argv[k]
    <3> DEFINE x == Append(argv[m], c)
    <3>1. x \in Word
      BY <1>1, <2>6 DEF Word
    <3>2. a = [argv EXCEPT ![m] = x]
      BY <1>3
    <3> HIDE DEF x
    <3>3. /\ a \in Seq(Word) /\ Len(a) = m /\ a[m] = x
          /\ \A k \in 1..m : k # m => a[k] = argv[k]
      BY <2>6, <3>1, <3>2
    <3>4. a # <<>>
      BY <2>6, <3>3
    <3> QED BY <3>3, <3>4 DEF x
  <2>8. /\ Len(a[m]) = j + 1 /\ a[m][j + 1] = c
        /\ \A k \in 1..j : a[m][k] = argv[m][k]
    <3> HIDE DEF j
    <3> QED BY <2>3, <2>5, <2>6, <2>7 DEF Word
  <2>9. /\ m <= Len(words) /\ words[m] \in Word /\ Len(words[m]) \in Nat
        /\ m \in 1..Len(words) /\ j + 1 <= Len(words[m])
        /\ \A k \in 1..j+1 : words[m][k] = a[m][k]
    <3>1. m <= Len(words) /\ Len(a[m]) <= Len(words[m])
          /\ \A k \in 1..Len(a[m]) : words[m][k] = a[m][k]
      BY <2>6, <2>7 DEF Longer
    <3> HIDE DEF j
    <3>2. m \in 1..Len(words) /\ words[m] \in Word
      BY <2>6, <3>1
    <3>3. Len(words[m]) \in Nat
      BY <3>2 DEF Word
    <3> QED BY <2>8, <3>1, <3>2, <3>3
  <2>10. Longer(argv, words)
    <3>1. \A k \in 1..m : k < m => words[k] = argv[k]
      BY <1>1, <2>7 DEF Longer
    <3>2. \A k \in 1..m : argv[k] \in Word
      OBVIOUS
    <3>3. ASSUME NEW k \in 1..m
          PROVE  /\ Len(argv[k]) <= Len(words[k])
                 /\ \A x \in 1..Len(argv[k]) : words[k][x] = argv[k][x]
      <4>1. CASE k = m
        <5> HIDE DEF j
        <5> QED BY <2>3, <2>5, <2>8, <2>9, <4>1
      <4>2. CASE k # m
        <5>1. words[k] = argv[k]
          BY <1>1, <3>1, <4>2
        <5> QED BY <3>2, <5>1 DEF Word
      <4> QED BY <4>1, <4>2
    <3> QED BY <2>9, <3>1, <3>3 DEF Longer
  <2> DEFINE wd2 == [wd EXCEPT ![n + 1] = m]
             pl2 == [pl EXCEPT ![n + 1] = j + 1]
  <2>11. /\ wd2 \in [1..n+1 -> Nat] /\ pl2 \in [1..n+1 -> Nat]
         /\ wd2[n + 1] = m /\ pl2[n + 1] = j + 1
         /\ \A k \in 1..n : wd2[k] = wd[k] /\ pl2[k] = pl[k]
    <3>1. wd \in [1..n+1 -> Nat] /\ pl \in [1..n+1 -> Nat] /\ n + 1 \in 1..n+1
      BY <1>1 DEF Layout, Line
    <3> HIDE DEF j
    <3> QED BY <1>1, <2>3, <3>1
  <2>12. Lies(words, typed[n], m, i, m, j + 1)
    <3>1. /\ i # 2 /\ j \in 2..j /\ argv[m][1] = "-" /\ argv[m][j] = typed[n].opt
          /\ i = 1 => typed[n].opt # "-"
      BY <2>4, <2>5 DEF LiesAsLetter
    <3>2. words[m][1] = "-" /\ words[m][j] = typed[n].opt
      <4> HIDE DEF j
      <4> QED BY <2>3, <2>8, <2>9, <3>1
    <3>3. j \in 2..Len(words[m]) /\ j # Len(words[m])
      <4> HIDE DEF j
      <4> QED BY <2>3, <2>9, <3>1
    <3> QED BY <2>1, <2>9, <3>1, <3>2, <3>3 DEF Lies, LiesAsLetter
  <2>13. ASSUME NEW k \in 1..n
         PROVE  Lies(words, typed[k], wd2[k], pl2[k], wd2[k + 1], pl2[k + 1])
    <3>1. CASE k = n
      <4>1. wd2[k] = m /\ pl2[k] = i /\ wd2[k + 1] = m /\ pl2[k + 1] = j + 1
        <5> HIDE DEF wd2, pl2, j
        <5> QED BY <2>5, <2>11, <3>1
      <4> HIDE DEF wd2, pl2, j, i
      <4> QED BY <2>12, <3>1, <4>1
    <3>2. CASE k # n
      <4>1. k + 1 \in 1..n /\ k \in 1..n
        BY <1>1, <3>2
      <4>2. Lies(argv, typed[k], wd[k], pl[k], wd[k + 1], pl[k + 1])
            /\ Lies(argv, typed[k + 1], wd[k + 1], pl[k + 1], wd[(k + 1) + 1], pl[(k + 1) + 1])
        BY <4>1 DEF Layout, Line
      <4>3. wd[k + 1] <= Len(argv)
        BY <1>1, <4>2 DEF Lies
      <4>4. pl[k] \in Nat /\ typed[k] \in Items
            /\ (typed[k].opt \in WithArgument => typed[k].arg # NULL)
        <5>1. pl \in [1..n+1 -> Nat] /\ k \in 1..n+1
          BY <1>1, <4>1 DEF Layout, Line
        <5>2. pl[k] \in Nat /\ typed[k] \in Items
          BY <5>1
        <5> QED BY <5>2 DEF Given
      <4>5. Lies(words, typed[k], wd[k], pl[k], wd[k + 1], pl[k + 1])
        BY <2>10, <4>2, <4>3, <4>4, LiesKept
      <4> HIDE DEF wd2, pl2
      <4> QED BY <2>11, <4>1, <4>5
    <3> QED BY <3>1, <3>2
  <2>14. wd2[1] = 1 /\ pl2[1] = 1
    <3>1. wd[1] = 1 /\ pl[1] = 1 /\ 1 \in 1..n
      BY <1>1, <2>1 DEF Layout, Line
    <3> HIDE DEF wd2, pl2
    <3> QED BY <2>11, <3>1
  <2>15. Line(words, typed, wd2, pl2)
    BY <2>11, <2>13, <2>14 DEF Line
  <2>16. Ended(words, a, c, m, j + 1)
    <3>1. j >= 2
      BY <2>4, <2>5, <2>3 DEF LiesAsLetter
    <3>2. argv[m][1] = "-"
      BY <2>4, <2>5 DEF LiesAsLetter
    <3> HIDE DEF j
    <3>3. Letter(j + 1) = j + 1 /\ j + 1 # 2 /\ j + 1 # 1
          /\ j + 1 \in 2..Len(words[m])
      BY <2>3, <2>9, <3>1 DEF Letter
    <3>4. words[m][1] = "-" /\ words[m][j + 1] = c
      <4>1. 1 \in 1..j /\ 1 \in 1..j+1 /\ j + 1 \in 1..j+1
        BY <2>3, <3>1
      <4> QED BY <2>8, <2>9, <3>2, <4>1
    <3> QED BY <2>7, <2>8, <2>9, <3>3, <3>4 DEF Ended
  <2> HIDE DEF wd2, pl2
  <2> QED BY <2>7, <2>11, <2>15, <2>16
<1> QED BY <1>2, <1>3 DEF WithLetter

(* What else is at the end of the words, after the options before it.      *)
LEMMA AddItem ==
    ASSUME typed \in Seq(Items), Given(typed),
           NEW words \in Seq(Word), NEW item \in Items,
           NEW wd, NEW pl, Line(words, typed, wd, pl),
           Lies(words, item, wd[Len(typed) + 1], pl[Len(typed) + 1],
                Len(words) + 1, 1)
    PROVE  /\ Append(typed, item) \in Seq(Items)
           /\ \E wd2, pl2 : Layout(words, Append(typed, item), wd2, pl2)
           /\ (item.opt \in WithArgument => item.arg # NULL)
                 => Given(Append(typed, item))
<1> DEFINE n == Len(typed)
           more == Append(typed, item)
<1>1. /\ n \in Nat /\ more \in Seq(Items) /\ Len(more) = n + 1 /\ more[n + 1] = item
      /\ \A k \in 1..n : more[k] = typed[k]
  OBVIOUS
<1>2. Len(words) + 1 \in Nat /\ 1 \in Nat
  OBVIOUS
<1>3. PICK wd2, pl2 : /\ Line(words, more, wd2, pl2)
                      /\ wd2[n + 2] = Len(words) + 1 /\ pl2[n + 2] = 1
  BY <1>2, LineNext
<1> HIDE DEF more
<1>4. Len(more) + 1 = n + 2
  BY <1>1
<1>5. Layout(words, more, wd2, pl2)
  BY <1>3, <1>4 DEF Layout
<1>6. ASSUME item.opt \in WithArgument => item.arg # NULL, NEW k \in 1..n+1,
             more[k].opt \in WithArgument
      PROVE  more[k].arg # NULL
  <2>1. CASE k = n + 1  BY <1>1, <1>6, <2>1
  <2>2. CASE k # n + 1
    <3>1. k \in 1..n
      BY <1>1, <2>2
    <3> QED BY <1>1, <1>6, <3>1 DEF Given
  <2> QED BY <2>1, <2>2
<1> QED BY <1>1, <1>5, <1>6 DEF Given, more

(* A letter after the options before it is one that needs no argument, one *)
(* that lacks it, one with its argument in the next word or in the rest of *)
(* its own.                                                                *)
LEMMA LetterAtEnd ==
    ASSUME NEW words \in Seq(Word), NEW a \in Seq(Word), NEW item \in Items,
           NEW w, NEW i \in Nat, Ended(words, a, item.opt, w, i),
           \/ /\ item.opt \in Flags \cup Others \/ item.arg = NULL
              /\ item.opt \in Letters
              /\ words = a
           \/ /\ item.opt \in WithArgument /\ item.arg \in Arguments[item.opt]
              /\ words = Append(a, item.arg)
           \/ /\ item.opt \in WithArgument /\ item.arg \in Arguments[item.opt]
              /\ item.arg # <<>>
              /\ words = [a EXCEPT ![Len(a)] = @ \o item.arg]
    PROVE  Lies(words, item, w, i, Len(words) + 1, 1)
<1> DEFINE j == Letter(i)
           n == Len(words[w])
<1>1. /\ w = Len(a) /\ w \in 1..Len(words) /\ i # 2 /\ j = Len(a[w]) /\ j \in 2..n
      /\ words[w][1] = "-" /\ words[w][j] = item.opt
      /\ i = 1 => item.opt # "-"
  BY DEF Ended
<1>2. j \in Nat /\ Len(a) \in Nat
  BY DEF Letter
<1>3. w \in 1..Len(a) /\ a[w] \in Word
  BY <1>1, <1>2
<1>4. CASE /\ item.opt \in Flags \cup Others \/ item.arg = NULL
           /\ item.opt \in Letters
           /\ words = a
  <2>1. j = n /\ w = Len(words)
    BY <1>1, <1>4
  <2>2. LiesAsLetter(words, item, w, i, Len(words) + 1, 1)
    <3>1. item.opt \in Flags \cup Others \/ (item.opt \in WithArgument /\ item.arg = NULL)
      BY <1>4 DEF Letters
    <3> QED BY <1>1, <2>1, <3>1 DEF LiesAsLetter
  <2> QED BY <1>1, <2>2 DEF Lies
<1>5. CASE /\ item.opt \in WithArgument /\ item.arg \in Arguments[item.opt]
           /\ words = Append(a, item.arg)
  <2>1. Len(words) = w + 1 /\ words[w] = a[w] /\ words[w + 1] = item.arg
    <3>1. Len(words) = Len(a) + 1 /\ words[Len(a) + 1] = item.arg
          /\ \A k \in 1..Len(a) : words[k] = a[k]
      BY <1>5
    <3> QED BY <1>1, <1>3, <3>1
  <2>2. j = n /\ Len(words) + 1 = w + 2 /\ w + 1 <= Len(words)
    BY <1>1, <1>2, <2>1
  <2>3. LiesAsLetter(words, item, w, i, Len(words) + 1, 1)
    <3> HIDE DEF j, n
    <3> QED BY <1>1, <1>5, <2>1, <2>2 DEF LiesAsLetter, j, n
  <2> QED BY <1>1, <2>3 DEF Lies
<1>6. CASE /\ item.opt \in WithArgument /\ item.arg \in Arguments[item.opt]
           /\ item.arg # <<>>
           /\ words = [a EXCEPT ![Len(a)] = @ \o item.arg]
  <2>1. item.arg \in Word
    BY <1>6, ProgramAssumption DEF Word
  <2>2. Len(words) = w /\ words[w] = a[w] \o item.arg
    <3> DEFINE l == a[w] \o item.arg
    <3>1. words = [a EXCEPT ![w] = l]
      BY <1>1, <1>6
    <3> HIDE DEF l
    <3>2. Len(words) = w /\ words[w] = l
      BY <1>1, <1>3, <3>1
    <3> QED BY <3>2 DEF l
  <2>3. item.arg = SubSeq(words[w], j + 1, n) /\ j < n
    <3> DEFINE x == a[w]
               y == item.arg
    <3>1. x \in Seq(Characters) /\ y \in Seq(Characters) /\ y # <<>> /\ j = Len(x)
      BY <1>1, <1>3, <1>6, <2>1 DEF Word
    <3>2. n = Len(x \o y) /\ words[w] = x \o y
      BY <2>2
    <3> HIDE DEF x, y, n, j
    <3>3. y = SubSeq(x \o y, Len(x) + 1, Len(x \o y)) /\ Len(x) < Len(x \o y)
      BY <3>1
    <3> QED BY <3>1, <3>2, <3>3 DEF y
  <2>4. LiesAsLetter(words, item, w, i, Len(words) + 1, 1)
    <3> HIDE DEF j, n
    <3> QED BY <1>1, <1>6, <2>2, <2>3 DEF LiesAsLetter, j, n
  <2> QED BY <1>1, <2>4 DEF Lies
<1> QED BY <1>4, <1>5, <1>6

(* A letter is typed, alone, with an argument or lacking one.              *)
LEMMA TypeLetter ==
    ASSUME argv \in Seq(Word), typed \in Seq(Items), Given(typed),
           \E wd, pl : Layout(argv, typed, wd, pl),
           NEW item \in Items, item.opt \in Letters,
           NEW a \in WithLetter(item.opt), NEW words,
           \/ /\ item.opt \in Flags \cup Others \/ item.arg = NULL
              /\ words = a
           \/ /\ item.opt \in WithArgument /\ item.arg \in Arguments[item.opt]
              /\ words = Append(a, item.arg)
           \/ /\ item.opt \in WithArgument /\ item.arg \in Arguments[item.opt]
              /\ item.arg # <<>>
              /\ words = [a EXCEPT ![Len(a)] = @ \o item.arg]
    PROVE  /\ words \in Seq(Word)
           /\ Append(typed, item) \in Seq(Items)
           /\ \E wd, pl : Layout(words, Append(typed, item), wd, pl)
           /\ (item.opt \in WithArgument => item.arg # NULL)
                 => Given(Append(typed, item))
<1> DEFINE m == Len(a)
<1>1. PICK wd, pl : Layout(argv, typed, wd, pl)
  OBVIOUS
<1>2. a \in Seq(Word) /\ a # <<>>
  <2>1. CASE a \in Seq(Word)
    <3>1. \A k \in 1..Len(a) : a[k] \in Word
      BY <2>1
    <3>2. Longer(a, a)
      BY <2>1, <3>1 DEF Longer, Word
    <3> QED BY <1>1, <2>1, <3>2, LetterTyped
  <2>2. a \in Seq(Word)
    <3> DEFINE x == <<"-", item.opt>>
               l == Append(argv[Len(argv)], item.opt)
    <3>1. item.opt \in Characters /\ "-" \in Characters
      BY ProgramAssumption DEF Letters, Others
    <3>2. x \in Word
      BY <3>1 DEF Word
    <3>3. a = Append(argv, x) \/ (Open /\ a = [argv EXCEPT ![Len(argv)] = l])
      BY DEF WithLetter
    <3>4. CASE a = Append(argv, x)
      <4> HIDE DEF x
      <4> QED BY <3>2, <3>4
    <3>5. CASE Len(argv) # 0 /\ a = [argv EXCEPT ![Len(argv)] = l]
      <4>1. Len(argv) \in 1..Len(argv) /\ argv[Len(argv)] \in Word
        BY <3>5
      <4>2. l \in Word
        BY <3>1, <4>1 DEF Word
      <4> HIDE DEF l
      <4> QED BY <3>5, <4>1, <4>2
    <3>6. CASE Len(argv) = 0 /\ a = [argv EXCEPT ![Len(argv)] = l]
      <4>1. a = argv
        BY <3>6
      <4> QED BY <4>1
    <3> QED BY <3>3, <3>4, <3>5, <3>6
  <2> QED BY <2>1, <2>2
<1>3. m \in 1..m /\ m \in Nat /\ \A k \in 1..m : a[k] \in Word
  BY <1>2
<1>4. words \in Seq(Word) /\ Longer(a, words)
  <2>1. CASE words = a
    BY <1>2, <1>3, <2>1 DEF Longer, Word
  <2>2. CASE item.arg \in Word /\ words = Append(a, item.arg)
    <3>1. /\ words \in Seq(Word) /\ Len(words) = m + 1
          /\ \A k \in 1..m : words[k] = a[k]
      BY <1>2, <2>2
    <3> QED BY <1>3, <3>1 DEF Longer, Word
  <2>3. CASE item.arg \in Word /\ words = [a EXCEPT ![m] = @ \o item.arg]
    <3> DEFINE l == a[m] \o item.arg
    <3>1. /\ l \in Word /\ Len(a[m]) <= Len(l)
          /\ \A k \in 1..Len(a[m]) : l[k] = a[m][k]
      <4> DEFINE x == a[m]
                 y == item.arg
      <4>1. x \in Seq(Characters) /\ y \in Seq(Characters)
        BY <1>3, <2>3 DEF Word
      <4> HIDE DEF x, y
      <4>2. /\ x \o y \in Seq(Characters) /\ Len(x) <= Len(x \o y)
            /\ \A k \in 1..Len(x) : (x \o y)[k] = x[k]
        BY <4>1
      <4> QED BY <4>2 DEF x, y, Word
    <3>2. words = [a EXCEPT ![m] = l]
      BY <2>3
    <3> HIDE DEF l
    <3>3. /\ words \in Seq(Word) /\ Len(words) = m /\ words[m] = l
          /\ \A k \in 1..m : k # m => words[k] = a[k]
      BY <1>2, <1>3, <3>1, <3>2
    <3>4. ASSUME NEW k \in 1..m
          PROVE  /\ Len(a[k]) <= Len(words[k])
                 /\ \A x \in 1..Len(a[k]) : words[k][x] = a[k][x]
      <4>1. CASE k = m  BY <3>1, <3>3, <4>1
      <4>2. CASE k # m
        <5>1. words[k] = a[k] /\ a[k] \in Word
          BY <1>3, <3>3, <4>2
        <5> QED BY <5>1 DEF Word
      <4> QED BY <4>1, <4>2
    <3>5. \A k \in 1..m : k < m => words[k] = a[k]
      BY <1>3, <3>3
    <3>6. m <= Len(words)
      BY <1>3, <3>3
    <3> QED BY <3>3, <3>4, <3>5, <3>6 DEF Longer
  <2>4. item.opt \in WithArgument /\ item.arg \in Arguments[item.opt]
           => item.arg \in Word
    BY ProgramAssumption DEF Word
  <2> QED BY <2>1, <2>2, <2>3, <2>4
<1>5. PICK wd2, pl2 :
        /\ Line(words, typed, wd2, pl2)
        /\ Ended(words, a, item.opt, wd2[Len(typed) + 1], pl2[Len(typed) + 1])
  BY <1>1, <1>4, LetterTyped
<1>6. pl2[Len(typed) + 1] \in Nat
  <2>1. pl2 \in [1..Len(typed)+1 -> Nat]
    BY <1>5 DEF Line
  <2> QED BY <2>1
<1>7. Lies(words, item, wd2[Len(typed) + 1], pl2[Len(typed) + 1], Len(words) + 1, 1)
  BY <1>2, <1>4, <1>5, <1>6, LetterAtEnd
<1> QED BY <1>4, <1>5, <1>7, AddItem

(* A word that is no option is typed, or the two dashes.                   *)
LEMMA TypeWord ==
    ASSUME argv \in Seq(Word), typed \in Seq(Items), Given(typed),
           \E wd, pl : Layout(argv, typed, wd, pl),
           NEW item \in Items, NEW word \in Word,
           \/ item.opt = "word" /\ item.arg = word /\ word \in Words
           \/ item.opt = "--" /\ word = <<"-", "-">>
    PROVE  /\ Append(argv, word) \in Seq(Word)
           /\ Append(typed, item) \in Seq(Items)
           /\ \E wd, pl : Layout(Append(argv, word), Append(typed, item), wd, pl)
           /\ Given(Append(typed, item))
<1> DEFINE words == Append(argv, word)
           m == Len(argv)
<1>1. PICK wd, pl : Layout(argv, typed, wd, pl)
  OBVIOUS
<1>2. /\ m \in Nat /\ words \in Seq(Word) /\ Len(words) = m + 1 /\ words[m + 1] = word
      /\ \A k \in 1..m : words[k] = argv[k] /\ argv[k] \in Word
  OBVIOUS
<1> HIDE DEF words
<1>3. Longer(argv, words) /\ (argv # <<>> => words[Len(argv)] = argv[Len(argv)])
  <2>1. argv # <<>> => m \in 1..m
    OBVIOUS
  <2>2. \A k \in 1..m : Len(argv[k]) \in Nat
    BY <1>2 DEF Word
  <2>3. Longer(argv, words)
    BY <1>2, <2>2 DEF Longer
  <2> QED BY <1>2, <2>1, <2>3
<1>4. Line(words, typed, wd, pl)
  BY <1>1, <1>2, <1>3, LineKept
<1>5. wd[Len(typed) + 1] = m + 1 /\ pl[Len(typed) + 1] = 1
  BY <1>1 DEF Layout
<1>6. Lies(words, item, m + 1, 1, Len(words) + 1, 1)
  <2>1. m + 1 \in 1..Len(words)
    BY <1>2
  <2> QED BY <1>2, <2>1 DEF Lies, LiesAsWord
<1>7. item.opt \notin WithArgument
  BY DEF WithArgument
<1> QED BY <1>2, <1>4, <1>5, <1>6, <1>7, AddItem DEF words

-----------------------------------------------------------------------------
(* The option parser *)

LEMMA MinIs ==
    ASSUME NEW S \in SUBSET Int, NEW x \in S, \A y \in S : x <= y
    PROVE  Min(S) = x
<1>1. \A z \in S : (\A y \in S : z <= y) => z = x
  OBVIOUS
<1> QED BY <1>1 DEF Min

LEMMA MaxIs ==
    ASSUME NEW S \in SUBSET Int, NEW x \in S, \A y \in S : y <= x
    PROVE  Max(S) = x
<1>1. \A z \in S : (\A y \in S : y <= z) => z = x
  OBVIOUS
<1> QED BY <1>1 DEF Max

(* The place of a letter in the string of options. *)
Place(c) == SelectInSeq(optstring, LAMBDA o : o = c)

LEMMA PlaceIs ==
    ASSUME NEW c, NEW k \in 1..16, optstring[k] = c,
           \A j \in 1..16 : j < k => optstring[j] # c
    PROVE  Place(c) = k
<1> DEFINE S == {i \in 1..Len(optstring) : optstring[i] = c}
<1>1. Len(optstring) = 16
  BY DEF optstring
<1> HIDE DEF optstring
<1>2. k \in S /\ S \in SUBSET Int /\ \A y \in S : k <= y
  BY <1>1
<1>3. S # {} /\ Min(S) = k
  <2> HIDE DEF S
  <2> QED BY <1>2, MinIs
<1> HIDE DEF S
<1>4. Place(c) = IF S # {} THEN Min(S) ELSE 0
  BY DEF Place, SelectInSeq, S
<1> QED BY <1>3, <1>4

TakesNone(c) == Place(c) = Len(optstring) \/ optstring[Place(c) + 1] # ":"

(* Which letters are options, and which of them take an argument           *)
(* (main.c 95).                                                            *)
LEMMA OptionLetters ==
    ASSUME NEW c \in Letters
    PROVE  /\ c \in Flags \cup {":"} => Place(c) # 0 /\ TakesNone(c)
           /\ c \in WithArgument => Place(c) # 0 /\ ~ TakesNone(c)
           /\ c \in Others \ {":"} => Place(c) = 0
<1>0. Len(optstring) = 16
  BY DEF optstring
<1>1. CASE c \in Others \ {":"}
  <2> DEFINE S == {i \in 1..Len(optstring) : optstring[i] = c}
  <2>1. \A i \in 1..16 : optstring[i] # c
    BY <1>1 DEF Others, optstring
  <2>2. S = {}
    BY <1>0, <2>1
  <2>3. Place(c) = IF S # {} THEN Min(S) ELSE 0
    BY DEF Place, SelectInSeq
  <2> HIDE DEF S
  <2>4. Place(c) = 0
    BY <2>2, <2>3
  <2> QED BY <1>1, <2>4 DEF Flags, Others, WithArgument
<1>2. CASE c = "a"
  <2>1. Place(c) = 1  BY <1>2, PlaceIs DEF optstring
  <2> QED BY <1>0, <1>2, <2>1 DEF TakesNone, optstring, Flags, Others, WithArgument
<1>3. CASE c = "b"
  <2>1. Place(c) = 2  BY <1>3, PlaceIs DEF optstring
  <2> QED BY <1>0, <1>3, <2>1 DEF TakesNone, optstring, Flags, Others, WithArgument
<1>4. CASE c = "h"
  <2>1. Place(c) = 3  BY <1>4, PlaceIs DEF optstring
  <2> QED BY <1>0, <1>4, <2>1 DEF TakesNone, optstring, Flags, Others, WithArgument
<1>5. CASE c = "v"
  <2>1. Place(c) = 8  BY <1>5, PlaceIs DEF optstring
  <2> QED BY <1>0, <1>5, <2>1 DEF TakesNone, optstring, Flags, Others, WithArgument
<1>6. CASE c = ":"
  <2>1. Place(c) = 5  BY <1>6, PlaceIs DEF optstring
  <2> QED BY <1>0, <1>6, <2>1 DEF TakesNone, optstring, Flags, Others, WithArgument
<1>7. CASE c = "z"
  <2>1. Place(c) = 4  BY <1>7, PlaceIs DEF optstring
  <2> QED BY <1>0, <1>7, <2>1 DEF TakesNone, optstring, Flags, Others, WithArgument
<1>8. CASE c = "t"
  <2>1. Place(c) = 6  BY <1>8, PlaceIs DEF optstring
  <2> QED BY <1>0, <1>8, <2>1 DEF TakesNone, optstring, Flags, Others, WithArgument
<1>9. CASE c = "j"
  <2>1. Place(c) = 9  BY <1>9, PlaceIs DEF optstring
  <2> QED BY <1>0, <1>9, <2>1 DEF TakesNone, optstring, Flags, Others, WithArgument
<1>10. CASE c = "r"
  <2>1. Place(c) = 11  BY <1>10, PlaceIs DEF optstring
  <2> QED BY <1>0, <1>10, <2>1 DEF TakesNone, optstring, Flags, Others, WithArgument
<1>11. CASE c = "n"
  <2>1. Place(c) = 13  BY <1>11, PlaceIs DEF optstring
  <2> QED BY <1>0, <1>11, <2>1 DEF TakesNone, optstring, Flags, Others, WithArgument
<1>12. CASE c = "w"
  <2>1. Place(c) = 15  BY <1>12, PlaceIs DEF optstring
  <2> QED BY <1>0, <1>12, <2>1 DEF TakesNone, optstring, Flags, Others, WithArgument
<1> QED BY <1>1, <1>2, <1>3, <1>4, <1>5, <1>6, <1>7, <1>8, <1>9, <1>10, <1>11,
           <1>12 DEF Letters, Flags, Others, WithArgument

(* The rest of a word. *)
LEMMA Rest ==
    ASSUME NEW word \in Word, NEW j \in 1..Len(word)
    PROVE  LET r == SubSeq(word, j, Len(word))
           IN  /\ r \in Word /\ r # <<>> /\ r # NULL /\ Len(r) = Len(word) - j + 1
               /\ Head(r) = word[j]
               /\ Tail(r) = SubSeq(word, j + 1, Len(word)) /\ Tail(r) \in Word
               /\ Len(Tail(r)) = Len(r) - 1
               /\ j = Len(word) => Tail(r) = <<>>
<1> DEFINE n == Len(word)
           r == SubSeq(word, j, n)
           t == SubSeq(word, j + 1, n)
<1>1. word \in Seq(Characters) /\ n \in Nat /\ j \in Nat /\ 1 <= j /\ j <= n
  BY DEF Word
<1>2. /\ r \in Seq(Characters) /\ Len(r) = n - j + 1
      /\ \A k \in 1..Len(r) : r[k] = word[k + j - 1]
  BY <1>1
<1>3. /\ t \in Seq(Characters) /\ Len(t) = n - j
      /\ \A k \in 1..Len(t) : t[k] = word[k + j]
  BY <1>1
<1> HIDE DEF r, t
<1>4. r # <<>> /\ Head(r) = word[j]
  <2>1. Len(r) >= 1 /\ 1 \in 1..Len(r)
    BY <1>1, <1>2
  <2>2. r # <<>> /\ Head(r) = r[1]
    BY <1>2, <2>1
  <2>3. r[1] = word[1 + j - 1] /\ 1 + j - 1 = j
    BY <1>1, <1>2, <2>1
  <2> QED BY <2>2, <2>3
<1>5. /\ Tail(r) \in Seq(Characters) /\ Len(Tail(r)) = Len(r) - 1
      /\ \A k \in 1..Len(r)-1 : Tail(r)[k] = r[k + 1]
  BY <1>2, <1>4
<1>6. Tail(r) = t
  <2>1. ASSUME NEW k \in 1..Len(t) PROVE Tail(r)[k] = t[k]
    <3>1. k \in 1..Len(r)-1 /\ k + 1 \in 1..Len(r) /\ (k + 1) + j - 1 = k + j
      BY <1>1, <1>2, <1>3
    <3> QED BY <1>2, <1>3, <1>5, <3>1
  <2>2. Len(Tail(r)) = Len(t)
    <3>1. Len(r) = n - j + 1 /\ Len(t) = n - j /\ Len(Tail(r)) = Len(r) - 1
      BY <1>2, <1>3, <1>5
    <3> HIDE DEF n
    <3> QED BY <1>1, <3>1
  <2> QED BY <1>3, <1>5, <2>1, <2>2, SeqEqual
<1>7. j = n => t = <<>>
  BY <1>1, <1>3
<1>8. r # NULL
  BY <1>2, ProgramAssumption
<1> QED BY <1>2, <1>3, <1>4, <1>5, <1>6, <1>7, <1>8 DEF r, t, Word

(* What match_short makes of the letter at place j of a word (parg.c       *)
(* 27-67).                                                                 *)
LEMMA ShortGets ==
    ASSUME argv \in Seq(Word), NEW word \in Word, NEW j \in 2..Len(word),
           word[j] \in Letters,
           NEW p \in PargState, p.nextchar = SubSeq(word, j, Len(word))
    PROVE  LET c    == word[j]
               rest == SubSeq(word, j + 1, Len(word))
               on   == [p EXCEPT !.nextchar = rest]
           IN  /\ c \in Flags \cup {":"} => match_short(p) = Got(c, on)
               /\ c \in Others \ {":"} => match_short(p) = Got("?", on)
               /\ c \in WithArgument /\ j < Len(word) =>
                      match_short(p) =
                          Got(c, [p EXCEPT !.optarg = rest, !.nextchar = NULL])
               /\ c \in WithArgument /\ j = Len(word) =>
                      match_short(p) =
                          IF p.optind >= argc THEN Got("?", on)
                          ELSE Got(c, [optarg   |-> argv[p.optind],
                                       optind   |-> p.optind + 1,
                                       nextchar |-> NULL])
<1> DEFINE c    == word[j]
           rest == SubSeq(word, j + 1, Len(word))
           on   == [p EXCEPT !.nextchar = rest]
<1>1. /\ Head(p.nextchar) = c /\ Tail(p.nextchar) = rest
      /\ Len(p.nextchar) = Len(word) - j + 1
  <2>1. j \in 1..Len(word)
    OBVIOUS
  <2> QED BY <2>1, Rest
<1>2. Len(word) \in Nat /\ j \in Nat /\ (Len(p.nextchar) > 1 <=> j < Len(word))
  BY <1>1 DEF Word
<1>3. TakeNext(p) = on
  BY <1>1 DEF TakeNext
<1>4. match_short(p) =
          IF Place(c) = 0 THEN Got("?", on)
          ELSE IF TakesNone(c) THEN Got(c, on)
          ELSE IF Len(p.nextchar) > 1
               THEN Got(c, [p EXCEPT !.optarg = rest, !.nextchar = NULL])
          ELSE IF p.optind >= argc THEN Got("?", on)
          ELSE Got(c, [optarg   |-> argv[p.optind],
                       optind   |-> p.optind + 1,
                       nextchar |-> NULL])
  <2> DEFINE d == Head(p.nextchar)
  <2>1. match_short(p) =
          IF Place(d) = 0 THEN Got("?", TakeNext(p))
          ELSE IF TakesNone(d) THEN Got(d, TakeNext(p))
          ELSE IF Len(p.nextchar) > 1
               THEN Got(d, [p EXCEPT !.optarg = Tail(p.nextchar), !.nextchar = NULL])
          ELSE IF is_argv_end(p) THEN Got("?", TakeNext(p))
          ELSE Got(d, [optarg   |-> argv[p.optind],
                       optind   |-> p.optind + 1,
                       nextchar |-> NULL])
    BY Zenon DEF match_short, Place, TakesNone
  <2>2. d = c
    BY <1>1
  <2> HIDE DEF d, c, rest, on
  <2> QED BY <1>1, <1>3, <2>1, <2>2 DEF is_argv_end
<1> HIDE DEF on, rest
<1>5. CASE c \in Flags \cup {":"}
  <2>1. match_short(p) = Got(c, on)
    BY <1>4, <1>5, OptionLetters
  <2> QED BY <1>5, <2>1 DEF Flags, Others, WithArgument, on, rest
<1>6. CASE c \in Others \ {":"}
  <2>1. match_short(p) = Got("?", on)
    BY <1>4, <1>6, OptionLetters
  <2> QED BY <1>6, <2>1 DEF Flags, Others, WithArgument, on, rest
<1>7. CASE c \in WithArgument
  <2>1. Place(c) # 0 /\ ~ TakesNone(c)
    BY <1>7, OptionLetters
  <2>2. c \notin Flags \cup Others \cup {":"}
    BY <1>7 DEF Flags, Others, WithArgument
  <2> QED BY <1>2, <1>4, <1>7, <2>1, <2>2 DEF on, rest
<1> QED BY <1>5, <1>6, <1>7 DEF Letters

(* The parser goes on in a word or takes the next one (parg.c 170-206).    *)
LEMMA InLetters ==
    ASSUME argv \in Seq(Word), NEW item, NEW w, NEW i \in Nat, NEW w2, NEW i2,
           w \in 1..Len(argv), LiesAsLetter(argv, item, w, i, w2, i2),
           Ready(ps, argv, w, i)
    PROVE  LET j == Letter(i)
           IN  \E p \in PargState :
                  /\ parg_getopt = match_short(p)
                  /\ p.optarg = NULL /\ p.optind = w + 1
                  /\ p.nextchar = SubSeq(argv[w], j, Len(argv[w]))
                  /\ i # 1 => ps.optind = w + 1 /\ ps.nextchar = p.nextchar
<1> DEFINE word == argv[w]
           n == Len(word)
           j == Letter(i)
           q == [ps EXCEPT !.optarg = NULL]
           next == [q EXCEPT !.optind = @ + 1, !.nextchar = NULL]
<1>1. /\ i # 2 /\ j \in 2..n /\ word[1] = "-" /\ word[j] = item.opt
      /\ i = 1 => item.opt # "-"
      /\ word \in Word /\ n \in Nat
  <2>1. word \in Word
    OBVIOUS
  <2>2. n \in Nat
    BY <2>1 DEF Word
  <2> QED BY <2>1, <2>2 DEF LiesAsLetter
<1>2. /\ ps \in PargState /\ q \in PargState /\ q.optarg = NULL
      /\ q.optind = ps.optind /\ q.nextchar = ps.nextchar
  BY DEF Ready, PargState
<1>3. argc >= 2 /\ Len(argv) \in Nat
  BY DEF argc
<1>4. parg_getopt =
        IF q.nextchar \notin {NULL, <<>>} THEN match_short(q)
        ELSE IF q.optind >= argc THEN Got("end", q)
        ELSE IF argv[q.optind] = <<>> \/ argv[q.optind][1] # "-" \/ Len(argv[q.optind]) = 1
             THEN Got("word", [next EXCEPT !.optarg = argv[q.optind]])
        ELSE IF argv[q.optind] = <<"-", "-">> THEN Got("end", next)
        ELSE match_short([next EXCEPT !.nextchar = Tail(argv[q.optind])])
  <2> HIDE DEF Got
  <2>1. ~ (argc < 2)
    BY <1>3 DEF argc
  <2> QED BY <2>1 DEF parg_getopt, is_argv_end
<1>5. CASE i # 1
  <2>1. j = i
    BY <1>5 DEF Letter
  <2>2. ps.optind = w + 1 /\ ps.nextchar = SubSeq(word, j, n)
    BY <1>5, <2>1 DEF Ready
  <2>3. ps.nextchar \notin {NULL, <<>>}
    <3>1. j \in 1..n
      BY <1>1
    <3> QED BY <1>1, <2>2, <3>1, Rest
  <2>4. parg_getopt = match_short(q)
    <3> HIDE DEF q, next
    <3> QED BY <1>2, <1>4, <2>3
  <2> HIDE DEF q
  <2> QED BY <1>2, <2>2, <2>4
<1>6. CASE i = 1
  <2> DEFINE p == [next EXCEPT !.nextchar = Tail(word)]
  <2>1. j = 2 /\ ps.optind = w /\ ps.nextchar \in {NULL, <<>>}
    BY <1>6 DEF Ready, Letter
  <2>2. /\ word # <<>> /\ n # 1 /\ word # <<"-", "-">>
        /\ Tail(word) = SubSeq(word, 2, n) /\ Tail(word) \in Word
    <3>1. 1 \in 1..n /\ n >= 2
      BY <1>1, <2>1
    <3>2. SubSeq(word, 1, n) = word
      BY <1>1 DEF Word
    <3>3. word # <<>> /\ Tail(word) = SubSeq(word, 2, n) /\ Tail(word) \in Word
      <4> HIDE DEF word
      <4>1. /\ SubSeq(word, 1, n) # <<>>
            /\ Tail(SubSeq(word, 1, n)) = SubSeq(word, 1 + 1, n)
            /\ Tail(SubSeq(word, 1, n)) \in Word
        BY <1>1, <3>1, Rest
      <4>2. 1 + 1 = 2
        OBVIOUS
      <4> HIDE DEF n
      <4> QED BY <3>2, <4>1, <4>2
    <3>4. word # <<"-", "-">>
      <4>1. word[2] # "-"
        BY <1>1, <1>6, <2>1
      <4> QED BY <4>1
    <3> QED BY <3>1, <3>3, <3>4
  <2>3. parg_getopt = match_short(p)
    <3>1. q.nextchar \in {NULL, <<>>} /\ ~ (q.optind >= argc)
          /\ argv[q.optind] = word
      BY <1>2, <1>3, <2>1 DEF argc
    <3> HIDE DEF q, word
    <3>2. parg_getopt = match_short([next EXCEPT !.nextchar = Tail(argv[q.optind])])
      <4> HIDE DEF next
      <4> QED BY <1>1, <1>4, <2>2, <3>1
    <3> QED BY <3>1, <3>2
  <2>4. p \in PargState /\ p.optarg = NULL /\ p.optind = w + 1
        /\ p.nextchar = Tail(word)
    <3> HIDE DEF word, q
    <3>0. w \in Nat /\ q.optind + 1 = w + 1
      BY <1>2, <2>1
    <3>1. next \in PargState /\ next.optarg = NULL /\ next.optind = w + 1
      <4> DEFINE o == w + 1
      <4>1. next = [q EXCEPT !.optind = o, !.nextchar = NULL]
        BY <1>2, <3>0 DEF PargState
      <4>2. o \in Nat
        BY <3>0
      <4> HIDE DEF next, o
      <4>3. next \in PargState /\ next.optarg = NULL /\ next.optind = o
        BY <1>2, <4>1, <4>2 DEF PargState
      <4> QED BY <4>3 DEF o
    <3> HIDE DEF next
    <3> QED BY <2>2, <3>1 DEF PargState
  <2> HIDE DEF p
  <2> QED BY <1>6, <2>1, <2>2, <2>3, <2>4
<1> QED BY <1>5, <1>6

(* What main gets for an option, and where the parser is then. *)
Reads(item, got, w2, i2) ==
    /\ item.opt = "--" => got.c = "end"
    /\ item.opt \in Others => got.c \in {"?", ":"}
    /\ item.opt \in WithArgument /\ item.arg = NULL => got.c = "?"
    /\ item.opt \in Flags \cup {"word"} => got.c = item.opt
    /\ item.opt \in WithArgument /\ item.arg # NULL => got.c = item.opt
    /\ item.opt \in WithArgument \cup {"word"} /\ item.arg # NULL =>
           got.ps.optarg = item.arg
    /\ got.c \in Flags \cup WithArgument \cup {"word"} => Ready(got.ps, argv, w2, i2)

PassesOver(got) ==
    got.c # "end" =>
        \/ got.ps.optind > ps.optind
        \/ /\ got.ps.optind = ps.optind
           /\ got.ps.nextchar = NULL \/ Len(got.ps.nextchar) < Len(ps.nextchar)

LEMMA GetsWord ==
    ASSUME argv \in Seq(Word), NEW item \in Items, NEW w, NEW i \in Nat,
           NEW w2, NEW i2, w \in 1..Len(argv),
           LiesAsWord(argv, item, w, i, w2, i2), Ready(ps, argv, w, i)
    PROVE  Reads(item, parg_getopt, w2, i2) /\ PassesOver(parg_getopt)
<1> DEFINE word == argv[w]
           q == [ps EXCEPT !.optarg = NULL]
           next == [q EXCEPT !.optind = @ + 1, !.nextchar = NULL]
<1>1. /\ ps \in PargState /\ q \in PargState /\ q.optarg = NULL
      /\ q.optind = w /\ ps.optind = w /\ q.nextchar \in {NULL, <<>>}
  BY DEF Ready, PargState, LiesAsWord
<1>2. argc >= 2 /\ Len(argv) \in Nat /\ ~ (w >= argc)
  BY DEF argc
<1>3. parg_getopt =
        IF q.nextchar \notin {NULL, <<>>} THEN match_short(q)
        ELSE IF q.optind >= argc THEN Got("end", q)
        ELSE IF argv[q.optind] = <<>> \/ argv[q.optind][1] # "-" \/ Len(argv[q.optind]) = 1
             THEN Got("word", [next EXCEPT !.optarg = argv[q.optind]])
        ELSE IF argv[q.optind] = <<"-", "-">> THEN Got("end", next)
        ELSE match_short([next EXCEPT !.nextchar = Tail(argv[q.optind])])
  <2>1. ~ (argc < 2)
    BY <1>2 DEF argc
  <2> QED BY <2>1 DEF parg_getopt, is_argv_end
<1>4. parg_getopt =
        IF word = <<>> \/ word[1] # "-" \/ Len(word) = 1
             THEN Got("word", [next EXCEPT !.optarg = word])
        ELSE IF word = <<"-", "-">> THEN Got("end", next)
        ELSE match_short([next EXCEPT !.nextchar = Tail(word)])
  <2> HIDE DEF q, next
  <2> QED BY <1>1, <1>2, <1>3
<1>5. CASE item.opt = "word" /\ item.arg = word /\ word \in Words
  <2> DEFINE p == [next EXCEPT !.optarg = word]
  <2>1. word = <<>> \/ word[1] # "-" \/ Len(word) = 1
    <3>1. word # <<>> => Head(word) = word[1]
      OBVIOUS
    <3> QED BY <1>5, <3>1, ProgramAssumption
  <2>2. parg_getopt = Got("word", p)
    BY <1>4, <2>1
  <2>3. p \in PargState /\ p.optind = w + 1 /\ p.nextchar = NULL /\ p.optarg = word
    <3>1. word \in Word /\ w \in Nat
      OBVIOUS
    <3> HIDE DEF word, q
    <3>2. next \in PargState /\ next.optind = w + 1 /\ next.nextchar = NULL
      <4> DEFINE o == w + 1
      <4>1. next = [q EXCEPT !.optind = o, !.nextchar = NULL]
        BY <1>1, <3>1 DEF PargState
      <4>2. o \in Nat
        BY <3>1
      <4> HIDE DEF next, o
      <4>3. next \in PargState /\ next.optind = o /\ next.nextchar = NULL
        BY <1>1, <4>1, <4>2 DEF PargState
      <4> QED BY <4>3 DEF o
    <3> HIDE DEF next
    <3> QED BY <3>1, <3>2 DEF PargState
  <2>4. parg_getopt.c = "word" /\ parg_getopt.ps = p
    <3> HIDE DEF p
    <3> QED BY <2>2 DEF Got
  <2> HIDE DEF p
  <2>5. Ready(p, argv, w2, i2)
    BY <2>3 DEF Ready, LiesAsWord
  <2>6. Reads(item, parg_getopt, w2, i2)
    BY <1>5, <2>3, <2>4, <2>5 DEF Reads, Flags, Others, WithArgument
  <2>7. PassesOver(parg_getopt)
    BY <1>1, <2>3, <2>4 DEF PassesOver
  <2> QED BY <2>6, <2>7
<1>6. CASE item.opt = "--" /\ word = <<"-", "-">>
  <2>1. ~ (word = <<>> \/ word[1] # "-" \/ Len(word) = 1)
    BY <1>6
  <2>2. parg_getopt = Got("end", next)
    BY <1>4, <1>6, <2>1
  <2>3. parg_getopt.c = "end"
    <3> HIDE DEF next
    <3> QED BY <2>2 DEF Got
  <2> QED BY <1>6, <2>3 DEF Reads, PassesOver, Flags, Others, WithArgument
<1> QED BY <1>5, <1>6 DEF LiesAsWord

LEMMA GetsLetter ==
    ASSUME argv \in Seq(Word), NEW item \in Items, NEW w, NEW i \in Nat,
           NEW w2, NEW i2, w \in 1..Len(argv),
           LiesAsLetter(argv, item, w, i, w2, i2), Ready(ps, argv, w, i)
    PROVE  Reads(item, parg_getopt, w2, i2) /\ PassesOver(parg_getopt)
<1> DEFINE word == argv[w]
           n == Len(word)
           j == Letter(i)
           rest == SubSeq(word, j + 1, n)
<1>1. /\ i # 2 /\ j \in 2..n /\ word[j] = item.opt /\ word \in Word
      /\ item.opt \in Letters /\ n \in Nat
  <2>1. word \in Word
    OBVIOUS
  <2>2. n \in Nat
    BY <2>1 DEF Word
  <2>3. item.opt \in Letters
    BY DEF LiesAsLetter, Letters
  <2> QED BY <2>1, <2>2, <2>3 DEF LiesAsLetter
<1>2. PICK p \in PargState :
        /\ parg_getopt = match_short(p)
        /\ p.optarg = NULL /\ p.optind = w + 1
        /\ p.nextchar = SubSeq(word, j, n)
        /\ i # 1 => ps.optind = w + 1 /\ ps.nextchar = p.nextchar
  BY InLetters
<1>3. i = 1 => ps.optind = w
  BY DEF Ready
<1>4. rest \in Word /\ Len(rest) < Len(p.nextchar) /\ (j = n => rest = <<>>)
  <2>1. j \in 1..n
    BY <1>1
  <2>2. /\ rest \in Word /\ (j = n => rest = <<>>)
        /\ Len(rest) = Len(SubSeq(word, j, n)) - 1
        /\ Len(SubSeq(word, j, n)) = n - j + 1
    BY <1>1, <2>1, Rest
  <2> HIDE DEF rest, n, j
  <2> QED BY <1>1, <1>2, <2>1, <2>2
<1> DEFINE on == [p EXCEPT !.nextchar = rest]
<1>5. /\ on \in PargState /\ on.optind = w + 1 /\ on.nextchar = rest
      /\ on.optarg = NULL
  <2> HIDE DEF rest
  <2> QED BY <1>2, <1>4 DEF PargState
<1>6. /\ item.opt \in Flags \cup {":"} => parg_getopt = Got(item.opt, on)
      /\ item.opt \in Others \ {":"} => parg_getopt = Got("?", on)
      /\ item.opt \in WithArgument /\ j < n =>
             parg_getopt = Got(item.opt, [p EXCEPT !.optarg = rest, !.nextchar = NULL])
      /\ item.opt \in WithArgument /\ j = n =>
             parg_getopt = IF p.optind >= argc THEN Got("?", on)
                           ELSE Got(item.opt, [optarg   |-> argv[p.optind],
                                               optind   |-> p.optind + 1,
                                               nextchar |-> NULL])
  <2> HIDE DEF word, j
  <2> DEFINE c == word[j]
  <2>1. /\ c \in Flags \cup {":"} => match_short(p) = Got(c, on)
        /\ c \in Others \ {":"} => match_short(p) = Got("?", on)
        /\ c \in WithArgument /\ j < n =>
               match_short(p) = Got(c, [p EXCEPT !.optarg = rest, !.nextchar = NULL])
        /\ c \in WithArgument /\ j = n =>
               match_short(p) = IF p.optind >= argc THEN Got("?", on)
                                ELSE Got(c, [optarg   |-> argv[p.optind],
                                             optind   |-> p.optind + 1,
                                             nextchar |-> NULL])
    BY <1>1, <1>2, ShortGets
  <2>2. c = item.opt
    BY <1>1
  <2> HIDE DEF on, rest, n, c
  <2> QED BY <1>2, <2>1, <2>2
<1>7. ASSUME NEW c, NEW g \in PargState, parg_getopt = Got(c, g),
             \/ g.optind = w + 1 /\ (g.nextchar = NULL \/ g.nextchar = rest)
             \/ g.optind = w + 2
      PROVE  PassesOver(parg_getopt) /\ parg_getopt.c = c /\ parg_getopt.ps = g
  <2>1. parg_getopt.c = c /\ parg_getopt.ps = g
    BY <1>7 DEF Got
  <2>2. w \in Nat
    OBVIOUS
  <2> HIDE DEF rest
  <2>3. CASE i = 1
    <3>1. g.optind > ps.optind
      BY <1>3, <1>7, <2>2, <2>3
    <3> QED BY <2>1, <3>1 DEF PassesOver
  <2>4. CASE i # 1
    <3>1. ps.optind = w + 1 /\ ps.nextchar = p.nextchar
      BY <1>2, <2>4
    <3>2. CASE g.optind = w + 2
      <4>1. g.optind > ps.optind
        BY <2>2, <3>1, <3>2
      <4> QED BY <2>1, <4>1 DEF PassesOver
    <3>3. CASE g.optind = w + 1 /\ (g.nextchar = NULL \/ g.nextchar = rest)
      <4>1. g.nextchar = NULL \/ Len(g.nextchar) < Len(ps.nextchar)
        BY <1>4, <3>1, <3>3
      <4> QED BY <2>1, <3>1, <3>3, <4>1 DEF PassesOver
    <3> QED BY <1>7, <3>2, <3>3
  <2> QED BY <2>1, <2>3, <2>4
<1> HIDE DEF on, rest
<1>8. CASE item.opt \in Flags
  <2>1. IF j = n THEN w2 = w + 1 /\ i2 = 1 ELSE w2 = w /\ i2 = j + 1
    BY <1>8 DEF LiesAsLetter, Flags, Others, WithArgument
  <2>2. Ready(on, argv, w2, i2)
    <3>1. j \in Nat /\ j + 1 # 1
      BY <1>1
    <3> HIDE DEF j
    <3> QED BY <1>4, <1>5, <2>1, <3>1 DEF Ready, rest
  <2>3. parg_getopt.c = item.opt /\ parg_getopt.ps = on /\ PassesOver(parg_getopt)
    BY <1>5, <1>6, <1>7, <1>8
  <2> QED BY <1>8, <2>2, <2>3 DEF Reads, Flags, Others, WithArgument
<1>9. CASE item.opt \in Others
  <2>1. parg_getopt.c \in {"?", ":"} /\ PassesOver(parg_getopt)
    BY <1>5, <1>6, <1>7, <1>9
  <2> QED BY <1>9, <2>1 DEF Reads, Flags, Others, WithArgument
<1>10. CASE item.opt \in WithArgument
  <2>0. item.opt \notin Flags \cup Others \cup {"--", "word"}
    BY <1>10 DEF Flags, Others, WithArgument
  <2>1. /\ i2 = 1
        /\ \/ /\ item.arg \in Arguments[item.opt]
              /\ j = n /\ w2 = w + 2
              /\ w + 1 <= Len(argv) /\ argv[w + 1] = item.arg
           \/ /\ item.arg \in Arguments[item.opt]
              /\ j < n /\ w2 = w + 1
              /\ item.arg = rest
           \/ item.arg = NULL /\ j = n /\ w = Len(argv) /\ w2 = w + 1
    BY <1>10, <2>0 DEF LiesAsLetter, rest
  <2>2. item.arg \in Arguments[item.opt] => item.arg \in Word /\ item.arg # NULL
    BY <1>10, ProgramAssumption DEF Word
  <2>3. CASE /\ item.arg \in Arguments[item.opt]
             /\ j = n /\ w2 = w + 2
             /\ w + 1 <= Len(argv) /\ argv[w + 1] = item.arg
    <3> DEFINE g == [optarg |-> item.arg, optind |-> w + 2, nextchar |-> NULL]
    <3>1. ~ (p.optind >= argc) /\ p.optind + 1 = w + 2 /\ w \in Nat
      BY <1>2, <2>3 DEF argc
    <3>2. parg_getopt = Got(item.opt, g)
      BY <1>2, <1>6, <1>10, <2>3, <3>1
    <3>3. g \in PargState /\ g.optind = w + 2 /\ g.nextchar = NULL
          /\ g.optarg = item.arg
      BY <2>2, <2>3, <3>1 DEF PargState
    <3> HIDE DEF g
    <3>4. parg_getopt.c = item.opt /\ parg_getopt.ps = g /\ PassesOver(parg_getopt)
      BY <1>7, <3>2, <3>3
    <3>5. Ready(g, argv, w2, i2)
      BY <2>1, <2>3, <3>3 DEF Ready
    <3> QED BY <2>0, <2>2, <2>3, <3>3, <3>4, <3>5 DEF Reads
  <2>4. CASE /\ item.arg \in Arguments[item.opt]
             /\ j < n /\ w2 = w + 1
             /\ item.arg = rest
    <3> DEFINE g == [p EXCEPT !.optarg = rest, !.nextchar = NULL]
    <3>1. parg_getopt = Got(item.opt, g)
      BY <1>6, <1>10, <2>4
    <3>2. g \in PargState /\ g.optind = w + 1 /\ g.nextchar = NULL
          /\ g.optarg = item.arg
      BY <1>2, <1>4, <2>4 DEF PargState
    <3> HIDE DEF g
    <3>3. parg_getopt.c = item.opt /\ parg_getopt.ps = g /\ PassesOver(parg_getopt)
      BY <1>7, <3>1, <3>2
    <3>4. Ready(g, argv, w2, i2)
      BY <2>1, <2>4, <3>2 DEF Ready
    <3> QED BY <2>0, <2>2, <2>4, <3>2, <3>3, <3>4 DEF Reads
  <2>5. CASE item.arg = NULL /\ j = n /\ w = Len(argv) /\ w2 = w + 1
    <3>1. p.optind >= argc
      BY <1>2, <2>5 DEF argc
    <3>2. parg_getopt = Got("?", on)
      BY <1>6, <1>10, <2>5, <3>1
    <3>3. parg_getopt.c = "?" /\ PassesOver(parg_getopt)
      BY <1>5, <1>7, <3>2
    <3> QED BY <2>0, <2>5, <3>3 DEF Reads, Flags, WithArgument
  <2> QED BY <2>1, <2>3, <2>4, <2>5
<1> QED BY <1>1, <1>8, <1>9, <1>10 DEF Letters

(* Behind the last word there is nothing to read (parg.c 166-173).         *)
LEMMA GetsEnd ==
    ASSUME argv \in Seq(Word), Ready(ps, argv, Len(argv) + 1, 1)
    PROVE  parg_getopt.c = "end"
<1> DEFINE q == [ps EXCEPT !.optarg = NULL]
<1>1. q.optind = Len(argv) + 1 /\ q.nextchar \in {NULL, <<>>} /\ Len(argv) \in Nat
  BY DEF Ready, PargState
<1>2. q.optind >= argc /\ ~ (q.nextchar \notin {NULL, <<>>})
  BY <1>1 DEF argc
<1>3. parg_getopt = Got("end", q)
  <2> HIDE DEF q
  <2>1. q = [ps EXCEPT !.optarg = NULL]
    BY DEF q
  <2> QED BY <1>2, <2>1 DEF parg_getopt, is_argv_end
<1> HIDE DEF q
<1> QED BY <1>3 DEF Got

-----------------------------------------------------------------------------
(* What the options stand for *)

(* A non-empty set of places in a sequence has a last one.                 *)
LEMMA LastPlace ==
    ASSUME NEW n \in Nat, NEW S \in SUBSET (1..n), S # {}
    PROVE  Max(S) \in S
<1> DEFINE T == {n - x : x \in S}
<1>1. T \in SUBSET Nat /\ T # {}
  <2>1. \A x \in S : n - x \in Nat
    OBVIOUS
  <2>2. T \subseteq Nat
    BY <2>1
  <2> QED BY <2>2
<1>2. PICK d \in T : \A y \in T : d <= y
  <2> HIDE DEF T
  <2> QED BY <1>1, LeastElement
<1>3. PICK x \in S : d = n - x
  BY <1>2
<1>4. \A y \in S : y <= x
  <2> SUFFICES ASSUME NEW y \in S PROVE y <= x
    OBVIOUS
  <2>1. n - y \in T
    OBVIOUS
  <2>2. d <= n - y
    BY <1>2, <2>1
  <2> QED BY <1>3, <2>2
<1>5. S \in SUBSET Int
  OBVIOUS
<1> QED BY <1>3, <1>4, <1>5, MaxIs

(* The place of the last option c. *)
LastOf(items, c) == SelectLastInSeq(items, LAMBDA i : i.opt = c)

LEMMA SaidMore ==
    ASSUME NEW items \in Seq(Items), NEW item \in Items, NEW c
    PROVE  /\ Said(Append(items, item), c) <=> Said(items, c) \/ item.opt = c
           /\ item.opt = c => Argument(Append(items, item), c) = item.arg
           /\ item.opt # c /\ Said(items, c) =>
                  Argument(Append(items, item), c) = Argument(items, c)
<1> DEFINE n == Len(items)
           more == Append(items, item)
           S == {k \in 1..n : items[k].opt = c}
           T == {k \in 1..Len(more) : more[k].opt = c}
<1>1. /\ n \in Nat /\ Len(more) = n + 1 /\ DOMAIN more = 1..n+1
      /\ DOMAIN items = 1..n /\ more[n + 1] = item
      /\ \A k \in 1..n : more[k] = items[k]
  OBVIOUS
<1> HIDE DEF more
<1>2. T = IF item.opt = c THEN S \cup {n + 1} ELSE S
  <2>1. ASSUME NEW k PROVE k \in T <=> (k \in S \/ (k = n + 1 /\ item.opt = c))
    <3>1. k \in 1..n+1 <=> k \in 1..n \/ k = n + 1
      BY <1>1
    <3>2. ~ (n + 1 \in 1..n)
      BY <1>1
    <3> QED BY <1>1, <3>1, <3>2
  <2> HIDE DEF S, T
  <2> QED BY <2>1
<1>3. (Said(items, c) <=> S # {}) /\ (Said(more, c) <=> T # {})
  BY <1>1 DEF Said
<1>4. LastOf(items, c) = (IF S # {} THEN Max(S) ELSE 0)
  BY DEF LastOf, SelectLastInSeq
<1>5. LastOf(more, c) = (IF T # {} THEN Max(T) ELSE 0)
  BY DEF LastOf, SelectLastInSeq
<1>6. /\ Argument(items, c) = items[LastOf(items, c)].arg
      /\ Argument(more, c) = more[LastOf(more, c)].arg
  BY Zenon DEF Argument, LastOf
<1>7. CASE item.opt = c
  <2>1. n + 1 \in T /\ T \in SUBSET Int /\ \A y \in T : y <= n + 1
    <3>1. \A y \in S : y \in Int /\ y <= n + 1
      BY <1>1
    <3> HIDE DEF S, T
    <3> QED BY <1>1, <1>2, <1>7, <3>1
  <2> HIDE DEF T
  <2>2. Max(T) = n + 1
    BY <2>1, MaxIs
  <2> QED BY <1>1, <1>3, <1>5, <1>6, <1>7, <2>1, <2>2 DEF more
<1>8. CASE item.opt # c
  <2>1. T = S
    BY <1>2, <1>8
  <2>2. S # {} => Max(S) \in 1..n
    <3>1. S \in SUBSET (1..n)
      OBVIOUS
    <3> HIDE DEF S
    <3> QED BY <1>1, <3>1, LastPlace
  <2>3. S # {} => Argument(more, c) = Argument(items, c)
    <3> HIDE DEF S, T
    <3> QED BY <1>1, <1>4, <1>5, <1>6, <2>1, <2>2
  <2> HIDE DEF S, T
  <2> QED BY <1>3, <1>8, <2>1, <2>3 DEF more
<1> QED BY <1>7, <1>8

Settings(f1, f2, f3, f4, f5, f6, f7, f8) ==
    [tasksystem |-> f1, resume |-> f2, randomseed_jobtrace |-> f3, prefix |-> f4,
     breaktime |-> f5, speed |-> f6, overrunbreak |-> f7, allow_first_overrun |-> f8]

(* Each setting of Meant. *)
File(items, c)       == IF Said(items, c) THEN fopen(Disk, Argument(items, c)) ELSE NULL
Number(items, c, d)  == IF Said(items, c) THEN atoll(Argument(items, c)) ELSE d
Prefix(items)        == IF Said(items, "n") THEN Argument(items, "n") ELSE <<>>

LEMMA MeantSettings ==
    ASSUME NEW items
    PROVE  Meant(items) =
               Settings(File(items, "j"), File(items, "r"), Number(items, "z", 0),
                        Prefix(items), Number(items, "t", 60000),
                        Number(items, "w", 1), Said(items, "b"), Said(items, "a"))
BY DEF Meant, Settings, File, Number, Prefix

(* What main does with an option is what it stands for (main.c 117-150).   *)
LEMMA MeantNext ==
    ASSUME NEW items \in Seq(Items), NEW item \in Items, s = Meant(items), disk = Disk,
           item.opt \in WithArgument \cup {"a", "b", "word"},
           NEW arg, item.opt \in WithArgument => arg = item.arg
    PROVE  Set(item.opt, arg) = Meant(Append(items, item))
<1> DEFINE more == Append(items, item)
           c    == item.opt
<1>1. \A d : /\ Said(more, d) <=> Said(items, d) \/ c = d
             /\ c = d => Argument(more, d) = item.arg
             /\ c # d /\ Said(items, d) => Argument(more, d) = Argument(items, d)
  BY SaidMore
<1> HIDE DEF more
<1>2. \A d : c # d => /\ Said(more, d) = Said(items, d)
                      /\ File(more, d) = File(items, d)
                      /\ \A x : Number(more, d, x) = Number(items, d, x)
  <2> SUFFICES ASSUME NEW d, c # d
               PROVE  /\ Said(more, d) = Said(items, d)
                      /\ File(more, d) = File(items, d)
                      /\ \A x : Number(more, d, x) = Number(items, d, x)
    OBVIOUS
  <2>1. Said(more, d) = Said(items, d)
    BY <1>1 DEF Said
  <2>2. CASE Said(items, d)
    <3>1. Said(more, d) /\ Argument(more, d) = Argument(items, d)
      BY <1>1, <2>2
    <3> QED BY <2>1, <2>2, <3>1 DEF File, Number
  <2>3. CASE ~ Said(items, d)
    BY <2>1, <2>3 DEF File, Number
  <2> QED BY <2>1, <2>2, <2>3
<1>3. /\ Said(more, c) = TRUE
      /\ File(more, c) = fopen(Disk, item.arg)
      /\ \A x : Number(more, c, x) = atoll(item.arg)
  <2>1. Said(more, c) /\ Argument(more, c) = item.arg
    BY <1>1
  <2> QED BY <2>1 DEF Said, File, Number
<1>4. Prefix(more) = IF c = "n" THEN item.arg ELSE Prefix(items)
  BY <1>1 DEF Prefix
<1> DEFINE f1 == File(items, "j")
           f2 == File(items, "r")
           f3 == Number(items, "z", 0)
           f4 == Prefix(items)
           f5 == Number(items, "t", 60000)
           f6 == Number(items, "w", 1)
           f7 == Said(items, "b")
           f8 == Said(items, "a")
           g1 == File(more, "j")
           g2 == File(more, "r")
           g3 == Number(more, "z", 0)
           g4 == Prefix(more)
           g5 == Number(more, "t", 60000)
           g6 == Number(more, "w", 1)
           g7 == Said(more, "b")
           g8 == Said(more, "a")
<1>5. s = Settings(f1, f2, f3, f4, f5, f6, f7, f8)
  BY MeantSettings
<1>6. Meant(more) = Settings(g1, g2, g3, g4, g5, g6, g7, g8)
  BY MeantSettings
<1>7. /\ c = "j" \/ g1 = f1
      /\ c = "r" \/ g2 = f2
      /\ c = "z" \/ g3 = f3
      /\ c = "n" \/ g4 = f4
      /\ c = "t" \/ g5 = f5
      /\ c = "w" \/ g6 = f6
      /\ c = "b" \/ g7 = f7
      /\ c = "a" \/ g8 = f8
  <2> HIDE DEF c
  <2>1. c = "j" \/ g1 = f1
    BY <1>2
  <2>2. c = "r" \/ g2 = f2
    BY <1>2
  <2>3. c = "z" \/ g3 = f3
    BY <1>2
  <2>4. c = "n" \/ g4 = f4
    BY <1>4
  <2>5. c = "t" \/ g5 = f5
    BY <1>2
  <2>6. c = "w" \/ g6 = f6
    BY <1>2
  <2>7. c = "b" \/ g7 = f7
    BY <1>2
  <2>8. c = "a" \/ g8 = f8
    BY <1>2
  <2> HIDE DEF f1, f2, f3, f4, f5, f6, f7, f8, g1, g2, g3, g4, g5, g6, g7, g8
  <2> QED BY <2>1, <2>2, <2>3, <2>4, <2>5, <2>6, <2>7, <2>8
<1>8. /\ c = "j" => g1 = fopen(Disk, item.arg)
      /\ c = "r" => g2 = fopen(Disk, item.arg)
      /\ c = "z" => g3 = atoll(item.arg)
      /\ c = "n" => g4 = item.arg
      /\ c = "t" => g5 = atoll(item.arg)
      /\ c = "w" => g6 = atoll(item.arg)
      /\ c = "b" => g7 = TRUE
      /\ c = "a" => g8 = TRUE
  <2> HIDE DEF c
  <2> QED BY <1>3, <1>4
<1> HIDE DEF f1, f2, f3, f4, f5, f6, f7, f8, g1, g2, g3, g4, g5, g6, g7, g8
<1>9. CASE c = "j"
  <2> DEFINE x == fopen(Disk, item.arg)
  <2>1. Set(c, arg) = [s EXCEPT !.tasksystem = x]
    BY <1>9 DEF Set, WithArgument
  <2> HIDE DEF x
  <2>2. Set(c, arg) = Settings(x, f2, f3, f4, f5, f6, f7, f8)
    BY <1>5, <2>1 DEF Settings
  <2>3. Meant(more) = Settings(x, f2, f3, f4, f5, f6, f7, f8)
    BY <1>6, <1>7, <1>8, <1>9 DEF x
  <2> QED BY <2>2, <2>3 DEF more
<1>10. CASE c = "r"
  <2> DEFINE x == fopen(Disk, item.arg)
  <2>1. Set(c, arg) = [s EXCEPT !.resume = x]
    BY <1>10 DEF Set, WithArgument
  <2> HIDE DEF x
  <2>2. Set(c, arg) = Settings(f1, x, f3, f4, f5, f6, f7, f8)
    BY <1>5, <2>1 DEF Settings
  <2>3. Meant(more) = Settings(f1, x, f3, f4, f5, f6, f7, f8)
    BY <1>6, <1>7, <1>8, <1>10 DEF x
  <2> QED BY <2>2, <2>3 DEF more
<1>11. CASE c = "z"
  <2> DEFINE x == atoll(item.arg)
  <2>1. Set(c, arg) = [s EXCEPT !.randomseed_jobtrace = x]
    BY <1>11 DEF Set, WithArgument
  <2> HIDE DEF x
  <2>2. Set(c, arg) = Settings(f1, f2, x, f4, f5, f6, f7, f8)
    BY <1>5, <2>1 DEF Settings
  <2>3. Meant(more) = Settings(f1, f2, x, f4, f5, f6, f7, f8)
    BY <1>6, <1>7, <1>8, <1>11 DEF x
  <2> QED BY <2>2, <2>3 DEF more
<1>12. CASE c = "n"
  <2> DEFINE x == item.arg
  <2>1. Set(c, arg) = [s EXCEPT !.prefix = x]
    BY <1>12 DEF Set, WithArgument
  <2> HIDE DEF x
  <2>2. Set(c, arg) = Settings(f1, f2, f3, x, f5, f6, f7, f8)
    BY <1>5, <2>1 DEF Settings
  <2>3. Meant(more) = Settings(f1, f2, f3, x, f5, f6, f7, f8)
    BY <1>6, <1>7, <1>8, <1>12 DEF x
  <2> QED BY <2>2, <2>3 DEF more
<1>13. CASE c = "t"
  <2> DEFINE x == atoll(item.arg)
  <2>1. Set(c, arg) = [s EXCEPT !.breaktime = x]
    BY <1>13 DEF Set, WithArgument
  <2> HIDE DEF x
  <2>2. Set(c, arg) = Settings(f1, f2, f3, f4, x, f6, f7, f8)
    BY <1>5, <2>1 DEF Settings
  <2>3. Meant(more) = Settings(f1, f2, f3, f4, x, f6, f7, f8)
    BY <1>6, <1>7, <1>8, <1>13 DEF x
  <2> QED BY <2>2, <2>3 DEF more
<1>14. CASE c = "w"
  <2> DEFINE x == atoll(item.arg)
  <2>1. Set(c, arg) = [s EXCEPT !.speed = x]
    BY <1>14 DEF Set, WithArgument
  <2> HIDE DEF x
  <2>2. Set(c, arg) = Settings(f1, f2, f3, f4, f5, x, f7, f8)
    BY <1>5, <2>1 DEF Settings
  <2>3. Meant(more) = Settings(f1, f2, f3, f4, f5, x, f7, f8)
    BY <1>6, <1>7, <1>8, <1>14 DEF x
  <2> QED BY <2>2, <2>3 DEF more
<1>15. CASE c = "b"
  <2> DEFINE x == TRUE
  <2>1. Set(c, arg) = [s EXCEPT !.overrunbreak = x]
    BY <1>15 DEF Set
  <2> HIDE DEF x
  <2>2. Set(c, arg) = Settings(f1, f2, f3, f4, f5, f6, x, f8)
    BY <1>5, <2>1 DEF Settings
  <2>3. Meant(more) = Settings(f1, f2, f3, f4, f5, f6, x, f8)
    BY <1>6, <1>7, <1>8, <1>15 DEF x
  <2> QED BY <2>2, <2>3 DEF more
<1>16. CASE c = "a"
  <2> DEFINE x == TRUE
  <2>1. Set(c, arg) = [s EXCEPT !.allow_first_overrun = x]
    BY <1>16 DEF Set
  <2> HIDE DEF x
  <2>2. Set(c, arg) = Settings(f1, f2, f3, f4, f5, f6, f7, x)
    BY <1>5, <2>1 DEF Settings
  <2>3. Meant(more) = Settings(f1, f2, f3, f4, f5, f6, f7, x)
    BY <1>6, <1>7, <1>8, <1>16 DEF x
  <2> QED BY <2>2, <2>3 DEF more
<1>17. CASE c = "word"
  <2>1. Set(c, arg) = s
    BY <1>17 DEF Set
  <2> QED BY <1>5, <1>6, <1>7, <1>17, <2>1 DEF more
<1> QED BY <1>9, <1>10, <1>11, <1>12, <1>13, <1>14, <1>15, <1>16, <1>17
        DEF WithArgument

LEMMA MeantNone == Meant(<<>>) = Defaults
<1> DEFINE f1 == File(<<>>, "j")
           f2 == File(<<>>, "r")
           f3 == Number(<<>>, "z", 0)
           f4 == Prefix(<<>>)
           f5 == Number(<<>>, "t", 60000)
           f6 == Number(<<>>, "w", 1)
           f7 == Said(<<>>, "b")
           f8 == Said(<<>>, "a")
<1>1. \A c : Said(<<>>, c) = FALSE
  BY DEF Said
<1>2. /\ f1 = NULL /\ f2 = NULL /\ f3 = 0 /\ f4 = <<>> /\ f5 = 60000 /\ f6 = 1
      /\ f7 = FALSE /\ f8 = FALSE
  BY <1>1 DEF File, Number, Prefix
<1>3. Meant(<<>>) = Settings(f1, f2, f3, f4, f5, f6, f7, f8)
  BY MeantSettings
<1> HIDE DEF f1, f2, f3, f4, f5, f6, f7, f8
<1> QED BY <1>2, <1>3 DEF Settings, Defaults


-----------------------------------------------------------------------------
(* The program *)

(* Which option ends the loop, as ReadUpTo finds it. *)
LEMMA EndingIs ==
    ASSUME typed \in Seq(Items), NEW k \in 1..Len(typed)+1,
           \A j \in 1..k-1 : ~ Ends(typed[j])
    PROVE  /\ k = Len(typed) + 1 => Before = SubSeq(typed, 1, k - 1) /\ Verdict = "go"
           /\ k <= Len(typed) /\ Ends(typed[k]) =>
                 /\ Before = SubSeq(typed, 1, k - 1)
                 /\ Verdict = IF typed[k].opt = "--" THEN "go"
                              ELSE IF typed[k].opt \in {"h", "v"} THEN "success"
                              ELSE "failure"
<1> DEFINE n == Len(typed)
           S == {j \in 1..n : Ends(typed[j])}
<1>1. n \in Nat /\ k \in Nat
  OBVIOUS
<1>2. Ending = IF S # {} THEN Min(S) ELSE 0
  BY DEF Ending, SelectInSeq
<1>3. CASE k = n + 1
  <2>1. S = {}
    <3>1. k - 1 = n
      BY <1>1, <1>3
    <3> QED BY <3>1
  <2>2. Ending = 0
    <3> HIDE DEF S
    <3> QED BY <1>2, <2>1
  <2>3. SubSeq(typed, 1, k - 1) = typed
    <3>1. k - 1 = n
      BY <1>1, <1>3
    <3> QED BY <3>1
  <2> HIDE DEF S
  <2> QED BY <1>1, <1>3, <2>2, <2>3 DEF Before, Verdict
<1>4. CASE k <= n /\ Ends(typed[k])
  <2>1. k \in S /\ S \in SUBSET Int /\ \A y \in S : k <= y
    <3>1. k \in 1..n
      BY <1>1, <1>4
    <3>2. ASSUME NEW y \in S PROVE k <= y
      <4>1. y \in 1..n /\ Ends(typed[y]) /\ y \notin 1..k-1
        OBVIOUS
      <4> QED BY <1>1, <4>1
    <3> QED BY <1>4, <3>1, <3>2
  <2>2. S # {} /\ Min(S) = k
    <3> HIDE DEF S
    <3> QED BY <2>1, MinIs
  <2> HIDE DEF S
  <2>3. Ending = k /\ k # 0
    BY <1>1, <1>2, <2>2
  <2> QED BY <1>1, <1>4, <2>3 DEF Before, Verdict
<1> HIDE DEF S
<1> QED BY <1>1, <1>3, <1>4

LEMMA MeantSame ==
    ASSUME typed' = typed
    PROVE  Before' = Before /\ Verdict' = Verdict /\ Meant(Before)' = Meant(Before)
<1>1. Ending' = Ending
  BY DEF Ending, SelectInSeq
<1>2. Before' = Before
  BY <1>1 DEF Before
<1>3. Verdict' = Verdict
  BY <1>1 DEF Verdict
<1>4. Meant(Before)' = Meant(Before')
  BY DEF Meant
<1> QED BY <1>2, <1>3, <1>4

(* The prefix of the settings. *)
LEMMA PrefixNext ==
    ASSUME NEW items \in Seq(Items), NEW item \in Items,
           Meant(items).prefix \in Word,
           item.opt = "n" => item.arg # NULL
    PROVE  Meant(Append(items, item)).prefix \in Word
<1> DEFINE more == Append(items, item)
<1>1. Meant(items).prefix = Prefix(items) /\ Meant(more).prefix = Prefix(more)
  BY MeantSettings DEF Settings
<1>2. /\ Said(more, "n") <=> Said(items, "n") \/ item.opt = "n"
      /\ item.opt = "n" => Argument(more, "n") = item.arg
      /\ item.opt # "n" /\ Said(items, "n") => Argument(more, "n") = Argument(items, "n")
  BY SaidMore
<1>3. Prefix(more) = IF item.opt = "n" THEN item.arg ELSE Prefix(items)
  <2> HIDE DEF more
  <2> QED BY <1>2 DEF Prefix
<1>4. item.arg \in Word \cup {NULL}
  BY DEF Items
<1> HIDE DEF more
<1> QED BY <1>1, <1>3, <1>4 DEF more

LEMMA InitInv == Init => ProgInv
<1> SUFFICES ASSUME Init PROVE ProgInv
  OBVIOUS
<1>1. typed = <<>> /\ argv = <<>> /\ ps = parg_init /\ s = Defaults /\ pc = "typing"
      /\ disk = Disk /\ Len(typed) = 0 /\ Len(argv) = 0
  BY DEF Init
<1>2. typed \in Seq(Items) /\ argv \in Seq(Word)
  BY <1>1
<1>3. s.prefix \in Word
  BY <1>1 DEF Defaults, Word
<1>4. \E wd, pl : Layout(argv, typed, wd, pl)
  <2> DEFINE one == [k \in 1..1 |-> 1]
  <2>1. one \in [1..1 -> Nat] /\ one[1] = 1
    OBVIOUS
  <2> HIDE DEF one
  <2>2. Len(typed) + 1 = 1 /\ Len(argv) + 1 = 1
    BY <1>1
  <2>3. \A k \in 1..Len(typed) : FALSE
    BY <1>1
  <2>4. Layout(argv, typed, one, one)
    BY <2>1, <2>2, <2>3 DEF Layout, Line
  <2> QED BY <2>4
<1>5. Given(typed)
  BY <1>1 DEF Given
<1> QED BY <1>1, <1>2, <1>3, <1>4, <1>5 DEF ProgInv, Typing, Understood, DumpLeft

(* The user types on. *)
LEMMA TypeInv ==
    ASSUME ProgInv, Type
    PROVE  ProgInv'
<1> DEFINE OK(words, items) == /\ words \in Seq(Word) /\ items \in Seq(Items)
                               /\ \E wd, pl : Layout(words, items, wd, pl)
                               /\ Given(items)
<1>1. /\ pc = "typing" /\ ps' = ps /\ s' = s /\ pc' = pc /\ disk' = disk
      /\ typed \in Seq(Items) /\ argv \in Seq(Word) /\ s.prefix \in Word
      /\ disk = Disk /\ Typing
  BY DEF ProgInv, Type
<1>2. OK(argv', typed')
  <2>1. ASSUME NEW c \in Flags \cup Others, Typed(c, NULL), argv' \in WithLetter(c)
        PROVE  OK(argv', typed')
    <3> DEFINE item == [opt |-> c, arg |-> NULL]
    <3>1. item \in Items /\ item.opt = c /\ c \in Letters /\ c \notin WithArgument
      BY DEF Items, Letters, Flags, Others, WithArgument
    <3>2. typed' = Append(typed, item)
      BY <2>1 DEF Typed
    <3> HIDE DEF item
    <3> QED BY <1>1, <2>1, <3>1, <3>2, TypeLetter DEF Typing
  <2>2. ASSUME NEW c \in WithArgument, NEW arg \in Arguments[c],
               NEW a \in WithLetter(c), Typed(c, arg),
               \/ argv' = Append(a, arg)
               \/ arg # <<>> /\ argv' = [a EXCEPT ![Len(a)] = @ \o arg]
        PROVE  OK(argv', typed')
    <3> DEFINE item == [opt |-> c, arg |-> arg]
    <3>1. arg \in Word /\ arg # NULL
      BY ProgramAssumption DEF Word
    <3>2. item \in Items /\ item.opt = c /\ item.arg = arg /\ c \in Letters
      BY <3>1 DEF Items, Letters
    <3>3. typed' = Append(typed, item)
      BY <2>2 DEF Typed
    <3> HIDE DEF item
    <3> QED BY <1>1, <2>2, <3>1, <3>2, <3>3, TypeLetter DEF Typing
  <2>3. ASSUME NEW w \in Words, Typed("word", w), argv' = Append(argv, w)
        PROVE  OK(argv', typed')
    <3> DEFINE item == [opt |-> "word", arg |-> w]
    <3>1. w \in Word
      BY ProgramAssumption DEF Word
    <3>2. item \in Items /\ item.opt = "word" /\ item.arg = w
      BY <3>1 DEF Items
    <3>3. typed' = Append(typed, item)
      BY <2>3 DEF Typed
    <3> HIDE DEF item
    <3> QED BY <1>1, <2>3, <3>1, <3>2, <3>3, TypeWord DEF Typing
  <2>4. ASSUME Typed("--", NULL), argv' = Append(argv, <<"-", "-">>)
        PROVE  OK(argv', typed')
    <3> DEFINE item == [opt |-> "--", arg |-> NULL]
               word == <<"-", "-">>
    <3>1. word \in Word
      <4>1. "-" \in Characters
        BY ProgramAssumption DEF Others
      <4> QED BY <4>1 DEF Word
    <3>2. item \in Items /\ item.opt = "--"
      BY DEF Items
    <3>3. typed' = Append(typed, item) /\ argv' = Append(argv, word)
      BY <2>4 DEF Typed
    <3>4. word = <<"-", "-">>
      OBVIOUS
    <3> HIDE DEF item, word
    <3> QED BY <1>1, <3>1, <3>2, <3>3, <3>4, TypeWord DEF Typing
  <2> HIDE DEF OK
  <2> QED BY <2>1, <2>2, <2>3, <2>4 DEF Type
<1>3. Typing'
  BY <1>1, <1>2 DEF Typing
<1> QED BY <1>1, <1>2, <1>3 DEF ProgInv, Understood, DumpLeft

(* The parser begins with the first option (parg.c 150-158). *)
LEMMA EnterInv ==
    ASSUME ProgInv, Enter
    PROVE  ProgInv'
<1>1. /\ pc = "typing" /\ ps' = ps /\ s' = s /\ pc' = "options" /\ disk' = disk
      /\ typed \in Seq(Items) /\ argv \in Seq(Word) /\ s.prefix \in Word
      /\ disk = Disk /\ Typing
  BY DEF ProgInv, Enter
<1>2. /\ argv' \in Seq(Word) /\ typed' \in Seq(Items)
      /\ \E wd, pl : Layout(argv', typed', wd, pl)
  <2>1. CASE UNCHANGED <<typed, argv>>
    BY <1>1, <2>1 DEF Typing
  <2>2. ASSUME NEW c \in WithArgument, Typed(c, NULL), argv' \in WithLetter(c)
        PROVE  /\ argv' \in Seq(Word) /\ typed' \in Seq(Items)
               /\ \E wd, pl : Layout(argv', typed', wd, pl)
    <3> DEFINE item == [opt |-> c, arg |-> NULL]
    <3>1. item \in Items /\ item.opt = c /\ item.arg = NULL /\ c \in Letters
      BY DEF Items, Letters
    <3>2. typed' = Append(typed, item)
      BY <2>2 DEF Typed
    <3> HIDE DEF item
    <3> QED BY <1>1, <2>2, <3>1, <3>2, TypeLetter DEF Typing
  <2> QED BY <2>1, <2>2 DEF Enter
<1>3. Parsing'
  <2>1. PICK wd, pl : Layout(argv', typed', wd, pl)
    BY <1>2
  <2>2. wd[1] = 1 /\ pl[1] = 1 /\ 1 \in 1..Len(typed')+1
    BY <1>2, <2>1 DEF Layout, Line
  <2>3. Ready(ps', argv', 1, 1)
    BY <1>1 DEF Typing, Ready, parg_init, PargState
  <2>4. ReadUpTo(1 - 1)'
    <3>1. s' = Meant(<<>>)
      BY <1>1, MeantNone DEF Typing
    <3>2. SubSeq(typed', 1, 1 - 1) = <<>>
      BY <1>2
    <3>3. s' = Meant(SubSeq(typed', 1, 1 - 1))
      BY <3>1, <3>2
    <3>4. \A j \in 1..1-1 : FALSE
      OBVIOUS
    <3> QED BY <3>3, <3>4 DEF ReadUpTo
  <2> QED BY <2>1, <2>2, <2>3, <2>4 DEF Parsing
<1> QED BY <1>1, <1>2, <1>3 DEF ProgInv, Understood, DumpLeft

(* What an iteration of the loop over the options does, by what            *)
(* parg_getopt returned (main.c 97-173).                                   *)
LEMMA OptionCases ==
    ASSUME Option, NEW c, c = parg_getopt.c, NEW w, w = parg_getopt.ps.optarg
    PROVE  /\ ps' = parg_getopt.ps
           /\ typed' = typed /\ argv' = argv /\ disk' = disk
           /\ c = "end" => pc' = "startup" /\ s' = s /\ status' = status
           /\ c \in {"h", "v"} => pc' = "exited" /\ status' = "success" /\ s' = s
           /\ c \in {"?", ":"} \/ (c = "n" /\ ~ PrefixFits(w)) =>
                  pc' = "exited" /\ status' = "failure" /\ s' = s
           /\ c \in WithArgument \cup {"a", "b", "word"} /\ (c = "n" => PrefixFits(w)) =>
                  pc' = pc /\ s' = Set(c, w)
<1> HIDE DEF PrefixFits, Set
<1> QED BY DEF Option, Exit, WithArgument

LEMMA OptionInv ==
    ASSUME ProgInv, Option
    PROVE  ProgInv'
<1>1. /\ pc = "options" /\ typed \in Seq(Items) /\ argv \in Seq(Word)
      /\ s.prefix \in Word /\ disk = Disk
  BY DEF ProgInv, Option
<1>2. PICK wd, pl : \E k \in 1..Len(typed)+1 :
        /\ Layout(argv, typed, wd, pl)
        /\ Ready(ps, argv, wd[k], pl[k])
        /\ ReadUpTo(k - 1)
  BY <1>1 DEF ProgInv, Parsing
<1>3. PICK k \in 1..Len(typed)+1 : /\ Layout(argv, typed, wd, pl)
                                   /\ Ready(ps, argv, wd[k], pl[k])
                                   /\ ReadUpTo(k - 1)
  BY <1>2
<1> DEFINE n    == Len(typed)
           item == typed[k]
           c    == parg_getopt.c
           w    == parg_getopt.ps.optarg
<1>4. n \in Nat /\ k \in Nat
  OBVIOUS
<1>5. /\ ps' = parg_getopt.ps /\ typed' = typed /\ argv' = argv /\ disk' = disk
      /\ c = "end" => pc' = "startup" /\ s' = s /\ status' = status
      /\ c \in {"h", "v"} => pc' = "exited" /\ status' = "success" /\ s' = s
      /\ c \in {"?", ":"} \/ (c = "n" /\ ~ PrefixFits(w)) =>
             pc' = "exited" /\ status' = "failure" /\ s' = s
      /\ c \in WithArgument \cup {"a", "b", "word"} /\ (c = "n" => PrefixFits(w)) =>
             pc' = pc /\ s' = Set(c, w)
  BY OptionCases
<1>6. s = Meant(SubSeq(typed, 1, k - 1)) /\ \A j \in 1..k-1 : ~ Ends(typed[j])
  BY <1>3 DEF ReadUpTo
<1>7. typed' \in Seq(Items) /\ argv' \in Seq(Word)
  BY <1>1, <1>5
<1> HIDE DEF c, w
(* The loop ends, and before the verdict on the command line is "go". *)
<1>8. ASSUME c = "end", Verdict = "go", Before = SubSeq(typed, 1, k - 1)
      PROVE  ProgInv'
  <2>1. pc' = "startup" /\ s' = s
    BY <1>5, <1>8
  <2>2. Understood'
    <3>1. s' = Meant(Before)
      BY <1>6, <1>8, <2>1
    <3> QED BY <1>5, <1>8, <2>1, <3>1, MeantSame DEF Understood
  <2> QED BY <1>1, <1>5, <1>7, <2>1, <2>2 DEF ProgInv, DumpLeft
(* The program ends as it should. *)
<1>9. ASSUME NEW how, how # "go", Verdict = how, pc' = "exited", status' = how, s' = s
      PROVE  ProgInv'
  <2>1. Verdict' = how
    BY <1>5, <1>9, MeantSame
  <2> QED BY <1>1, <1>7, <1>9, <2>1 DEF ProgInv, Understood, DumpLeft
<1>10. CASE k = n + 1
  <2>1. c = "end"
    <3>1. wd[k] = Len(argv) + 1 /\ pl[k] = 1
      BY <1>3, <1>10 DEF Layout
    <3> QED BY <1>1, <1>3, <3>1, GetsEnd DEF c
  <2> QED BY <1>1, <1>6, <1>8, <1>10, <2>1, EndingIs
<1>11. CASE k # n + 1
  <2>1. k \in 1..n /\ k + 1 \in 1..n+1 /\ item \in Items /\ (k + 1) - 1 = k
    BY <1>1, <1>4, <1>11
  <2>2. Lies(argv, item, wd[k], pl[k], wd[k + 1], pl[k + 1])
    BY <1>3, <2>1 DEF Layout, Line
  <2>3. pl[k] \in Nat
    <3>1. pl \in [1..n+1 -> Nat] /\ k \in 1..n+1
      BY <1>3, <2>1 DEF Layout, Line
    <3> QED BY <3>1
  <2>4. Reads(item, parg_getopt, wd[k + 1], pl[k + 1])
    <3> HIDE DEF item
    <3>1. wd[k] \in 1..Len(argv)
      BY <2>2 DEF Lies
    <3>2. CASE LiesAsWord(argv, item, wd[k], pl[k], wd[k + 1], pl[k + 1])
      BY <1>1, <1>3, <2>1, <2>3, <3>1, <3>2, GetsWord
    <3>3. CASE LiesAsLetter(argv, item, wd[k], pl[k], wd[k + 1], pl[k + 1])
      BY <1>1, <1>3, <2>1, <2>3, <3>1, <3>3, GetsLetter
    <3> QED BY <2>2, <3>2, <3>3 DEF Lies
  <2>5. item.opt \in Letters \cup {"word", "--"} /\ item.arg \in Word \cup {NULL}
    BY <2>1 DEF Items
  <2>6. Ends(item) => /\ Before = SubSeq(typed, 1, k - 1)
                      /\ Verdict = IF item.opt = "--" THEN "go"
                                   ELSE IF item.opt \in {"h", "v"} THEN "success"
                                   ELSE "failure"
    <3>1. k <= Len(typed)
      BY <2>1
    <3> QED BY <1>1, <1>6, <3>1, EndingIs
  <2> HIDE DEF item
  <2>7. CASE item.opt = "--"
    <3>1. c = "end" /\ Ends(item)
      BY <2>4, <2>7 DEF Reads, Ends, c
    <3> QED BY <1>8, <2>6, <2>7, <3>1
  <2>8. CASE item.opt \in {"h", "v"}
    <3>1. c \in {"h", "v"} /\ Ends(item) /\ item.opt # "--"
      BY <2>4, <2>8 DEF Reads, Ends, c, Flags
    <3>2. Verdict = "success" /\ pc' = "exited" /\ status' = "success" /\ s' = s
      BY <1>5, <2>6, <2>8, <3>1
    <3> QED BY <1>9, <3>2
  <2>9. CASE item.opt \in Others \/ (item.opt \in WithArgument /\ item.arg = NULL)
    <3>1. c \in {"?", ":"} /\ Ends(item) /\ item.opt \notin {"--", "h", "v"}
      BY <2>4, <2>9 DEF Reads, Ends, c, Others, WithArgument
    <3>2. Verdict = "failure" /\ pc' = "exited" /\ status' = "failure" /\ s' = s
      BY <1>5, <2>6, <3>1
    <3> QED BY <1>9, <3>2
  <2>10. CASE \/ item.opt \in WithArgument /\ item.arg # NULL
              \/ item.opt \in {"a", "b", "word"}
    <3>1. /\ c = item.opt /\ item.opt \in WithArgument \cup {"a", "b", "word"}
          /\ item.opt \in WithArgument => w = item.arg /\ item.arg \in Word
          /\ Ready(parg_getopt.ps, argv, wd[k + 1], pl[k + 1])
      BY <2>4, <2>5, <2>10 DEF Reads, c, w, Flags, WithArgument
    <3>2. Ends(item) <=> item.opt = "n" /\ ~ PrefixFits(item.arg)
      <4>1. item.opt \notin {"h", "v", "--"} \cup Others
        BY <3>1 DEF Others, WithArgument
      <4>2. item.opt \in WithArgument => item.arg # NULL
        BY <2>10 DEF WithArgument
      <4>3. item.opt = "n" => Len(item.arg) \in Nat
        BY <3>1 DEF WithArgument, Word
      <4> QED BY <4>1, <4>2, <4>3, ProgramAssumption DEF Ends, PrefixFits
    <3>3. CASE Ends(item)
      <4>1. c = "n" /\ ~ PrefixFits(w) /\ item.opt \notin {"--", "h", "v"}
        BY <3>1, <3>2, <3>3 DEF WithArgument
      <4>2. Verdict = "failure" /\ pc' = "exited" /\ status' = "failure" /\ s' = s
        BY <1>5, <2>6, <3>3, <4>1
      <4> QED BY <1>9, <4>2
    <3>4. CASE ~ Ends(item)
      <4> DEFINE before == SubSeq(typed, 1, k - 1)
                 upto   == SubSeq(typed, 1, k)
      <4>1. before \in Seq(Items) /\ upto = Append(before, item)
        <5>1. before \in Seq(Items) /\ Len(before) = k - 1
              /\ \A j \in 1..k-1 : before[j] = typed[j]
          BY <1>1, <1>4, <2>1
        <5>2. upto \in Seq(Items) /\ Len(upto) = k
              /\ \A j \in 1..k : upto[j] = typed[j]
          BY <1>1, <1>4, <2>1
        <5> HIDE DEF before, upto
        <5>3. Append(before, item) \in Seq(Items) /\ Len(Append(before, item)) = k
              /\ Append(before, item)[k] = item
              /\ \A j \in 1..k-1 : Append(before, item)[j] = before[j]
          BY <1>4, <2>1, <5>1
        <5>4. ASSUME NEW j \in 1..k PROVE upto[j] = Append(before, item)[j]
          <6>1. CASE j = k  BY <5>2, <5>3, <6>1 DEF item
          <6>2. CASE j # k
            <7>1. j \in 1..k-1
              BY <1>4, <6>2
            <7> QED BY <5>1, <5>2, <5>3, <7>1
          <6> QED BY <6>1, <6>2
        <5> QED BY <5>1, <5>2, <5>3, <5>4, SeqEqual
      <4> HIDE DEF before, upto
      <4>2. pc' = pc /\ s' = Set(c, w)
        BY <1>5, <3>1, <3>2, <3>4
      <4>3. s' = Meant(upto)
        <5>1. s = Meant(before)
          BY <1>6 DEF before
        <5>2. Set(item.opt, w) = Meant(Append(before, item))
          BY <1>1, <2>1, <3>1, <4>1, <5>1, MeantNext
        <5> QED BY <3>1, <4>1, <4>2, <5>2
      <4>4. s'.prefix \in Word
        <5>1. item.opt = "n" => item.arg # NULL
          BY <2>10 DEF WithArgument
        <5>2. Meant(before).prefix \in Word
          BY <1>1, <1>6 DEF before
        <5> QED BY <2>1, <4>1, <4>3, <5>1, <5>2, PrefixNext
      <4>5. Parsing'
        <5>1. ReadUpTo(k)'
          <6>1. \A j \in 1..k : ~ Ends(typed[j])
            <7> SUFFICES ASSUME NEW j \in 1..k PROVE ~ Ends(typed[j])
              OBVIOUS
            <7>1. j = k \/ j \in 1..k-1
              BY <1>4
            <7> QED BY <1>6, <3>4, <7>1 DEF item
          <6> QED BY <1>5, <4>3, <6>1 DEF ReadUpTo, upto
        <5>2. ReadUpTo((k + 1) - 1)'
          BY <2>1, <5>1
        <5>3. Ready(ps', argv', wd[k + 1], pl[k + 1])
          BY <1>5, <3>1
        <5>4. Layout(argv', typed', wd, pl)
          BY <1>3, <1>5
        <5>5. k + 1 \in 1..Len(typed')+1
          BY <1>5, <2>1
        <5> QED BY <5>2, <5>3, <5>4, <5>5 DEF Parsing
      <4> QED BY <1>1, <1>5, <1>7, <4>2, <4>4, <4>5
              DEF ProgInv, Understood, DumpLeft
    <3> QED BY <3>3, <3>4
  <2> QED BY <2>5, <2>7, <2>8, <2>9, <2>10 DEF Letters, Flags
<1> QED BY <1>10, <1>11

(* The handler's dump is not the one that main writes. *)
LEMMA TwoDumps ==
    ASSUME s.prefix \in Word
    PROVE  DumpName # SignalDumpName
<1> DEFINE x == s.prefix
           d == DumpName
           e == SignalDumpName
           m == Len(x) + 1
<1>1. x \in Seq(Characters) /\ m \in Nat
  BY DEF Word
<1>2. d[m] = "_dump.json"
  <2>1. d = x \o <<"_dump.json">>
    BY DEF DumpName
  <2> HIDE DEF x, d
  <2> QED BY <1>1, <2>1
<1>3. e[m] = "_signal_dump.json"
  <2>1. e = x \o <<"_signal_dump.json">>
    BY DEF SignalDumpName
  <2> HIDE DEF x, e
  <2> QED BY <1>1, <2>1
<1>4. "_dump.json" # "_signal_dump.json"
  OBVIOUS
<1> QED BY <1>2, <1>3, <1>4

(* The steps after the options leave what was typed and the settings. *)
LEMMA SettledStep ==
    ASSUME ProgInv, pc \notin {"typing", "options", "exited"},
           typed' = typed, argv' = argv, s' = s, pc' \notin {"typing", "options"},
           pc' = "dumped" => DumpName \in DOMAIN disk' /\ disk'[DumpName] \in Finished,
           pc' = "exited" /\ status' = "success" =>
               \E name \in {DumpName, SignalDumpName} \cap DOMAIN disk' :
                   disk'[name] \in Finished
    PROVE  ProgInv'
<1>1. Verdict = "go" /\ s = Meant(Before)
  BY DEF ProgInv, Understood
<1>2. Verdict' = "go" /\ s' = Meant(Before)'
  BY <1>1, MeantSame
<1>3. DumpName' = DumpName /\ SignalDumpName' = SignalDumpName
  BY DEF DumpName, SignalDumpName
<1>4. Understood'
  BY <1>2 DEF Understood
<1>5. DumpLeft'
  BY <1>3 DEF DumpLeft
<1>6. pc' = "dumped" => DumpName' \in DOMAIN disk' /\ disk'[DumpName'] \in Finished
  BY <1>3
<1> QED BY <1>4, <1>5, <1>6 DEF ProgInv

LEMMA NextInv == ProgInv /\ [Next]_vars => ProgInv'
<1> SUFFICES ASSUME ProgInv, [Next]_vars PROVE ProgInv'
  OBVIOUS
<1>1. CASE Type
  BY <1>1, TypeInv
<1>2. CASE Enter
  BY <1>2, EnterInv
<1>3. CASE Option
  BY <1>3, OptionInv
<1>4. CASE Startup
  <2>1. /\ pc = "startup" /\ typed' = typed /\ argv' = argv /\ s' = s
        /\ pc' = "running" \/ (pc' = "exited" /\ status' = "failure")
    BY <1>4 DEF Startup, Exit
  <2> QED BY <2>1, SettledStep
<1>5. CASE OpenDump
  <2>1. /\ pc = "running" /\ typed' = typed /\ argv' = argv /\ s' = s
        /\ pc' = "dumping" \/ (pc' = "exited" /\ status' = "failure")
    BY <1>5 DEF OpenDump, Exit
  <2> QED BY <2>1, SettledStep
<1>6. CASE WriteDump
  <2>1. /\ pc = "dumping" /\ typed' = typed /\ argv' = argv /\ s' = s /\ pc' = "dumped"
        /\ \E what \in Finished : disk' = Written(disk, DumpName, what)
    BY <1>6 DEF WriteDump
  <2>2. DumpName \in DOMAIN disk' /\ disk'[DumpName] \in Finished
    BY <2>1 DEF Written
  <2> QED BY <2>1, <2>2, SettledStep
<1>7. CASE PrintResult
  <2>1. /\ pc = "dumped" /\ typed' = typed /\ argv' = argv /\ s' = s /\ pc' = "exited"
        /\ disk' = disk
    BY <1>7 DEF PrintResult, Exit
  <2>2. DumpName \in DOMAIN disk /\ disk[DumpName] \in Finished
    BY <2>1 DEF ProgInv
  <2> QED BY <2>1, <2>2, SettledStep
<1>8. CASE catch_signals
  <2> DEFINE Dumped(what) == Written(disk, SignalDumpName, what)
  <2>1. /\ pc \in {"running", "dumping", "dumped"}
        /\ typed' = typed /\ argv' = argv /\ s' = s /\ pc' = "exited"
        /\ \/ \E what \in Finished :
                 disk' = IF pc = "dumping" THEN Written(Dumped(what), DumpName, "other")
                         ELSE Dumped(what)
           \/ status' = "failure"
    BY <1>8 DEF catch_signals, Exit
  <2>2. SignalDumpName # DumpName
    BY TwoDumps DEF ProgInv
  <2>3. status' # "failure" =>
            SignalDumpName \in DOMAIN disk' /\ disk'[SignalDumpName] \in Finished
    BY <2>1, <2>2 DEF Written
  <2> QED BY <2>1, <2>3, SettledStep
<1>9. CASE UNCHANGED vars
  <2>1. /\ typed' = typed /\ argv' = argv /\ ps' = ps /\ s' = s /\ pc' = pc
        /\ status' = status /\ disk' = disk
    BY <1>9 DEF vars
  <2>2. Understood' /\ DumpLeft'
    <3>1. DumpName' = DumpName /\ SignalDumpName' = SignalDumpName
      BY <2>1 DEF DumpName, SignalDumpName
    <3> QED BY <2>1, <3>1, MeantSame DEF ProgInv, Understood, DumpLeft
  <2>3. (pc' = "typing" => Typing') /\ (pc' = "options" => Parsing')
    <3>1. ASSUME NEW k PROVE ReadUpTo(k)' <=> ReadUpTo(k)
      BY <2>1 DEF ReadUpTo
    <3> QED BY <2>1, <3>1 DEF ProgInv, Typing, Parsing
  <2>4. DumpName' = DumpName
    BY <2>1 DEF DumpName
  <2> QED BY <2>1, <2>2, <2>3, <2>4 DEF ProgInv
<1> QED BY <1>1, <1>2, <1>3, <1>4, <1>5, <1>6, <1>7, <1>8, <1>9 DEF Next, Main

LEMMA ProgramInvariance == Spec => []ProgInv
BY InitInv, NextInv, PTL DEF Spec

-----------------------------------------------------------------------------
(* However the options are put together to words - letters in one word,    *)
(* arguments in the same word or the next, arguments that look like        *)
(* options, words between them - the program runs with the settings meant, *)
(* or ends as it should (parg.c 30-67 and 156-207, main.c 95-173).         *)
THEOREM OptionsUnderstood == Spec => []Understood
<1>1. ProgInv => Understood
  BY DEF ProgInv
<1> QED BY <1>1, ProgramInvariance, PTL

(* A program that simulated and exits with success leaves a dump of this   *)
(* simulation that it wrote to the end, in one file or the other, whenever *)
(* a signal comes; it is whole but for what the system refused to write    *)
(* (main.c 48-61, 221-235).                                                *)
THEOREM DumpsAreLeft == Spec => []DumpLeft
<1>1. ProgInv => DumpLeft
  BY DEF ProgInv
<1> QED BY <1>1, ProgramInvariance, PTL

(* Each call of parg_getopt that returns something passes over a word or a *)
(* letter, so that the loop over the options ends (parg.c 172-206).        *)
THEOREM LoopEnds == Spec => []OptionsEnd
<1>1. ProgInv => OptionsEnd
  <2> SUFFICES ASSUME ProgInv, pc = "options" PROVE PassesOver(parg_getopt)
    BY DEF OptionsEnd, PassesOver
  <2>1. typed \in Seq(Items) /\ argv \in Seq(Word)
    BY DEF ProgInv
  <2>2. PICK wd, pl : \E k \in 1..Len(typed)+1 :
          Layout(argv, typed, wd, pl) /\ Ready(ps, argv, wd[k], pl[k])
    BY DEF ProgInv, Parsing
  <2>3. PICK k \in 1..Len(typed)+1 :
          Layout(argv, typed, wd, pl) /\ Ready(ps, argv, wd[k], pl[k])
    BY <2>2
  <2>4. CASE k = Len(typed) + 1
    <3>1. wd[k] = Len(argv) + 1 /\ pl[k] = 1
      BY <2>3, <2>4 DEF Layout
    <3>2. parg_getopt.c = "end"
      BY <2>1, <2>3, <3>1, GetsEnd
    <3> QED BY <3>2 DEF PassesOver
  <2>5. CASE k # Len(typed) + 1
    <3> DEFINE item == typed[k]
    <3>1. k \in 1..Len(typed) /\ item \in Items
      BY <2>1, <2>5
    <3>2. Lies(argv, item, wd[k], pl[k], wd[k + 1], pl[k + 1])
      BY <2>3, <3>1 DEF Layout, Line
    <3>3. pl[k] \in Nat
      <4>1. pl \in [1..Len(typed)+1 -> Nat]
        BY <2>3 DEF Layout, Line
      <4> QED BY <4>1
    <3> HIDE DEF item
    <3>4. wd[k] \in 1..Len(argv)
      BY <3>2 DEF Lies
    <3>5. CASE LiesAsWord(argv, item, wd[k], pl[k], wd[k + 1], pl[k + 1])
      BY <2>1, <2>3, <3>1, <3>3, <3>4, <3>5, GetsWord
    <3>6. CASE LiesAsLetter(argv, item, wd[k], pl[k], wd[k + 1], pl[k + 1])
      BY <2>1, <2>3, <3>1, <3>3, <3>4, <3>6, GetsLetter
    <3> QED BY <3>2, <3>5, <3>6 DEF Lies
  <2> QED BY <2>4, <2>5
<1> QED BY <1>1, ProgramInvariance, PTL
=============================================================================
