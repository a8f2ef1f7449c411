------------------------------ MODULE Program ------------------------------
(***************************************************************************)
(* The program from its command line to its exit: main and its handlers    *)
(* (src/main.c) on the option parser (src/parg.c).                         *)
(*                                                                         *)
(* A user types options, each in one of the ways a command line can say    *)
(* it; main reads them back from argv with parg_getopt, opens the files,   *)
(* simulates and dumps, and a signal may come once its handlers are there. *)
(* A word is a sequence of characters, an ending of a file name a single   *)
(* one; optind counts as in C, where argv[0] is the program.  A file that  *)
(* is open for reading is its name.  The texts printed, and optopt, which  *)
(* is only printed, are left out; what eventloop_run does is in EventLoop, *)
(* what the dump holds in DumpRestore and Signals.  Bound: a signal comes  *)
(* once, and not after exit has begun.                                     *)
(*                                                                         *)
(* A definition under a comment that starts with "Fault:" is a faulty form *)
(* of the next one; it is used only to see that a property would notice.   *)
(***************************************************************************)
EXTENDS Integers, SequencesExt

CONSTANTS
    NULL,
    Characters,         \* what a word is made of
    STATE_PREFIXBUFLEN, \* the room for the prefix, its terminator included
    Arguments,          \* the words a user may give each option that takes one
    Words,              \* the words a user may type between the options
    MaxTyped,           \* bound: the number of options and words typed
    Disk                \* what is in the files at first: "tasks", "dump", "other"

Flags == {"a", "b", "h", "v"}

(* Letters that are no options; the first is one for parg. *)
Others == {":", "-", "x"}

WithArgument == {"z", "t", "j", "r", "n", "w"}

ASSUME ProgramAssumption ==
    /\ STATE_PREFIXBUFLEN \in Nat \ {0}
    /\ MaxTyped \in Nat
    /\ Flags \cup Others \cup WithArgument \subseteq Characters
    /\ DOMAIN Arguments = WithArgument
    /\ \A c \in WithArgument : Arguments[c] \subseteq Seq(Characters)
    /\ Words \subseteq Seq(Characters)
    /\ \A w \in Words : w # <<>> /\ Head(w) = "-" => Len(w) = 1
    /\ NULL \notin Seq(Characters)

VARIABLES
    typed,  \* what the user means: a sequence of letters with their arguments
    argv,   \* the words typed
    ps,     \* struct parg_state
    s,      \* struct state
    pc,     \* "typing", "options", "startup", "running", "dumping", "dumped", "exited"
    status, \* the exit status
    disk    \* what is in the files now: also "result", the dump of this run,
            \* and "lacking", a dump of which the system refused to write some

vars == <<typed, argv, ps, s, pc, status, disk>>

-----------------------------------------------------------------------------
(* parg_getopt without long options                                        *)

optstring == <<"a", "b", "h", "z", ":", "t", ":", "v", "j", ":", "r", ":",
               "n", ":", "w", ":">>

argc == Len(argv) + 1

parg_init == [optarg |-> NULL, optind |-> 1, nextchar |-> NULL]

is_argv_end(p) == p.optind >= argc

(* What is returned, and the state of the parser then. *)
Got(c, p) == [c |-> c, ps |-> p]

TakeNext(p) == [p EXCEPT !.nextchar = Tail(@)]

(* Fault: an option is returned and not passed over. *)
match_short_Stays(p) ==
    LET c == Head(p.nextchar)
        k == SelectInSeq(optstring, LAMBDA o : o = c)
    IN  IF k = 0 THEN Got("?", TakeNext(p))
        ELSE IF k = Len(optstring) \/ optstring[k + 1] # ":" THEN Got(c, p)
        ELSE IF is_argv_end(p) THEN Got("?", TakeNext(p))
        ELSE Got(c, [optarg   |-> argv[p.optind],
                     optind   |-> p.optind + 1,
                     nextchar |-> NULL])

(* Fault: what is left of a cluster is not taken as the argument. *)
match_short_OnlyNext(p) ==
    LET c == Head(p.nextchar)
        k == SelectInSeq(optstring, LAMBDA o : o = c)
    IN  IF k = 0 THEN Got("?", TakeNext(p))
        ELSE IF k = Len(optstring) \/ optstring[k + 1] # ":" THEN Got(c, TakeNext(p))
        ELSE IF is_argv_end(p) THEN Got("?", TakeNext(p))
        ELSE Got(c, [optarg   |-> argv[p.optind],
                     optind   |-> p.optind + 1,
                     nextchar |-> NULL])

(* The letter at nextchar: an option that takes an argument has it in the  *)
(* rest of the word or, if there is none, in the next one.                 *)
match_short(p) ==
    LET c == Head(p.nextchar)
        k == SelectInSeq(optstring, LAMBDA o : o = c)
    IN  IF k = 0 THEN Got("?", TakeNext(p))
        ELSE IF k = Len(optstring) \/ optstring[k + 1] # ":" THEN Got(c, TakeNext(p))
        ELSE IF Len(p.nextchar) > 1
             THEN Got(c, [p EXCEPT !.optarg = Tail(p.nextchar), !.nextchar = NULL])
        ELSE IF is_argv_end(p) THEN Got("?", TakeNext(p))
        ELSE Got(c, [optarg   |-> argv[p.optind],
                     optind   |-> p.optind + 1,
                     nextchar |-> NULL])

(* A word that is not an option is returned as "word", -1 as "end". *)
parg_getopt ==
    LET p    == [ps EXCEPT !.optarg = NULL]
        word == argv[p.optind]
        next == [p EXCEPT !.optind = @ + 1, !.nextchar = NULL]
    IN  IF argc < 2 THEN Got("end", p)
        ELSE IF p.nextchar \notin {NULL, <<>>} THEN match_short(p)
        ELSE IF is_argv_end(p) THEN Got("end", p)
        ELSE IF word = <<>> \/ word[1] # "-" \/ Len(word) = 1
             THEN Got("word", [next EXCEPT !.optarg = word])
        ELSE IF word = <<"-", "-">> THEN Got("end", next)
        ELSE match_short([next EXCEPT !.nextchar = Tail(word)])

-----------------------------------------------------------------------------
(* The user                                                                *)

(* The last word is a dash and letters, to which one more can be added. *)
Open == typed # <<>> /\ Last(typed).opt \in Flags \cup Others

(* The command line with one more letter. *)
WithLetter(c) ==
    (IF c = "-" THEN {} ELSE {Append(argv, <<"-", c>>)})
        \cup (IF Open THEN {[argv EXCEPT ![Len(argv)] = Append(@, c)]} ELSE {})

Typed(opt, arg) == typed' = Append(typed, [opt |-> opt, arg |-> arg])

Type ==
    /\ pc = "typing"
    /\ Len(typed) < MaxTyped
    /\ \/ \E c \in Flags \cup Others : Typed(c, NULL) /\ argv' \in WithLetter(c)
       \/ \E c \in WithArgument : \E arg \in Arguments[c], a \in WithLetter(c) :
             /\ Typed(c, arg)
             /\ \/ argv' = Append(a, arg)
                \/ arg # <<>> /\ argv' = [a EXCEPT ![Len(a)] = @ \o arg]
       \/ \E w \in Words : Typed("word", w) /\ argv' = Append(argv, w)
       \/ Typed("--", NULL) /\ argv' = Append(argv, <<"-", "-">>)
    /\ UNCHANGED <<ps, s, pc, status, disk>>

(* The last option may lack its argument. *)
Enter ==
    /\ pc = "typing"
    /\ \/ UNCHANGED <<typed, argv>>
       \/ \E c \in WithArgument : Typed(c, NULL) /\ argv' \in WithLetter(c)
    /\ pc' = "options"
    /\ UNCHANGED <<ps, s, status, disk>>

-----------------------------------------------------------------------------
(* main                                                                    *)

Digit == [d \in {"0", "2", "7"} |-> CASE d = "0" -> 0 [] d = "2" -> 2 [] d = "7" -> 7]

(* The digits a word begins with, as a number. *)
Unsigned(w) ==
    LET other == SelectInSeq(w, LAMBDA d : d \notin DOMAIN Digit)
    IN  FoldLeft(LAMBDA n, d : 10 * n + Digit[d], 0,
                 IF other = 0 THEN w ELSE SubSeq(w, 1, other - 1))

(* atoi and atoll, external. *)
atoll(w) == IF w # <<>> /\ Head(w) = "-" THEN -Unsigned(Tail(w)) ELSE Unsigned(w)

(* fopen for reading, external. *)
fopen(files, name) == IF name \in DOMAIN files THEN name ELSE NULL

(* What becomes of a dump that is written to the end.  Where the system    *)
(* refuses a write the printer's callback returns 1, but nobody looks at   *)
(* that, nor at what fclose returns, and the program goes on (dump.c       *)
(* 64-72, json.c 2249-2260, main.c 54-55, 227-228).                        *)
Finished == {"result", "lacking"}

(* A file opened for writing and what is put there, external. *)
Written(files, name, what) ==
    [f \in DOMAIN files \cup {name} |-> IF f = name THEN what ELSE files[f]]

Defaults ==
    [tasksystem |-> NULL, resume |-> NULL, randomseed_jobtrace |-> 0,
     prefix |-> <<>>, breaktime |-> 60000, speed |-> 1,
     overrunbreak |-> FALSE, allow_first_overrun |-> FALSE]

Init ==
    /\ typed = <<>> /\ argv = <<>>
    /\ ps = parg_init
    /\ s = Defaults
    /\ pc = "typing"
    /\ status = "none"
    /\ disk = Disk

Exit(how) == pc' = "exited" /\ status' = how

PrefixFits(w) == Len(w) <= STATE_PREFIXBUFLEN - 1

(* struct state after option c. *)
Set(c, w) ==
    CASE c = "j" -> [s EXCEPT !.tasksystem = fopen(disk, w)]
      [] c = "r" -> [s EXCEPT !.resume = fopen(disk, w)]
      [] c = "n" -> [s EXCEPT !.prefix = w]
      [] c = "b" -> [s EXCEPT !.overrunbreak = TRUE]
      [] c = "a" -> [s EXCEPT !.allow_first_overrun = TRUE]
      [] c = "z" -> [s EXCEPT !.randomseed_jobtrace = atoll(w)]
      [] c = "t" -> [s EXCEPT !.breaktime = atoll(w)]
      [] c = "w" -> [s EXCEPT !.speed = atoll(w)]
      [] c = "word" -> s

(* An iteration of the loop over the options. *)
Option ==
    LET got == parg_getopt
        c   == got.c
        w   == got.ps.optarg
    IN  /\ pc = "options"
        /\ ps' = got.ps
        /\ \/ /\ c = "end"
              /\ pc' = "startup"
              /\ UNCHANGED <<s, status>>
           \/ /\ c \in {"h", "v"}
              /\ Exit("success")
              /\ s' = s
           \/ /\ \/ c \in {"?", ":"}
                 \/ c = "n" /\ ~ PrefixFits(w)
              /\ Exit("failure")
              /\ s' = s
           \/ /\ c \in WithArgument \cup {"a", "b", "word"}
              /\ c = "n" => PrefixFits(w)
              /\ s' = Set(c, w)
              /\ UNCHANGED <<pc, status>>
        /\ UNCHANGED <<typed, argv, disk>>

(* The checks, and the reading of the two files: a file that holds         *)
(* something else ends the program, a -r that named none is not missed.    *)
Startup ==
    /\ pc = "startup"
    /\ IF /\ s.prefix # <<>>
          /\ s.tasksystem # NULL
          /\ disk[s.tasksystem] = "tasks"
          /\ s.resume # NULL => disk[s.resume] = "dump"
       THEN pc' = "running" /\ status' = status
       ELSE Exit("failure")
    /\ UNCHANGED <<typed, argv, ps, s, disk>>

DumpName == s.prefix \o <<"_dump.json">>

(* Fault: the handler writes to the file that main writes to. *)
SignalDumpName_Same == s.prefix \o <<"_dump.json">>

SignalDumpName == s.prefix \o <<"_signal_dump.json">>

(* The simulation is over; fopen for writing empties the file, or fails. *)
OpenDump ==
    /\ pc = "running"
    /\ \/ pc' = "dumping" /\ disk' = Written(disk, DumpName, "other") /\ status' = status
       \/ Exit("failure") /\ disk' = disk
    /\ UNCHANGED <<typed, argv, ps, s>>

WriteDump ==
    /\ pc = "dumping"
    /\ \E what \in Finished : disk' = Written(disk, DumpName, what)
    /\ pc' = "dumped"
    /\ UNCHANGED <<typed, argv, ps, s, status>>

PrintResult ==
    /\ pc = "dumped"
    /\ Exit("success")
    /\ UNCHANGED <<typed, argv, ps, s, disk>>

(* The handler dumps and exits, which leaves what main was writing as far  *)
(* as it got.                                                              *)
catch_signals ==
    /\ pc \in {"running", "dumping", "dumped"}
    /\ \/ /\ Exit("success")
          /\ \E what \in Finished :
                LET dumped == Written(disk, SignalDumpName, what)
                IN  disk' = IF pc = "dumping" THEN Written(dumped, DumpName, "other")
                            ELSE dumped
       \/ Exit("failure") /\ disk' = disk
    /\ UNCHANGED <<typed, argv, ps, s>>

Main == Option \/ Startup \/ OpenDump \/ WriteDump \/ PrintResult

Next == Type \/ Enter \/ Main \/ catch_signals

Spec == Init /\ [][Next]_vars

-----------------------------------------------------------------------------
(* Properties                                                              *)

(* What the program should make of what was typed: the options count up to *)
(* the first that ends the loop; of several with an argument the last.     *)
Ends(i) ==
    \/ i.opt \in {"h", "v", "--"} \cup Others
    \/ i.opt \in WithArgument /\ i.arg = NULL
    \/ i.opt = "n" /\ Len(i.arg) >= STATE_PREFIXBUFLEN

Ending == SelectInSeq(typed, Ends)

Before == IF Ending = 0 THEN typed ELSE SubSeq(typed, 1, Ending - 1)

Verdict ==
    IF Ending = 0 \/ typed[Ending].opt = "--" THEN "go"
    ELSE IF typed[Ending].opt \in {"h", "v"} THEN "success"
    ELSE "failure"

Said(items, c) == \E k \in DOMAIN items : items[k].opt = c

Argument(items, c) == items[SelectLastInSeq(items, LAMBDA i : i.opt = c)].arg

(* The settings that options stand for. *)
Meant(items) ==
    LET given(c) == Argument(items, c)
    IN  [tasksystem |-> IF Said(items, "j") THEN fopen(Disk, given("j")) ELSE NULL,
         resume     |-> IF Said(items, "r") THEN fopen(Disk, given("r")) ELSE NULL,
         randomseed_jobtrace |-> IF Said(items, "z") THEN atoll(given("z")) ELSE 0,
         prefix     |-> IF Said(items, "n") THEN given("n") ELSE <<>>,
         breaktime  |-> IF Said(items, "t") THEN atoll(given("t")) ELSE 60000,
         speed      |-> IF Said(items, "w") THEN atoll(given("w")) ELSE 1,
         overrunbreak |-> Said(items, "b"),
         allow_first_overrun |-> Said(items, "a")]

(* However the options are put together to words - letters in one word,    *)
(* arguments in the same word or the next, arguments that look like        *)
(* options, words between them - the program runs with the settings meant, *)
(* or ends as it should (parg.c 30-67 and 156-207, main.c 95-173).         *)
Understood ==
    pc \notin {"typing", "options"} =>
        IF Verdict = "go" THEN s = Meant(Before)
        ELSE pc = "exited" /\ status = Verdict

(* A program that simulated and exits with success leaves a dump of this   *)
(* simulation that it wrote to the end, also when a signal comes while it  *)
(* writes one or when it takes the place of the file it went on from       *)
(* (main.c 48-61, 221-235).  The dump is whole if the system took all of   *)
(* it; that it did, success does not say.                                  *)
DumpLeft ==
    pc = "exited" /\ status = "success" /\ Verdict = "go" =>
        \E name \in {DumpName, SignalDumpName} \cap DOMAIN disk :
            disk[name] \in Finished

(* The loop over the options ends: each call of parg_getopt that returns   *)
(* something passes over a word or a letter (parg.c 172-206).              *)
OptionsEnd ==
    LET got == parg_getopt
        p   == got.ps
    IN  pc = "options" /\ got.c # "end" =>
            \/ p.optind > ps.optind
            \/ /\ p.optind = ps.optind
               /\ p.nextchar = NULL \/ Len(p.nextchar) < Len(ps.nextchar)
=============================================================================
