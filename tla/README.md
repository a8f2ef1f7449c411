# A verification of thready

thready simulates a uniprocessor that schedules a sporadic task system earliest
deadline first (EDF). This directory models it in TLA+. TLC checks the models on
small instances, and TLAPS proves the central safety properties for every task
system. Line numbers refer to `src/src/*.c` and `src/inc/*.h` of the repository.

## The system

thready is one single-threaded process. `main` reads a task system, starts a
simulation or resumes one from a state dump, runs it once up to a breaktime,
dumps the state, prints the result and exits. SIGINT and SIGTERM dump the state
and exit at any point of a run.

| component | state | operations | used by | what makes it correct |
|---|---|---|---|---|
| event loop (`eventloop.c`) | time, scheduler queue, raised job `nextjob`, counters, `had_overrun` | init, run, dump, read_json, free | main | EDF order; time never runs back or past a deadline unseen; EVL_OK at the breaktime; overruns reported rightly; every call returns |
| job generator (`jobgen.c`) | queue of future jobs, a clock per task | init, rise (pop and refill), dump, set_simtime, replace_jobq | event loop | one future job of every task; jobs of a task a period apart; arrival order |
| job queue (`job.c`, `jobq.c`) | nodes with a job and a priority | insert_by, pop, peek, dump | generator, event loop | the first job comes out; ties do not displace the running job; a dump leaves the queue alone |
| binary heap (`pqueue.c`) | array, size, available slots | insert, pop, peek | job queue | heap order across each iteration of its loops; no slot outside the array; no node lost |
| task system (`ts.c`, `task.c`) | list of tasks, constant after reading | read_json, get_by_pos, get_by_id, get_pos_by_id | generator, restore | tasks have distinct ids and admissible parameters |
| dump and restore (`dump.c`, parts of `eventloop.c`) | the file | dump, read_json | main, signal handler | a resumed simulation goes on where the dumped one ended |
| unrolled list (`selist.c`, ISC library) | chain of nodes of at most 30 elements | push, pop, get, delete, length | reading of both files | behaves as a sequence |
| program and signals (`main.c`) | pointers to all of the above | option parsing, signal handler, atexit cleanup | - | a signal leaves a usable dump; nothing is freed twice |
| JSON library (`json.c`, vendored) | parser: state, stack, buffer; printer: what it just printed | parse a block, print an event | reading and writing of all files | what is printed is read back, also from a cut file; no block overflows; structures close as they opened; a comment is a space or is refused; numbers keep their values |
| option parser (`parg.c`, vendored) | place in `argv` and in a word | getopt | main | the options meant are those read, in whatever words; every call gets on |
| random numbers (`rnd.h`, vendored; `stats.c`) | generator state | draw | generator | - |

The components interact by plain calls and share jobs by pointer: a job is in the
generator's queue, is then `nextjob`, then in the scheduler queue, and is freed
when it is finished. The difficult parts are these.

- The loops of `eventloop_run` cut time into windows: up to the next arrival or
  the breaktime, shortened for an expected overrun. Zero-length windows, rounded
  divisions, early ends and four kinds of return meet there.
- `nextjob` is a local variable during a call, in no queue, and must survive
  each return.
- Ties decide which job the loop believes to be running.
- The dump and the restore are two halves of a crash-recovery protocol with a
  format read by position.
- Asynchronous signals use the same state at any instruction.
- Both files pass through a parser that is a table of 37 states by 34 classes with
  a stack and a growing buffer beside it, and through a list whose nodes are split
  and merged while it is read by position.

`PROJECT.json` lists the hazards one by one, each at its line.

## Modules

| module | models | extends |
|---|---|---|
| `JobQ` | jobs; a queue as its set of jobs plus the job at its root | - |
| `JobGen` | task system and generator | `JobQ` |
| `EventLoop` | `eventloop_init` and each step of `eventloop_run`; the refinement mapping to `EDF` | `JobGen` |
| `EDF` | abstract: what eventloop.h promises | - |
| `MCEventLoop` | instances, the promise that calls return | `EventLoop` |
| `EventLoopProofs` | proofs about `EventLoop` | `EventLoop` |
| `PQueue` | the array of `pqueue.c`, its sift loops by iteration, `jobq_dump` | - |
| `PriorityQueue` | abstract: the operations of `JobQ` as atomic steps | `JobQ` |
| `MCPQueue` | instance | `PQueue` |
| `PQueueProofs` | proofs about `PQueue` | `PQueue` |
| `DumpRestore` | processes that simulate, dump, exit and are resumed; dumps edited or cut | `EventLoop` |
| `MCDumpRestore` | instance | `DumpRestore` |
| `DumpRestoreProofs` | proofs about `DumpRestore` | `DumpRestore`, `EventLoopProofs`, `SequenceLemmas` |
| `Signals` | signals at any point of them, and what the exit frees | `DumpRestore` |
| `MCSignals` | instance | `Signals` |
| `SignalsProofs` | proofs about `Signals` | `Signals`, `DumpRestoreProofs` |
| `List` | abstract: a sequence with the calls of a list | - |
| `SEList` | the unrolled list and the loop that clears it | - |
| `MCSEList` | instance | `SEList` |
| `SequenceLemmas` | lemmas on sequences and on sequences of sequences | - |
| `SEListProofs` | proofs about `SEList` | `SEList`, `SequenceLemmas` |
| `JsonTables` | the classes of bytes, the transition and buffer tables | - |
| `JsonParser` | the parser as operators on its struct | `JsonTables` |
| `JsonPrinter` | the printer as operators on its struct | - |
| `JsonFile` | a file, who writes it, the parser and the callback that read it | `JsonParser`, `JsonPrinter` |
| `MCJsonFile` | instance | `JsonFile` |
| `JsonProofs` | proofs about `JsonFile` | `JsonFile`, `SequenceLemmas` |
| `Program` | the command line, `parg_getopt`, `main`, its files and exits | - |
| `MCProgram` | instance | `Program` |
| `ProgramProofs` | proofs about `Program` | `Program`, `SequenceLemmas` |

So `EventLoop` uses queues with atomic operations, and `PQueue` shows that the
heap, with its loops, provides them: `HeapImplementsQueue` says that each
behaviour of the heap is one of `PriorityQueue`, whose steps are the operators
`jobq_insert_by` and `jobq_pop` of `JobQ` that the generator and the event loop
are written with.

### How state and actions correspond to the code

**JobQ.** A job is a record of the five fields of `struct job`. A queue is a set
of jobs and its `head`. The head is state because of ties: `bubble_up` stops at an
equal priority, so an insertion changes the root only if the new job is strictly
first, while a pop may leave any of the first jobs at the root, depending on the
shape of the heap. `WriteRoot` is the write through the pointer `jobq_peek`
returned. Within a queue, jobs are identified by task and start time.

**JobGen.** `TaskSystem` maps a task id to its parameters. A random demand
(`uniform3`) is a choice from the ranges of the segments that can be drawn, a
random delay (`exponential`) a choice from `Rho`. Probabilities are integers out
of 100. A task whose demand can be drawn as 0 is excluded by `TaskAssumption`
(jobgen.c:109 asserts it).

**EventLoop.** The variables are `struct eventloop`, the arguments of the call
in progress, the locals that live across steps, and `pc`. One action is one pass
of code between two loop heads: `CalcRuntime` (lines 88-144), `SpendBudget` and
`FinishJob` (145-184, each with the deadline check and the return it may lead
to), `StopAtBreaktime` (185-192), `StopAtOverrun` (193-201), `Arrival` (202-211).
`Call` picks the arguments. `InitFirst` and `InitSecond` are the two `jobgen_rise`
of `eventloop_init`. `evl->currentjob` is left out because every value stored in
it is overwritten before it is read. `overflowing` is the job that the message
at line 125 names.

**PQueue.** `d`, `size` and `avail` are those of `pqueue_t`; `moving` and `i` are
the node that is carried and the hole it left, `head` the node a pop will
return. One action is one loop iteration. Slots from `size` on are set to `NULL`,
so a comparison with a stale slot would be visible. While `jobq_dump` pops its
memcpy copy, `d` and `size` are the copy's and `saved` the original's. Priorities
are keys modulo `PriValues` (2^64 in the code): the signed key is stored in an
unsigned word.

**DumpRestore.** `eventloop_dump` writes, and `Restore` reads, a list of
numbers: the time, then five per job, which is all that `callback_append` takes
from the JSON text. `Dumps` are the lists there may be: `uniq` sorts by address, that
is, in any order, and the order matters on ties only. `Restored` is the loop over
the list, as a recursive function of the number of its turns; `Enqueue` is one turn. `DropJob` is a user who edits the dump, as lines 318 and
356 expect. `RestoreFirst` and `RestoreSecond` are the two `jobgen_rise` at 369
and 370. The variables of the dead process keep their values until `Restore`
overwrites them, which lets `JobsKept` compare before and after.

`CutFile` is a dump whose end is lost; `RestoreAborts` is the assertion in
`selist_get` at which a list that ends within a job stops the program.

**Signals.** `catch_signals` may come at every state between two actions of
`EventLoop`, and within one: `InSpendBudget`, `InFinishJob` and `InArrival` are
what the memory holds between the writes of that action, in the order of the
code. A queue changes at once: a heap torn in the middle of `bubble_up` is left
out. `freed` collects the jobs this process freed, so that `CleanupFreesOnce`
can say what `atexit_cleanup` would do.

**SEList.** The chain of nodes is a sequence of nonempty sequences. Recursion
down the chain (`selist_get`, `selist_delete`) is the search for the node that
has the position. `Clear` is an iteration of the loop at eventloop.c:346.

**JsonTables, JsonParser, JsonPrinter.** A byte is a number, a state, class or
action has the name of its enumerator. The transition table of 37 rows is the set of
its moves, from a state with some classes to a state or an action; where there is
no move the table has an error. The buffer table is a set of pairs likewise. A function of the C code that changes the struct is an operator from
record to record, with the return value in the field `ret` and what the callback
got in `calls`; an early return is a record with an error. `json_parser_char` is
one iteration of `json_parser_string`: blocks of 1024 bytes make no difference,
for nothing is done at their ends.

**JsonFile.** `Write` and `PrintEvent` produce the next bytes, `Read` parses one;
`reader` is `errno` and the list of `callback_append`. Every state is also the
state after a file that was cut off there. `twin` is an observer: a second parser
that reads a space where the file has a comment, whether or not the parser takes it.
`RoundedToMin` are the texts that `strtof` rounds to FLT_MIN (1.1754943e-38 is one),
at which the program exits.

**Program.** `typed` is what the user means and `argv` one of the ways to type
it; `Option` is an iteration of the loop at main.c:95. `Set` is the switch.
A file's content is abstracted to `"tasks"`, `"dump"`, `"other"` or, once this run
has written its own dump to the end, `"result"`, or `"lacking"` if the system refused
some of the writes, which the program does not notice. A word is a sequence of `Characters`.

Definitions below a comment that starts with `Fault:` are faulty variants of
code, one for each checked property; each was seen to break its property.

## Runs

| run | bounds | shows |
|---|---|---|
| `event_loop_edf` | 2 tasks, delay 0 or 1, breaktimes 4 and 7, speeds 1 and 2, no `-b`, calls go on after EVL_OK and EVL_PASS | types; no waiting job past its deadline unseen; arrival order; windows within arrival and breaktime; generator complete and sporadic; EVL_OK at the breaktime; refinement of `EDF` |
| `event_loop_resume` | breaktimes 4 and 10, speeds 1 and 2, all of `-a` and `-b`, calls go on after every result | the inductive invariant; no job lost or duplicated between calls; time monotone; each call returns |
| `heap` | 7 jobs, 4 priorities with ties, initial room for 2 | heap order at every iteration; peek is first; a dump is sorted, complete and harmless; refinement of `PriorityQueue`; each operation ends |
| `dump_restore` | 2 tasks with periods 2 and 4, breaktimes 3, 4 and 6, speeds 1 and 2, with and without `-b`, one resume, any jobs dropped, any end cut off | order, deadlines, clocks and raised job after a resume; separation of jobs across it; a NULL `nextjob` only from a dump without jobs to come; a task with a job to come in the dump goes on releasing; only the first of the jobs to come may be scheduled early; EVL_OVERRUN without `-a` at speed 1 names a job that has worked past its budget |
| `signals` | 2 tasks, the second of which may exceed its budget and miss, breaktimes 3, 4 and 6, speeds 1 and 2, with and without `-a` and `-b`, a signal anywhere in one process, then a resume | no queued job lost but the two in hand, none repeated, no run ends at its breaktime over a deadline that had passed, an exit between calls frees each job once |
| `selist` | nodes of 4 filled up at 2 or fewer (30 and 15 in the code), up to 10 elements of 2 kinds | refinement of `List`; nodes at least half full; the clearing loop empties the list |
| `json` | up to 6 words of 27, or 5 events of 14, thready's configuration and two with 2 levels and 7 bytes and with 3 levels and 4 bytes, which allow C comments and both kinds; initial stack of 1 and buffer of 2 bytes, memory for blocks of 16; integers up to 127, exponents up to 8, one float that becomes FLT_MIN | no access outside a block; structures, texts and numbers well formed; a comment is a space, or is refused for its kind or its place; what is printed is read back up to where the file ends; every number in the list with its value, or an exit at one that demands it |
| `program` | up to 3 options or words and a last option without its argument; prefixes of up to 2 characters; a file to resume from that the dump replaces | settings as meant, or the right exit; a dump written to the end after success; the option loop gets on with each call |
| `first_overrun_reported`, `overrun_past_breaktime`, `resume_loses_job`, `signal_frees_twice` | the smallest that show the disagreement | violations, see Findings |

Why these bounds are enough. Two tasks, one of which may exceed its budget and
then makes the system unschedulable at speed 1, produce preemption, ties in
arrival and in deadline, idle time, misses of the running and of a waiting job,
overruns at, before and after an arrival, and windows of length zero; with
periods 3 and 4, and 2 and 4, the breaktimes lie before, at and after arrivals
and span more than two periods. Speed 2 makes computation not divisible by
speed. Seven nodes fill three levels, with an only child, and make the array
grow twice. Nodes of 4 and 10 elements give lists of up to five nodes, in which
every branch of `selist_delete` is taken at the first, a middle and the last node.
The words of a JSON file have every state and class of the table among them, also
both halves of a surrogate pair, and the small blocks make the stack grow and the
buffer grow in the middle of a `\uXXXX` and reach their limits. The arguments a
user may type include the empty one, one that looks like an option and one as
long as the room for it. The breaktimes and, in `DumpRestore`, `Restores` bound the
behaviours; no other counter needs a bound, since a call stops at its breaktime
and a return that may be followed by another call without progress is followed
only by finitely many different states. `Restores` is 1 because a second resume
may put two future jobs of one task in the generator, which then releases equal
jobs, and a queue is a set here.

Deadlock is not checked where the caller may make no further call, the file may
end or the program has exited. In `PQueue` it is.

**Fairness.** There is one thread and nothing in the code blocks, so weak
fairness is assumed for the steps of an operation in progress only: `Run` (the
steps of `eventloop_run`), `Sift` and `DumpStep` (the loops of the heap and of
`jobq_dump`). Nothing obliges a caller to make a call.

## Findings

1. `first_overrun_reported`: with `-a`, the tolerated first overrun ends the run
   after all if an arrival interrupts the job past its budget: its overruntime is
   then 0 and the next window takes it for a second overrun.
2. `overrun_past_breaktime`: above speed 1 the overrun instant, computed in units
   of work, is taken as a time. The job may be finished earlier, the shortened
   window is taken for a whole one, and the run ends with EVL_OK past its
   breaktime.
3. `resume_loses_job`: `nextjob` is not in the dump.
4. `signal_frees_twice`: in a run `evl->nextjob` is stale; after a signal the exit
   frees a job in the scheduler queue through it a second time.

Known divergences that are part of the model and no property forbids:

- Overruns are looked for only in the job at the root when a window starts
  (line 98). A job that becomes the root later in the window overruns and
  finishes unnoticed, against inc/eventloop.h:89-90.
- A resume schedules the first job to come before it arrives (line 374).
  `EarlyOnlyFirst` says that it is the only one.
- A job of the generator that arrives exactly at the dumped time is taken for one
  that has arrived (line 328), and its task never releases again. The same
  happens to a task all of whose jobs were dropped or cut off.
  `DumpedTaskReleases` says that it happens to no other.
- A dump without jobs to come leads to a NULL dereference at line 90
  (`NextJobThere`). The program itself writes no such dump unless it is cut.
- A dump that was cut off after a whole job is resumed without an error.
- A signal may dump a job that is already late. With an overruntime of 0 it gets
  windows of length 0 (lines 100-118), so a resumed run with `-b` ends in
  EVL_OVERRUN before it looks at the deadline. `MissNotHidden` says that none ends
  at its breaktime over it.
- A float out of range makes the program refuse an integer that comes next in the
  file (dump.c:130), and a float just below FLT_MIN ends it (dump.c:112), though an
  overflow, which gives an infinity and not FLT_MAX, does not. `NumbersFaithful` says
  that it ends at no other number but an integer out of range.
- A comment right after a float with an exponent is an error (json.c:974, 996), while
  a space there is not (json.c:963-965). `CommentsNeutral` says that this is the only
  place where a comment that is allowed is refused.
- A write of a dump that fails goes unnoticed: the printer ignores what its callback
  returns (dump.c:64-72, json.c:2249-2260), main and the handler what fclose does
  (main.c:55, 228), and the program exits with success. `DumpLeft` says only that the
  dump was written to the end, and not that the system took all of it.
- With an overruntime equal to the computation demand the job that overran has nothing
  left to do when EVL_OVERRUN is returned, for line 109 has `<=`; the comment at line
  111 has the overruntime at c1 + 1. `OverrunGenuine` says that c1 is passed.
- A comment before the document counts as a document (`json_parser_is_done`,
  which thready never asks).
- `-r` with a file that cannot be opened starts a new simulation (main.c:121).

## What is proved

All proofs hold for every task system, set of delays, set of breaktimes and
speeds (speed 0 included, where a theorem does not exclude it), under
`JobGenAssumption` and `EventLoopAssumption`: at least one task, positive periods,
non-negative deadlines and demands, no demand of 0. For the heap they hold for
every set of jobs, every integer key, every word size and every initial size. For
the unrolled list they hold for all elements, positions and node sizes whose limit
is positive and at most half the size (`SEListAssumption`; selist.c:24-27 has 30
and 15): above half, a node that gives an element away could itself fall below
the limit, and `selist_delete` refills no second node. For the JSON parser they
hold for every byte a file may hold, every configuration, default and memory
size, as long as sizes stay below 2^32 (`JsonConfigAssumption`: the defaults are
positive). For the command line they hold for every set of characters with the
letters of the options, all words and arguments, any number of them, any files and
any room for the prefix (`ProgramAssumption`: a word that is meant as none of the
options does not begin with a dash, unless it is a dash).

**EventLoopProofs.** `Invariance` proves the inductive invariant `IInv`, and the
other theorems follow from it: `TypeCorrect`, `DeadlinesSafe`
(`NoUndetectedMiss`), `ArrivalsOrdered`, `WindowsBounded`, `TimeNeverBackwards`.
Most of `IInv` is `LoopInv`, the part that is also true of a resumed process.
None of these is inductive alone. That no waiting job passes its deadline unseen
needs that the worked-on job has the least deadline (`SchedulerOrdered`), that
work does not overtake the next arrival (`WindowBounded`) and that a new job
arrives before its deadline. Time at an `Arrival` does not jump over work only
because a window with a non-empty queue ends exactly at the arrival, the
breaktime or the overrun instant (`WindowExact`). The raised job is the next to
arrive because the generator's queue is ordered and its clocks are not behind it
(`GeneratorInv`). There is one lemma per action, and lemmas for the queue
operators, the generator (`GeneratorInit`, `GeneratorRise`) and the rounding of a
finished job's time (`FinishWithin`).

In the same module, `GeneratorCovers` and `TaskSystemSporadic` share the
invariant `SepInv`. That the jobs of a task are a period apart is not inductive:
what is needed is that all jobs of a task that wait anywhere are a period apart
(`InLine`) and each a period behind the task's clock (`Ahead`), so that the job
the next refill creates fits too; and that the raised job, which is in no queue,
is counted among them. `EndsAtBreaktime` (for `OverrunBreak = {FALSE}`) needs that
between windows nothing of the window is left unless the scheduler queue is empty
(`OKInv`, `ProgressOK`); with overrun breaks it is false, see Findings.

`EventLoopIsEDF` is the refinement of `EDF` (`ImplementsEDF`): the ready jobs are
those of the scheduler queue, and each step is a preemption, a completion, a miss, a
release, idle time or a stutter. What must be shown is that the root is an
earliest job of the abstract scheduler (`ReadyRoot`), that the rounded end of a job
takes the least time that suffices (`FinishLeast`), that a declared miss is one
(`SpendIsEDF`, `FinishIsEDF`), and that no time is skipped before an arrival
while jobs are ready (`ArrivalIsEDF`). That no two jobs are taken for one needs
`SepInv`. Two hypotheses are needed: `0 \notin Speeds`, since at speed 0 time
passes and no work is done, and `"EVL_DEADLINEMISS" \notin ContinueAfter`, since
`EDF` ends with a miss.

`OverrunsGenuine` (for callers who run on after EVL_PASS at most) needs
`OverrunInv`: a window that was shortened for a strict caller is exactly as long
as the work the root still has to do to its overrun, which is within its
computation, so it is used up by that job alone and ends in EVL_OVERRUN.
`JobsAreConserved` (for `Rho = {0}`, so that the clock of a task counts the jobs
it has released) needs `ConsInv`: every clock stands at a multiple of its period,
and the jobs that are done are finitely many.

**DumpRestoreProofs.** The proofs follow the life of a file. `DumpEffect`: what
`eventloop_dump` writes begins with the time and has each job of both queues once, in
five numbers (`Lists`). `FileStep`: a dropped job or a lost end leaves a part of the
records (`PartOf`), and each is still a job that can be resumed (`FileOK`). `AllFilled`: an induction over the turns of the loop (its recursive
function is unique by the library's theorem) shows that the queues hold the
records that are due and those to come, and that a clock stands a period after a
job of its task. `RiseEffect` then takes the two first jobs from the generator.

What a resumed process has in common with a new one is `LoopInv`, the part of
`IInv` that does not depend on how the queues were filled: not `ArrivalOrder`, since
the first job to come is scheduled early, nor that every task has a job to come, nor
`NoUndetectedMiss`, since a signal may dump a late job. That no job is late in a
program that is left to exit is `DumpOnTime`, which says it of the file too.
`DumpInv` says that `LoopInv` holds at every point of a simulation with a job to
come, and what is known in between: after `Restore`, after the first rise, in a
process that has exited, and in one without a job to come, which can only be idle or
crash. It gives `NextJobIsThere` and `DumpedTasksRelease`. `OnlyFirstIsEarly` adds
`EarlyInv`: a job in the scheduler queue that has not arrived is the one the restore
put there, since every other is put there at its arrival and time does not run back.
These hold for any number of resumes, and so does `ResumedOverrunsGenuine`, with the
hypothesis of `OverrunsGenuine`; beyond the first, jobs that are equal in all fields
count as one, since a queue is a set.

`ResumedInOrder` and `ResumedSporadic` have the hypothesis `Restores <= 1`. They
need that the jobs of a task in the file are a period apart and at most one of them
is to come (`FileSeparate`), so that its clock is not behind it. That is true of the
first dump, and not of a dump of a resumed simulation: there the job that was
scheduled early may be dumped before it arrives, beside the next job of its task,
and both go to the generator. `ResumeSepInv` is then `SepInv` with what the
file says, and a step of the event loop preserves it by the lemmas of
`EventLoopProofs`.

**SignalsProofs.** Whatever moment the handler interrupts, what it finds are the jobs
that are in a place, with perhaps less left of the one at the root and the raised
job in both queues, one or neither, and time has not gone back (`ImageForm`, from
one lemma for each of `InSpendBudget`, `InFinishJob` and `InArrival`). So its dump
is one that `DumpRestoreProofs` is about, and `DumpInv` holds here too
(`SignalInvariance`). `MissesAreFound` adds `LateInv`: while a job is late the
window has time left, so the loop must look at it again, and time stands still until
it is found (`NextDumpLate`); it holds for any number of resumes.
`SignalledSporadic` needs that what the handler finds in a first process is a period
apart, an arriving job in both queues being the same job (`ImageApart`), and that
until then no job is late or early (`FirstInv`). `ExitsFreeOnce` needs
that every finished job came a period or more before all of its task that are still
to come (`FreedInv`), so that none of them has its identity. `QueuedJobsAreKept` follows the
records of the file through the loop of the restore (`KeptInv`, `ListsAll`) and has
the hypotheses that the dump is neither edited nor cut. The last three are about
one resume, for the reason given above.

**PQueueProofs.** `HeapInvariance` proves `HeapInv`: types with every access in
the array (`TypeOK`), no node twice (`NoneTwice`), heap order across the hole
(`HeapOrdered`: what is below the hole fits below what is above it, and the moving
node fits next to what it passed), the order of the queue being dumped
(`SavedOrdered`), and what a hole at the root still shows (`StaleRoot`).
`DumpIsSorted` adds `DumpInv`: what has been listed is sorted and comes before all
that is left in the copy.
`PeekReturnsFirst` derives that the root is first of all nodes; the induction
along a path is an argument about a least slot that violates it
(`LeastElement`). `HeapImplementsQueue` is the refinement: insertions map to the
write that ends `bubble_up`, pops to the one that ends `percolate_down`, all
other steps to stuttering.

**SEListProofs.** `SEListInvariant` proves `SEListInv`: every node but the last
holds between limit and maximum of elements, and while the clearing loop counts down
nothing is left at or beyond the position it has reached. `NodesAreFilled` and
`ClearingEmpties` follow. `SEListIsList` is the refinement of `List` by the
concatenation of the nodes: `NodeFound` says that the descent of `selist_get` and
`selist_delete` ends at the node that has the position, `RefillKeeps` that
borrowing from or merging with the next node does not change the concatenation
(`RefillFills`: and restores the limit), `DropEmpty` that a node without an element
can go. **SequenceLemmas** has what this needs of `FlattenSeq`, which the library defines
by recursion: the unique function that satisfies its equation (`Recursion`,
`FlattenUnique`), associativity of concatenation, and how the concatenation
changes when one or two neighbouring nodes are replaced or removed
(`FlattenReplace`, `FlattenRemove`).

**JsonProofs.** `ParserInBounds` proves `InBounds` of `FileSpec`: the parser writes
no byte outside its two blocks. Two facts are needed that `InBounds` does not say. A
block always grows: a full buffer that is not at its limit is doubled or set to the
limit, either of which leaves room for a byte and the ending 0 (`GrowBuffer`). And
a character is written over the four digits it was read as, so these must be in the
buffer: `HasDigits` counts them while they come in, and holds because only
hexadecimal digits lead from one state of `\uXXXX` to the next and all of them are
kept (`Moves`, `HexKept`, each over the whole table), because no action ends in one
of these states (`DoActionRoom`), and because a character is no longer than its
digits (`UTF8Short`). The contents of buffer and stack do not matter, so there is no
induction over the file: the invariant is about one byte, whatever it is.

`CallsAreNested` and `DoneIsComplete` prove `WellNested` and `DoneMeansComplete`. The
parser looks at its state and the mode on top of the stack, never at what it gave the
callback, so `NestInv` has to say how these agree: the stack is `Open(calls)`, and in
each kind of state (`Position`) a key or a value may come next (`KeyFits`,
`ValueFits`), with `expecting_key` to tell which in a string. Two things are hard to
see in the code. A number or a literal reaches the callback only with the byte after
it, so in state `OK` the value may be given or pending, and `type` tells which; and a
comment may come anywhere, so `Position` is about the state it ends in (`Resumed`). The
transition table enters as one lemma over its rows (`Leading`: from which states
each action is taken), each action as one that it leads from `Position` to `Position`
(`DoColon` to `DoCommentEnd`), and `CharNest` puts them together for any byte. `Open`
is a recursive function; that it exists and grows by one event at a time
(`OpenExists`, `OpenAppend`) uses `Recursion` and `Induction` of `SequenceLemmas`.

`NumbersAreFaithful` follows the calls of one byte through `callback_append` one after
the other (`AppendAllSteps`). `NumberInv` is the property, with what the last float has
left in `errno` (`LastOut`). One more call does not change which of the calls
before it the program had to exit at, nor the place of their numbers (`ExitsAppend`,
`NthAppend`), so there is one lemma for a call that is no number (`OtherNumber`), and
one for a number of each kind (`FloatNumber`, `IntNumber`). The values enter as
`strtoimax`, which for an integer in range is its value. One thing is not in the property: a byte may give
the callback two events, and the program, having exited at the first, does not see the
second. No number is lost by that only because the second is never a number (`Tells`:
a comma or a bracket ends a number, and what it adds itself is the end of a structure).

`CommentsAreNeutral` runs the parser beside its twin. `CommentInv` has three parts.
Outside a comment the two are `Twins`, equal but for the state that a comment leaves
behind in `save_state`; or the parser is `Pending`: a comment ended a text, so that it
gave the callback what the twin still holds, and the two are equal again once the twin
has (`do_buffer`). In a comment the parser is `Suspended`: it has given its text away
and remembers the state the twin is in. The lemmas `...Alike` say that whatever the
parser does, it does the same to two parsers that are `Alike`; the table enters with
where comments start and end (`CommentMoves`), where a space leads from there
(`SpaceMoves`), and where a byte that could start a comment outside of a string does
not (`FirstMoves`, `BeginningChar`): after a float with an exponent only, which is the
refusal the property allows beside that of the kind. Where a comment starts between two texts, the parser empties a buffer
the twin keeps: `Emptied` is the invariant that there is nothing in it.

`TextsAreWellFormed` needs what is in the buffer, byte by byte; with `NestInv` and
`Emptied`, `TextInv` is inductive. In a state of a number the buffer holds a certain
part of one (`NumberForm`), and the type that was noted is that of the part: a point
or an exponent makes a float of an integer. Of a part the lemmas `DigitAfterSign` to
`DigitInExponent` say what one more byte makes of it, and `IntText` and `FloatText`
that in the states in which a number may end it is what `IsIntText` and `IsFloatText`
ask for. In a state of a string the bytes that are still to come of a character
(`Left`, a fold) are as many as the parser waits for, which one counts in the buffer
and the other in the file; `BytesAppend` keeps them together, an escape is a byte of
ASCII (`EscapeAscii`), and four digits, taken off the end again (`CutFour`), give a
number below U+110000 (`FourDigits`, `TwoHalves`) whose bytes are a character
(`CharacterShape`). A text that waits in state `OK` for the byte after it is complete
(`Waits`), and so is every text the callback has got (`CallsFine`). The table enters as
two lemmas over its rows: which classes lead where in a text (`TextMoves`), and which
of their bytes are kept (`TextKept`).

**ProgramProofs.** The parser keeps no more than an index and the rest of a word, and
what the user means is not in the words: the same word may be two options, or an
option and its argument, or the argument of the option before it. So `ProgInv` says
that the words can be divided as they were typed (`Layout`: where each option
begins, one after the other, to the end of the last word), that the parser is at
the beginning of one of them (`Ready`), and that the settings are what the options
before it stand for, none of which ends the loop (`ReadUpTo`). Typing keeps the
division (`LineKept`, `LetterTyped`): what was typed before stays where it was, since
a word gets longer only behind its last option and only while that needs no argument.
`GetsWord` and `GetsLetter` say that from the beginning of an option `parg_getopt`
returns that option with its argument and stops at the beginning of the next, and
that it passes over something, which is `LoopEnds`. `MeantNext` says that the switch
of `main` adds to the settings what the option stands for, the last of several being
the one that counts, and `EndingIs` that the option that ends the loop is the first
that should. `OptionsUnderstood` follows. `DumpsAreLeft` needs that the two dumps
have different names for every prefix (`TwoDumps`), for the handler writes while
`main` has the other open. What is in a dump is chosen when it is written, so the
theorem holds whatever the system refuses.

**Only model-checked:** what every call or operation must eventually do
(`RunTerminates`, `OperationEnds`), which is out of the prover's reach; and
`RoundTrip` of `JsonFile`, which is about a whole printed file read again: its proof
would need what the printer writes for every event, by induction over the text.

## What is not modelled

- Overflow of the 64-bit times, and negative times, in the event loop; the heap
  has signed keys.
- Speed 0 in the runs (the proofs cover it): after a miss at speed 0, repeated
  calls count events without end.
- A task with `low > high` in a segment, duplicate task ids, and `selist_to_ts`,
  which takes the numbers of a task file by position and reads a probability
  written as an integer through a float pointer (ts.c:131): its result is the
  constant `TaskSystem`.
- Failed allocations, at which the code exits or, in the JSON parser, returns an
  error (there `Memory` bounds a block); sizes of 2^32 in the parser.
- What an earlier file leaves in `errno`: `JsonFile` reads one file, with `errno` 0 when
  it is opened, while a resume reads the task system and then the dump.
- Which bytes are lost of a dump when a write fails: a cut file is one case
  (`CutFile` in `DumpRestore`, any prefix in `JsonFile`), a gap is not.
- A signal that comes between two writes within a queue operation, or while a
  signal's dump is being written.
- `pqueue_remove`, `pqueue_change_priority`, `jobgen_refill_all`,
  `selist_insert`, `selist_find` and the other list functions, `json_print_args`,
  the DOM helper of the JSON library, `parg_getopt_long` with long options and
  `parg_reorder`: nothing in the program calls them. The index a heap node keeps
  for the first two is left out with them.
- The random numbers themselves (`rnd.h`, `stats.c`): a draw is a choice among
  the values it can yield.
- The wording of output.

## Plan

What would come next, in this order: `DumpRestore` with a second resume (queues as
bags, since equal jobs may then meet); `TaskFile`, `selist_to_ts` with the two kinds of
numbers in the list; and a proof of `RoundTrip`, printer and parser side by side.
