# microrev in TLA+

microrev measures how long a load or a store takes when the cache line it
touches is in a given coherence state on a given core. It is a small library
(`src/src/library`) and programs that use it (`src/src/benchmarks`,
`src/src/library/test`). Its results are numbers, and nothing in the code
notices when a number was measured under other conditions than the program
says: a thread on another core, two benchmarks at once, a line in another
state. These modules say what the conditions are and check which of them the
code guarantees.

## 1. The system

| component | state it keeps | operations | talks to |
|---|---|---|---|
| `CounterBenchmark` (`include/thread_utils.h`) | mutex, condition variable, `threads`, atomics `pause` and `ready` | constructor, `pin_to_core`, `counters_with_schedule`, `counters_with_priority_schedule`, `counter_thread_fn` | creates a thread per schedule; calls the benchmark and the counter from it |
| coherence tests (`BENCHMARK_INIT` in `include/benchmark_helpers.h`) | globals `shared_data`, `shared_iter`, `wrflag`, the core numbers | `parse_cfg`, `setup`, `pr_co_setup`, `init_state`, `run_test`, benchmarks `reader_`, `writer_`, `flusher_`, `producer_`, `consumer_`; `reader_writer.cpp` | reads `arch.cfg`, builds vectors of schedules, calls `CounterBenchmark`; its accesses change the caches |
| linked list (`setup`, `include/shuffle.h`, `cacheline.cpp`, `rd_latency.c`) | a vector of pointers, the shared data | `shuffle_array`, `set_shuffled_linked_list`, `init_stride`, `allocateRandomArray`, the unrolled timing loops | traversed by the benchmarks |
| `PAPILLCounter` (`counter.h`, `counter.cpp`) | `cset`, `measured`, `vec_cycles_measured`, `cycles_measured`, `event_set` | `init`, `add`, `start`, `read`, `reset`, `end`, `stats`, `print_stats` | PAPI; `dump.dat` |
| report (`dump.dat`, `scripts/*.py`) | the file, the dictionary of results | header by `run_test`, block by `stats`, labelled block by `a_measurement.cpp`, `parser.py`, `a_parser.py` | read what all runs of all programs appended |
| `avg_no_overflow` (`lib/benchmark_helpers.cpp`), `flush.cpp` | the vectors of cycles | average of 64-bit cycles, the sweep over sizes | `flush.cpp` gives it the results of its tests |

Hard behaviours. Threads, scheduler and wake-ups interleave freely, and both
sides share one condition variable; the scheduler pins a thread that may be
running or gone already; an object may be used for several calls, with either
method; the recipes of `init_state` are right only as exact sequences on exact
cores, and what the last test left in the caches is still there when the next
one starts; `setup` leaves a global iterator in a place the benchmarks depend
on. Failures are few: an affinity call or a PAPI call that fails ends the
process.

What makes each component correct:

- scheduler: benchmarks exclude each other; the priority method keeps the order;
  every schedule is measured exactly once, on its core; no thread outlives the
  call; every call ends; an object can be used again;
- coherence tests: when the measured benchmark starts, the lines it touches are
  in the state the test is named after, whatever ran before;
- linked list: a traversal visits every node once before it repeats;
- counter: what is printed is the measured invocation, warm-up excluded;
- report: each number is filed under the test that produced it;
- average: no intermediate overflow changes the result.

## 2. Modules

`CounterBenchmark` models class `CounterBenchmark`. One action is one step of
the calling thread (`Call`, `CountersFail`, `Spawn`, `Pin*`, `Release`, `NotifyAll`,
`NotifyOne`, `Await`, `Join*`, `Finish`) or of a worker (`Acquire`, `WarmUp`,
`BeginMeasure`, `EndMeasure`, `WakeOne`). `spc` and `wpc` are their program
counters; `threads` holds handles, with `NotJoinable` for a joined
`std::thread`. A `lock_guard` block of the scheduler is one step that needs the
mutex to be free. A worker holds the mutex from `Acquire` to `EndMeasure`, so
its ownership is a variable. Waiting is the control state `"waiting"`; a
notification moves a waiter back to where it takes the mutex and tests its
predicate, and `SpuriousWake` may do so at any time. `masterCore` is the core of
the calling thread, which new threads inherit, and `measuredOn` is a history
variable with the cores a measurement ran on. Three facts about the
environment enter the model: pinning a thread that has ended but is not joined
acts on the caller (glibc passes the kernel thread id, which is 0 by then),
joining a joined thread throws, and the affinity and PAPI calls may fail, those of
the counters' constructors, before the first thread, included.

`SerialSchedule` is the abstract specification: a call hands over benchmarks,
each runs once, one at a time, in order if asked for; the call returns when all
are done. `CounterBenchmark` instantiates it as `SS`.

`RunTest` extends `CounterBenchmark` with `run_test`: `TestVec` builds the
vector of a test and placement (three flushers, `InitState`, the measured
benchmark; the two tests of `flush.cpp` have vectors of their own), `CallTest`
gives it to the method, `Construct` stands for the new `CounterBenchmark` of the
next `run_test`. Which cores there are is what `parse_cfg` makes of the lines of
`arch.cfg` (`Rline`), a file that may be too short included. Each access of a
measured benchmark is a step (`Access`), performed from the core the thread is on
at that moment, and moves the lines between the MESI or MESIF states (`Load`,
`Store`, `Flush`; external). `wrflag` is the array by which producer and consumer
talk, and by which the two threads of `reader_writer.cpp` do, a program that uses
the scheduler without `run_test`. The benchmarks follow the list as `setup` leaves
it: `shared_iter` is behind the data, so the slot there is visited first and the
last node is never loaded.

`Shuffle` models `shuffle_array`, one action per iteration with any candidate,
and `LinkedList` extends it with the four functions that lay a list out in
memory and with the timing loop that chases it. Memory is a function on pointer
slots, so that a stride below the size of a pointer does what it does in the
code. Its invariant `StartsBehind` is what justifies the order
of visits in `RunTest`.

`PAPILLCounter` models one counter from its constructor, which asks PAPI for the
number of hardware counters, to the last print, in the order in which
`counter_thread_fn`, the benchmark and the program call it, or in that of
`icache_linear.cpp`, which resets and prints around every invocation. Events and
cycles of an invocation are one number, its cost, so that a result tells which
invocation it comes from; `printed` keeps the blocks in the order of the prints.

`Report` models the file between the programs and the two parsers: the headers
and blocks that `run_test` appends, the labelled blocks of `a_measurement.cpp`
and the bare ones of `reader_writer.cpp`, and the loop of `scripts/parser.py` or
`scripts/a_parser.py`, line by line, with the exceptions that it can end with. A
line carries, as history, the run, counter and print that wrote it.

`AvgNoOverflow` models `avg_no_overflow` with its conversions between signed and
unsigned numbers for integers of any width; `Half` is 2^63 in the code.
`FlushSweep` extends it with `main()` of `flush.cpp`, which runs a test again and
again, collects the cycles of the counters that have events, has their average
printed and clears the vector for the next size.

`MC...` modules hold the constants of the runs, and what the repository's
comments and READMEs say that the code does not do. `...Proofs` modules hold
the proofs. Operators whose comment begins with "Mistake" are plausible errors in
the definition that follows; they are used to see that each property would
notice.

```
SerialSchedule <--implements-- CounterBenchmark <--extends-- RunTest
Shuffle        <--extends----- LinkedList        ...order of visits in RunTest
AvgNoOverflow  <--extends----- FlushSweep
PAPILLCounter (one counter)    Report (dump.dat and its two parsers)

CounterBenchmark <-- CounterBenchmarkReuse <-- CounterBenchmarkProofs <-- RunTestProofs --> RunTest
Shuffle <-- ShuffleProofs <-- LinkedListProofs --> LinkedList
FlushSweep <-- AvgNoOverflowProofs             PAPILLCounter <-- PAPILLCounterProofs
Report <-- ReportProofs
```

## 3. Runs

Run a configuration with `tlc -config X.cfg M`.

| run | configuration, module | bounds | shows |
|---|---|---|---|
| `scheduler` | `MCScheduler.cfg`, `MCCounterBenchmark` | 3 cores, vectors of 0 to 3 schedules, 3 calls of both methods, 1 warm-up | exclusion, order, cores, the return, reuse, liveness, refinement |
| `coherence` | `MCRunTest.cfg`, `MCRunTest` | 12 of the 13 tests, across sockets, the 4 cores of `arch.cfg`, 3 nodes and the slot behind, MESIF | the states the measured access finds, and that they are not on its own core |
| `producer_consumer` | `MCProduce.cfg`, `MCRunTest` | 3 tests in a row of FLUSH and PRODUCER_CONSUMER, locally, or `reader_writer.cpp`; 2 nodes, MESI | flags, no blocking, flushers, the gate of every new object, and the inductive invariant `TestInv` |
| `linked_list` | `MCLinkedList.cfg`, `LinkedList` | 5 nodes, every shuffle, pointers of half and of twice the stride, one iteration of the timing loop (100 or 60 loads) | one cycle, what a chase visits, which stores leave the block |
| `counter` | `MCPAPILLCounter.cfg`, `MCPAPILLCounter` | the 10 ways programs use a counter, all but that of `cacheline.cpp`, 2 costs, 3 hardware counters or none | each print shows the measured invocation, but for the cycles of PRODUCER_CONSUMER, which are added up; `CounterInv` |
| `report` | `MCReport.cfg`, `MCReport` | 4 runs over 6 keys of 4 kinds of programs, 2 aborts, both parsers | values are filed once, under their test, and `ReportInv` |
| `average` | `MCAverage.cfg`, `MCAvgNoOverflow` | 2 sizes in both loops, up to 5 tests for each, 5-bit numbers | no addition wraps, the average is exact and of the right tests; `SweepInv` |
| `scheduler_core` | `MCCoreZero.cfg`, `MCCounterBenchmark` | one call | finding 1 |
| `state_initialised` | `MCStateInit.cfg`, `MCRunTest` | one shared-state test | finding 2 |
| `flush_report` | `MCFlushReport.cfg`, `MCReport` | 2 runs | finding 3 |
| `cacheline_warmup` | `MCCacheline.cfg`, `MCPAPILLCounter` | one counter | finding 4 |
| `latency_accesses` | `MCAccesses.cfg`, `LinkedList` | 4 nodes, 2 iterations | finding 5 |

Why the bounds are enough. *Scheduler:* three threads are the least with which
one can be running, one waiting at the gate and one not yet waiting; three calls
are the least with which an object can be used cleanly, soiled by
`counters_with_schedule`, and used again. *Coherence:* lines do not influence
each other, so three nodes and the slot behind give each kind of line (first, middle,
last, behind) its own; the fourth core is the scheduler's, on which a misplaced
thread runs. SOCKET differs from GLOBAL in the numbers of the cores only, and
LOCAL, in which cores a and c are the same, is in `producer_consumer` and
`state_initialised`. Of the two tests on shared lines, which have most of the
states and the same vector up to the measured access, `coherence` has the store and
`state_initialised` the load. All tests of this run start in any of the states
`setup` leaves; sequences of tests are in `producer_consumer`. *List:* the loads of one
iteration of the timing loop are at least ten times round the list, and the two
pointer sizes are the two cases there are: nodes that hold a pointer and more,
and strides that the iterator does not move for. The shuffle and `avg_no_overflow`
are also proved for all sizes. *Report:* the parsers carry over from test to test
only the key and the dictionary, so two runs of one key, another key and aborts
are all the combinations there are; the fourth run and the second abort are for a
block that goes astray over an aborted run of another program. Its properties are
proved for any number of runs and aborts. *Average:* with
five numbers the accumulator can turn negative before the last one; two sizes are
a size that has one before it and one that has none, in each of the two loops.
The program's 200 tests are `Rounds`.

In `MCRunTest.cfg`, `FlushedFirst`, `KindSound` and `RecipeSound` differ in what
they take for granted: the first holds wherever the flushers run,
the second wherever everything runs, the third says what the recipes promise if
every benchmark in front of the measured one stayed on its core. That they do not
always stay there is finding 2.

`CHECK_DEADLOCK` is on everywhere; the places where the program really stops
(`Halted`, `TestsHalted`, `Shuffled`, `Chased`, `Done`, `Stopped`, `Returned`,
`Swept`) are stuttering disjuncts of their own.

**Fairness.** `CounterBenchmark` and `RunTest` assume weak fairness of the
scheduler's steps and of each worker's steps: the operating system runs every
thread that can run, and a mutex that is free is eventually taken by a thread
that asks for it. A waiting thread has no step until it is notified, so no
wake-up is promised. Nothing is assumed of a new call, a failing PAPI call, or a
spurious wake-up: no property relies on them. The sequential modules state no
fairness; only their safety is checked.

## 4. Findings

1. `scheduler_core`. After the first pass of `counters_with_priority_schedule`
   the gate is open, so that a thread may run and end before `pin_to_core`
   reaches it (`thread_utils.h:216`). Its kernel thread id is 0 by then, and the
   affinity call moves the caller: the scheduler leaves core 0, against
   `thread_utils.h:95`, and threads it creates later inherit the wrong core.
2. `state_initialised`. For the same reason a reader of the S_STATE recipe may
   run on the scheduler's core, and core_b has no copy of the lines when the
   measured benchmark starts.
3. `flush_report`. FLUSH writes a header and no block; `parser.py` takes the next
   header for a value (`parser.py:22`) and ends with a ValueError, although that
   next test has results (`HasResults`). `producer_consumer.cpp` runs FLUSH in front
   of each of its tests.
4. `cacheline_warmup`. `PAPILLCounter::reset` does nothing without events, so
   `cacheline.cpp` averages its warm-up into the result.

5. `latency_accesses`. In `standalone/rd_latency.c` `FIVE` is `ONE ONE ONE`, so
   that its loop makes 60 loads where it counts 100: the latency it prints is
   three fifths of the true one. The macros of the other programs are right.

Three more configurations, which are not among the runs, end with a
counterexample that a reader of the code should know:

- `MCWaits.cfg` (`MCCounterBenchmark`): the root of findings 1 and 2, `pause` is
  never set again, so that later threads do not wait for the scheduler, as
  `thread_utils.h:138` says they do;
- `MCAllLines.cfg` (`MCRunTest`): since `shared_iter` starts behind the data, a
  reader does not load the last node; after the E_STATE recipe that line is in
  no cache although every thread was in place;
- `MCAverageLimit.cfg` (`MCAvgNoOverflow`): the test at
  `benchmark_helpers.cpp:25` compares unsigned, so a negative accumulator is
  always lifted; a number within the vector's length of the largest signed one
  then wraps. Cycles are far below that.

Some properties say exactly how far the code goes wrong, since nothing in the
repository says that it does not:

- `OnlyCloseOverruns`: the closing store of three of the four list functions
  (`benchmark_helpers.h:262`) goes to the slot behind the allocated block; no
  other store does;
- `VisitsEveryNode`: with a stride below `sizeof(char*)`, as `b_latency.cpp` has
  for its smallest lists, every pointer goes to one slot and the chase stays
  there (`Places`);
- `FiledRight`: the block of a program that writes no header, here
  `reader_writer.cpp`, is filed by `parser.py` under the header of a run that
  was aborted right before it (`Strayed`). Without such an abort it is skipped,
  unless the header is that of FLUSH, which has no block of its own; the keys of
  the run leave FLUSH out, and the theorem has the hypothesis `NoFlush`;
- `PrintsMeasured`: every print adds the mean of the pushed cycles again
  (`counter.cpp:250`), so that the first block of PRODUCER_CONSUMER, which
  `counters_with_schedule` prints, is right and the second one, which `run_test`
  prints, holds twice the cycles. `FiledRight` says that `parser.py` files the first;
- `FiledRight` and `AboutOf`: `parser.py` files the first block of a test only,
  so that of PRODUCER_CONSUMER the time stamp of the consumer is not used.

Noted only: the macro `R1024` of `icache_linear.cpp` repeats its argument 1021
times.

## 5. Proofs

`tlapm M.tla` checks a module; every leaf is proved.

**`CounterBenchmarkProofs`** and the lemmas in `CounterBenchmarkReuse` (assume
`ConstantsAssumption`: cores, schedules and bounds are what their names say).
`Invariance` proves `Spec => []IInv`, from which all safety properties of the
class follow: `MutualExclusion`, `Order`, `SafeReturn`, `FirstCallPinned`,
`ReadyIsFresh`, `CleanCalls` and the action property `ClearsJoined`.
`Implementation` proves that every step of `CounterBenchmark` is a step of
`SerialSchedule` or stutters under the mapping `SS`. The safety properties are not
inductive, and `IInv` adds, besides the types,

- `MutexInv`: the worker between the gate and its end owns the mutex. This alone
  gives mutual exclusion;
- `IndexInv`, `BornInv`: where the loop over the vector is and which workers
  exist: the scheduler may be late, but only by the pass it is in;
- `HandleInv`: every live worker has a handle that the join loop has still to
  come to; so at the end of the loop, and at the return, all workers are gone;
- `OrderInv`: when a pass of the priority method begins, the passes before have
  ended. It needs `HandleInv` and gives `PriorityOrder`;
- `MeasuredInv`: an ended worker has measured somewhere, which `SafeReturn`
  needs;

and about what an object keeps from call to call

- `JoinedInv`: what the join loop has come past is joined, hence `ClearsJoined`;
- `ReadyInv`: `ready` is off between calls, and on only when some benchmark of
  this call is over; in the first pass that can only be the first one;
- `CleanInv`: old handles come first in `threads`, so that the first pin of a call
  hits one of them if there are any; a call that gets past it has as many handles
  as it has made threads;
- `NewInv`, `HeldInv`, `OwnInv`, `PlacedInv`: the gate of a new object is closed
  until `Release`, so that in the passes before it every worker waits, the pinned
  handle is that of the pass, and a worker is on its core before it can run. Any
  later pin of this call comes after the first worker has ended (`OrderInv`) and
  moves another one. They say nothing of the passes after the gate has been
  opened, where finding 1 comes from.
- `FreshInv`: on an object that is used for one call, or only through
  `counters_with_priority_schedule`, the pins and joins meet handles of this call
  (`FreshReusable`).

**`RunTestProofs`** (assumes `RunTestAssumption`: `arch.cfg` can be parsed and
names cores that exist). Every step of a test is a step of `CounterBenchmark` or
the construction of a new object, so `SchedulerInvariance` carries `IInv` over to
any sequence of tests, and with it `PinnedBeforeBenchmark` and, because run_test
uses an object once, `Reusable`. `TestInvariance` proves `TestInv`, in which
`Progress`, the number of accesses each benchmark of the vector has made, ties
control to data:

- `FlagInv`: the value of a flag by which of producer and consumer have come past
  it, and how far below zero the writer of `reader_writer.cpp` can have taken it.
  It gives `FlagsBounded`, and that every flag is 0 or 1 when a test begins;
- `FlushInv`: a flusher that has run, with nothing after it, leaves no copy;
- `LineInv`: a line is as the last schedule that has reached it leaves it (`Left`):
  the recipes are followed line by line, because a benchmark reaches one line after
  the other;
- `Coherent`: what the processor that `Load`, `Store` and `Flush` describe
  guarantees anyway. It is no property of the program, and no run checks it by
  itself, but the steps of a recipe can be followed only with it.

From it follow `FlushedFirst`, `KindSound` (wherever the threads are),
`RecipeSound` and `MeasuredFromOutside`. The last two need what `library/arch.cfg`
provides: cores a and b of a recipe are two cores, and core c is neither of them.
They are hypotheses of the theorems and not assumptions of the module, since
`parse_cfg` checks nothing.

**`ShuffleProofs`** (assumes `SizeAssumption`: N is a positive number). After
each choice the vector holds a path of `i` nodes and the candidates are the rest
(`PathInv`), of which there are N - i (`CountInv`). Closing the path of N nodes
gives `OneCycle`; a positive count gives `NeverEmpty`.

**`LinkedListProofs`** (assumes `ListAssumption`: sizes and strides are multiples of
a pointer that is not larger than a stride, as powers of two are). `LayoutInv` says
what has been stored after `j` stores, and which slots. When the list is closed, a
chase follows a path (`IsWalk`) through all places that leads back to its beginning
or, with `setup`, to the second place. That there is one is `SingleCycle` for
shuffled lists; `ChaseInv` says where on it the chase is. It gives `VisitsEveryNode`
for every number of loads, `StartsBehind` and `OnlyCloseOverruns`. TLC holds that
`ListInv` is true on `MCLinkedList.cfg`, but takes minutes to enumerate the
candidates for the path, so it is in no run.

**`PAPILLCounterProofs`**. `CounterInv` says what each control state tells of the
calls made before it, and where the events and the cycles are from. It gives
`AssertHolds` and `PrintsMeasured`, for every number of invocations, events and
prints. `SoundUse` is what `PrintsMeasured` asks of a program: cycles that a
benchmark pushes are printed in the end only, and not after a warm-up without events
(finding 4). How often they are printed does not matter, since `PrintsMeasured` says
of the i-th print what it holds: `CyclesInv` keeps `cycles_measured` at as many times
the cost as there were prints.

**`AvgNoOverflowProofs`** (assumes `AverageAssumption` and `Roomy`: every number
plus the length of its vector is at most the largest signed number). `res` and
the accumulator together always stand for the sum so far (`NothingWrapped`), and
the accumulator stays above minus the length (`AccumulatorInv`): a remainder that
was lifted by `size` then still leaves room for the next number. `Division` and
`Conversion` are the facts on C's arithmetic behind it. The average is exact in
the end. `MCAverageLimit.cfg` shows that `Roomy` is needed. For `flush.cpp`
(`SweepAssumption`: vectors of as many cycles as there are rounds are inputs) the
history `sum` is related to the sum of a sequence, which is a fold over it
(`SumAppend`), and `SweepInv` says whose results are in the vectors: that of a loop
has one for each test run for this size, that of the loop to come is empty.
`AveragesOwn` follows. Folds are recursive functions over the subsets of the indices,
and tlapm has no induction to reason about them; `Least` takes its place: a statement
that fails for some number fails for a least one.

**`ReportProofs`**. What the programs append is always a sequence of complete
headers and blocks (`Blocks`), so `FileInv` says of each line of `dump.dat` what
stands next to it (`Complete`), that runs which were not aborted are there
(`WrittenInv`), and what comes first behind the header of a run: its own first
block, if it was written (`FirstBlockInv`). `ReadInv` then says where a parser is:
behind a header, a label or a value of one block and past all others (`BlockInv`),
so that it has filed everything behind the headers or labels it has come past
(`AllFiledInv`) and nothing else (`OnlyFiledInv`); only the key filed last can be
without values, and only right behind its header or label (`HolesInv`), where a
file cannot end with a table: `NoHoles`. This holds for all programs.
`ValuesFiledRight`, `RunsNotLost` and `CompleteRunsParsed` have the hypothesis
`NoFlush`, since FLUSH leaves a header without a block though it was not aborted
(finding 3). `producer_consumer.cpp` is the only program that calls `run_test` with
it. `CompleteRunsParsed` is by induction of its own on top of
`ReportInv`. Concatenations of blocks are folds as well; those of up to five parts are
related to `\o` by `FlattenSteps`, again with `Least`.

Only model-checked: liveness (`EveryCallEnds`, `EveryTestEnds`) and the fairness
of `SerialSchedule` in `RunsSerially`, which the provers do not reach.

## 6. Not modelled

- `PMCCounter`: FreeBSD only, has neither the `reset` nor the `end` that the
  scheduler calls, and no program uses it.
- `time_utils`: reads the time stamp counter.
- `init_state.h`: an older copy of the recipes, included nowhere.
- The demoter: no schedule names it.
- The CSV files of both scripts, whose table is the last thing `Report` models.
- `profiling/src/thread_v_pthread.cpp`, which starts and joins one thread, and
  `standalone/branch_predictor.c`, whose loop is counted by assembler directives.
- The sweeps of the programs other than `flush.cpp`: they repeat independent
  tests and keep nothing between them.
- The arithmetic loops in `library/test`: they print counters and assert nothing.
  The uses of counters, the flags and the lists of these programs are modelled.
- `src/condor`, the build files and the thesis.
- A missing `arch.cfg`, which ends the program before anything happens.
- Replacement of lines in a cache by other lines (the shared data is taken to
  fit), and rounding of `long double`.

## 7. Plan

Order of the modules: the scheduler first (everything measured depends on it),
then the coherence tests on top of it, the list they chase, then the way of a
number from the counter to the report, and the average. These stand, and their
safety properties are proved. Next: an abstract specification of the coherence
tests (a test is a state, then one measured access) that `RunTest` implements when
every thread stays in place.
