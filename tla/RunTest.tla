------------------------------- MODULE RunTest -------------------------------
(***************************************************************************)
(* run_test of src/library/include/benchmark_helpers.h and the two tests   *)
(* of benchmarks/src/flush.cpp: the coherence tests, which bring the cache *)
(* lines of the shared data into a state on one core and measure a load or *)
(* a store from another one, on the cores that arch.cfg names; and         *)
(* library/test/reader_writer.cpp, a program of its own.                   *)
(*                                                                         *)
(* A test is a vector of schedules given to a new CounterBenchmark: three  *)
(* flushers, the recipe of init_state, and the measured benchmark.  What   *)
(* an access does to a line is decided by the coherence protocol of the    *)
(* processor, modelled here as MESI or MESIF; the shared data fits in the  *)
(* caches, so that a line leaves a cache only by a flush or a write.       *)
(*                                                                         *)
(* The benchmarks chase the list that setup has left.  Line k is the node  *)
(* that comes k-th after the head, on its own cache line.  setup leaves    *)
(* shared_iter on the slot behind the data, which points to the head: the  *)
(* benchmarks start from there, so that slot's line is one of the lines.   *)
(***************************************************************************)
EXTENDS CounterBenchmark

CONSTANTS
  ArchCfg,      \* the number each line of arch.cfg begins with, or NoNumber
  Terminated,   \* whether its last line ends in a newline
  TailFlushed,  \* whether the slot behind the data shares a line with its end
  Forwarding,   \* TRUE for MESIF, FALSE for MESI
  Tests,        \* the tests the program runs, of TestTypes
  Placements,   \* the core placements it runs them in, of PlacementTypes
  MaxTests      \* bound: calls of run_test

VARIABLES
  cache,        \* the coherence state of each line on each core
  wrflag,       \* one flag per node, for producer and consumer
  accesses,     \* number of accesses the running benchmark has made
  test, place,  \* the arguments of the current run_test
  tests         \* number of calls of run_test

memVars == <<cache, wrflag, accesses, test, place, tests>>
allVars == <<vars, memVars>>

NoNumber == -1

\* Mistake: the eighth line is not read.
SevenLines(k) == ArchCfg[IF k = 8 THEN 7 ELSE k]

\* rline after the k-th getline of parse_cfg.  At the end of a file whose last
\* line has no newline, getline gives up at once and leaves what rline holds.
Rline(k) == IF k <= Len(ArchCfg) THEN ArchCfg[k]
            ELSE IF Terminated \/ ArchCfg = <<>> THEN NoNumber
            ELSE ArchCfg[Len(ArchCfg)]

\* parse_cfg: std::stoi throws on a line without a number, and nothing catches it.
Parsed == \A k \in 1 .. 8 : Rline(k) # NoNumber

\* shared_data_size / cache_line_size, where the program leaves the size that
\* parse_cfg has read or puts one of its sweep in its place.
LineCount    == Rline(1) \div Rline(3)
core_src     == Rline(4)
core_socket0 == Rline(5)
core_socket1 == Rline(6)
core_global0 == Rline(7)
core_global1 == Rline(8)

Behind == LineCount     \* the line of the slot behind the data
Line == 0 .. LineCount

CoherenceState == {"M", "E", "S", "F", "I"}

\* The state each type of test initialises, and the benchmark it measures.
StateOf == [STORE_ON_MODIFIED |-> "M", STORE_ON_EXCLUSIVE |-> "E",
            STORE_ON_SHARED_OR_FORWARD |-> "S", STORE_ON_INVALID |-> "I",
            LOAD_FROM_MODIFIED |-> "M", LOAD_FROM_EXCLUSIVE |-> "E",
            LOAD_FROM_SHARED_OR_FORWARD |-> "S", LOAD_FROM_INVALID |-> "I",
            flusher_test |-> "I", read_from_invalid_test |-> "I"]

StateTests == DOMAIN StateOf
TestTypes == StateTests \cup {"PRODUCER_CONSUMER", "FLUSH", "READER_WRITER"}
PlacementTypes == {"LOCAL", "SOCKET", "GLOBAL"}

Stores == {"STORE_ON_MODIFIED", "STORE_ON_EXCLUSIVE",
           "STORE_ON_SHARED_OR_FORWARD", "STORE_ON_INVALID"}

\* The three cores of a placement.
core_a == core_src
core_b(c) == IF c = "GLOBAL" THEN core_global0 ELSE core_socket0
core_c(c) == CASE c = "LOCAL"  -> core_src
               [] c = "SOCKET" -> core_socket1
               [] c = "GLOBAL" -> core_global1

Sched(c, b) == [core_id |-> c, benchmark |-> b]

\* Mistake: nothing flushes the line the writer has left modified.
InitStateUnflushed(s, a, b) ==
  CASE s = "M" -> <<Sched(a, "writer")>>
    [] s = "E" -> <<Sched(a, "writer"), Sched(a, "reader")>>
    [] s = "S" -> <<Sched(a, "writer"), Sched(a, "reader"), Sched(b, "reader")>>
    [] s = "I" -> <<Sched(a, "writer")>>

\* init_state: the schedules that bring all lines into state s on core a.  No
\* test asks for state F, whose schedules end with a flush.
InitState(s, a, b) ==
  CASE s = "M" -> <<Sched(a, "writer")>>
    [] s = "E" -> <<Sched(a, "writer"), Sched(a, "flusher"), Sched(a, "reader")>>
    [] s = "S" -> <<Sched(a, "writer"), Sched(a, "reader"), Sched(b, "reader")>>
    [] s = "I" -> <<Sched(a, "writer"), Sched(a, "flusher")>>
    [] s = "F" -> <<Sched(b, "writer"), Sched(a, "reader"), Sched(b, "flusher")>>

\* Mistake: the schedules in front of every test read instead of flush.
Readers(c) == <<Sched(core_a, "reader"), Sched(core_b(c), "reader"),
                Sched(core_c(c), "reader")>>

\* The flushers in front of every test but PRODUCER_CONSUMER.
Flushers(c) == <<Sched(core_a, "flusher"), Sched(core_b(c), "flusher"),
                 Sched(core_c(c), "flusher")>>

\* Mistake: flusher_test does not flush again after the recipe.
SharedOnly(c) == InitState("S", core_a, core_b(c))

\* flusher_test flushes on core a what is shared by cores a and b.
SharedThenFlushed(c) == InitState("S", core_a, core_b(c)) \o <<Sched(core_a, "flusher")>>

\* The vector a test builds.  Those of flush.cpp use the GLOBAL cores.
TestVec(t, c) ==
  CASE t = "PRODUCER_CONSUMER" ->
         <<Sched(core_a, "producer"), Sched(core_c(c), "consumer")>>
    [] t = "READER_WRITER" -> <<Sched(1, "reader_rw"), Sched(2, "writer_rw")>>
    [] t = "FLUSH" -> Flushers(c) \o <<Sched(core_a, "flusher")>>
    [] t = "flusher_test" ->
         Flushers(c) \o SharedThenFlushed(c) \o <<Sched(core_c(c), "reader")>>
    [] t = "read_from_invalid_test" ->
         <<Sched(core_a, "flusher"), Sched(core_c(c), "flusher"), Sched(core_c(c), "reader")>>
    [] OTHER ->
         Flushers(c) \o InitState(StateOf[t], core_a, core_b(c))
           \o <<Sched(core_c(c), IF t \in Stores THEN "writer" ELSE "reader")>>

MethodOf(t) == IF t \in {"PRODUCER_CONSUMER", "READER_WRITER"}
               THEN "counters_with_schedule" ELSE "counters_with_priority_schedule"

Benchmarks == {"flusher", "writer", "reader", "producer", "consumer", "reader_rw", "writer_rw"}

ASSUME RunTestAssumption ==
  /\ ArchCfg \in Seq(Nat \cup {NoNumber}) /\ Terminated \in BOOLEAN
  /\ Parsed /\ LineCount \in Nat \ {0}
  /\ TailFlushed \in BOOLEAN /\ Forwarding \in BOOLEAN
  /\ {core_src, core_socket0, core_socket1, core_global0, core_global1} \subseteq Core
  /\ Tests \subseteq TestTypes /\ Placements \subseteq PlacementTypes /\ Placements # {}
  /\ MaxTests \in Nat
  /\ Benchmark = Benchmarks
  /\ Methods = CounterMethods
  /\ Svecs = {TestVec(t, c) : t \in Tests, c \in Placements}
  /\ Warmup = 0 /\ MaxCalls = 1

-----------------------------------------------------------------------------

\* The processor.  A line is a function from cores to coherence states.

\* A load on core k: a hit, a fill from memory, or a copy from another cache.
Load(line, k) ==
  IF line[k] # "I" THEN line
  ELSE IF \A h \in Core : line[h] = "I" THEN [line EXCEPT ![k] = "E"]
  ELSE [h \in Core |-> IF h = k THEN IF Forwarding THEN "F" ELSE "S"
                       ELSE IF line[h] = "I" THEN "I" ELSE "S"]

\* A store on core k owns the line and invalidates all other copies.
Store(line, k) == [h \in Core |-> IF h = k THEN "M" ELSE "I"]

\* clflush, on whichever core, removes the line from every cache.
Flush(line) == [h \in Core |-> "I"]

-----------------------------------------------------------------------------

\* The benchmarks, as sequences of accesses.  The node visited k-th.
Visited(k) == IF k = 1 THEN Behind ELSE k - 2

\* The accesses of line_cnt iterations of a loop body that makes len of them.
Loop(len, Body(_)) ==
  [n \in 1 .. len * LineCount |-> Body((n - 1) \div len + 1)[((n - 1) % len) + 1]]

\* reader_ loads the pointer of each visited node.
ReaderAccesses == Loop(1, LAMBDA k : <<<<"load", Visited(k)>>>>)

\* writer_ loads a pointer, then stores to the node it leads to.
WriterAccesses ==
  Loop(2, LAMBDA k : <<<<"load", Visited(k)>>, <<"store", Visited(k + 1)>>>>)

\* producer_ stores to a node, loads its pointer, then decrements a flag.
ProducerAccesses ==
  Loop(3, LAMBDA k : <<<<"store", Visited(k)>>, <<"load", Visited(k)>>, <<"add", k>>>>)

\* consumer_ waits for a flag by test-and-set, then loads a pointer.
ConsumerAccesses == Loop(2, LAMBDA k : <<<<"set", k>>, <<"load", Visited(k)>>>>)

\* reader_writer.cpp passes no warm-up, so each benchmark is invoked five times
\* and then measured.  The thread holds the mutex all the time: its accesses are
\* one sequence.
Invocations == 6

Repeated(s) == [n \in 1 .. Invocations * Len(s) |-> s[((n - 1) % Len(s)) + 1]]

ReaderRwAccesses == Repeated(Loop(2, LAMBDA k : <<<<"clear", k>>, <<"load", k - 1>>>>))
WriterRwAccesses == Repeated(Loop(2, LAMBDA k : <<<<"store", k - 1>>, <<"add", k>>>>))

\* flusher_ flushes the data byte by byte, here as one access.
FlusherAccesses == <<<<"flush", 0>>>>

Accesses ==
  [b \in Benchmarks |->
     CASE b = "reader"   -> ReaderAccesses
       [] b = "writer"   -> WriterAccesses
       [] b = "consumer" -> ConsumerAccesses
       [] b = "producer" -> ProducerAccesses
       [] b = "flusher"  -> FlusherAccesses
       [] b = "reader_rw" -> ReaderRwAccesses
       [] b = "writer_rw" -> WriterRwAccesses]

\* What the caches hold after an access from core k.
AfterAccess(a, k) ==
  CASE a[1] = "load"  -> [cache EXCEPT ![a[2]] = Load(@, k)]
    [] a[1] = "store" -> [cache EXCEPT ![a[2]] = Store(@, k)]
    [] a[1] = "flush" -> [l \in Line |-> IF l # Behind \/ TailFlushed THEN Flush(cache[l])
                                                                 ELSE cache[l]]
    [] OTHER -> cache

\* Mistake: consumer_ leaves the flag down, as reader_writer.cpp does.
FlagSet == 0

\* What consumer_ stores with __sync_lock_test_and_set.
FlagUp == 1

\* Mistake: consumer_ and the reader only look at the flag.
FlagsAfterTest(a) ==
  IF a[1] = "add" THEN [wrflag EXCEPT ![a[2]] = @ - 1] ELSE wrflag

\* What the flags are after an access.
FlagsAfter(a) ==
  CASE a[1] = "add" -> [wrflag EXCEPT ![a[2]] = @ - 1]
    [] a[1] = "set" -> [wrflag EXCEPT ![a[2]] = FlagUp]
    [] a[1] = "clear" -> [wrflag EXCEPT ![a[2]] = 0]
    [] OTHER        -> wrflag

\* consumer_ tries again as long as it finds a flag 0; the reader of
\* reader_writer.cpp, which stores 0, as long as it finds another value.
Again(a) == \/ a[1] = "set" /\ wrflag[a[2]] = 0
            \/ a[1] = "clear" /\ wrflag[a[2]] # 0

-----------------------------------------------------------------------------

\* setup() or pr_co_setup() has written the shared data and the slot behind it,
\* on whichever core the program was, and raised the flags; main() of
\* reader_writer.cpp has cleared them.
InitTest ==
  /\ Init
  /\ \E k \in Core : cache = [l \in Line |-> [h \in Core |-> IF h = k THEN "M" ELSE "I"]]
  /\ test \in Tests
  /\ wrflag = [k \in 1 .. LineCount |-> IF test = "READER_WRITER" THEN 0 ELSE 1]
  /\ accesses = 0
  /\ place = (CHOOSE c \in Placements : TRUE)
  /\ tests = 0

\* The program runs no further test: reader_writer.cpp has only one.
Finished == tests = IF test = "READER_WRITER" THEN 1 ELSE MaxTests

\* run_test has built the vector and calls the method for it.
CallTest(t, c) ==
  /\ ~ Finished
  /\ t = "READER_WRITER" <=> test = "READER_WRITER"
  /\ Call(MethodOf(t), TestVec(t, c))
  /\ test' = t /\ place' = c /\ tests' = tests + 1
  /\ UNCHANGED <<cache, wrflag, accesses>>

\* Mistake: all calls of run_test share one object.
OldGate == pause
OldThreads == threads

\* pause( true ) and threads() of the constructor.
NewGate == TRUE
NewThreads == <<>>

\* run_test has returned, and its CounterBenchmark is gone; the next run_test
\* constructs another one, which pins the caller again.
Construct ==
  /\ spc = "idle" /\ calls = MaxCalls /\ ~ Finished
  /\ pause' = NewGate /\ ready' = FALSE
  /\ threads' = NewThreads
  /\ masterCore' = MasterCore
  /\ calls' = 0
  /\ UNCHANGED <<mtx, method, svec, loopVars, spc, wpc, threadVars, memVars>>

\* The measured benchmark makes its next access, from the core it is on by now.
Access(w) ==
  /\ wpc[w] = "measuring" /\ Alive
  /\ accesses < Len(Accesses[svec[w].benchmark])
  /\ LET a == Accesses[svec[w].benchmark][accesses + 1]
     IN  /\ cache' = AfterAccess(a, coreOf[w])
         /\ wrflag' = FlagsAfter(a)
         /\ accesses' = IF Again(a) THEN accesses ELSE accesses + 1
  /\ UNCHANGED <<vars, test, place, tests>>

\* It has made its last access.
EndBenchmark(w) ==
  /\ EndMeasure(w)
  /\ accesses = Len(Accesses[svec[w].benchmark])
  /\ accesses' = 0
  /\ UNCHANGED <<cache, wrflag, test, place, tests>>

\* The other steps do not touch the shared data.
Control == SchedulerStep /\ UNCHANGED memVars

Environment == (SpuriousWake \/ \E w \in Worker : PapiFails(w)) /\ UNCHANGED memVars

TestWorkerStep(w) ==
  Access(w) \/ EndBenchmark(w) \/ (WorkerControl(w) /\ UNCHANGED memVars)

\* All tests have been run, or the process has ended.
TestsHalted == (Finished \/ spc \in Dead) /\ Halted /\ UNCHANGED memVars

NextTest ==
  \/ \E t \in Tests, c \in Placements : CallTest(t, c)
  \/ Construct
  \/ Control
  \/ Environment
  \/ \E w \in Worker : TestWorkerStep(w)
  \/ TestsHalted

\* As in CounterBenchmark, the operating system runs what can run.
TestFairness ==
  /\ WF_allVars(Control)
  /\ \A w \in Worker : WF_allVars(TestWorkerStep(w))

SpecTest == InitTest /\ [][NextTest]_allVars /\ TestFairness

-----------------------------------------------------------------------------

\* The schedule the current test measures: the last of its vector.
Measured == Len(svec)

\* The benchmark that the current test is about begins its measurement.
Measuring ==
  test \in StateTests /\ svec # <<>> /\ wpc[Measured] = "measuring" /\ accesses = 0

\* A line is in state s as init_state means it.
InState(line, s, a, b) ==
  CASE s = "M" -> line[a] = "M"
    [] s = "E" -> line[a] = "E"
    [] s = "S" -> line[a] \in {"S", "F"} /\ line[b] \in {"S", "F"}
    [] s = "I" -> \A k \in Core : line[k] = "I"

LinesInState(lines) ==
  \A l \in lines : InState(cache[l], StateOf[test], core_a, core_b(place))

\* The lines that every load, and every store of writer_, reaches.
Common == 0 .. LineCount - 2

\* Schedule w ran on its own core from its beginning to its end.
InPlace(w) == measuredOn[w] = {svec[w].core_id}

AllInPlace == \A w \in 1 .. Measured - 1 : InPlace(w)

\* The recipes of init_state are right: if every benchmark before the measured
\* one ran where its schedule says, the measured load or store finds the lines
\* that all benchmarks reach in the state the test is named after, whatever the
\* caches held before.
RecipeSound == Measuring /\ AllInPlace => LinesInState(Common)

\* Wherever the benchmarks of a test run, and whenever they are moved, a test on
\* exclusive lines finds them exclusive on some core, and one on invalid lines
\* finds them nowhere: there misplaced threads change only who owns a line.
KindSound ==
  Measuring =>
    /\ StateOf[test] = "E" => \A l \in Common : \E k \in Core : cache[l][k] = "E"
    /\ StateOf[test] = "I" => \A l \in 0 .. LineCount - 1, k \in Core : cache[l][k] = "I"

\* When the flushers of a test have ended and the recipe has not begun to run,
\* no cache holds shared data, wherever the flushers ran and whatever the test
\* before left behind.
FlushedFirst ==
  ~ Scheduled /\ test # "read_from_invalid_test" /\ svec # <<>> /\ wpc[3] = "exited"
    /\ wpc[4] \in {"unborn", "lock", "waiting", "warmup"}
      => \A l \in 0 .. LineCount - 1, k \in Core : cache[l][k] = "I"

\* The measured access is served from another core or from memory: unless the
\* test is LOCAL, the core it is measured on has no copy of the lines, neither
\* from the recipe nor from the test before.  The cores of arch.cfg, the
\* flushers and the recipe have to fit together for that.
MeasuredFromOutside ==
  Measuring /\ AllInPlace /\ place # "LOCAL" =>
    \A l \in Common : cache[l][core_c(place)] = "I"

\* Whichever of producer and consumer takes the mutex first, in any sequence of
\* tests, the flags stay near 1: they are not worn down by producers whose
\* decrements no consumer undoes.  In reader_writer.cpp they never fall below
\* what one measurement of the writer takes from them.
FlagsBounded ==
  \A k \in 1 .. LineCount :
    wrflag[k] \in IF test = "READER_WRITER" THEN - Invocations .. 0 ELSE -1 .. 1

\* Every run_test returns or ends the process.  consumer_ and the reader of
\* reader_writer.cpp spin with the mutex held, so that nobody who could change
\* the flag can run: they must get on by their own test-and-set.
EveryTestEnds == spc # "idle" ~> spc \in {"idle"} \cup Dead

-----------------------------------------------------------------------------
(***************************************************************************)
(* Why it works: the invariant behind the safety properties, which relates *)
(* caches and flags to how far each benchmark of the vector has come.      *)
(***************************************************************************)

\* The test that the current vector was built for.
VecInv ==
  /\ test \in Tests /\ place \in Placements
  /\ spc # "idle" => svec # <<>>
  /\ svec # <<>> => svec = TestVec(test, place) /\ method = MethodOf(test)

\* Each object is used for one call, and reader_writer.cpp makes only one.
OneCallInv ==
  /\ calls <= 1 /\ tests \in Nat
  /\ tests = 0 => calls = 0
  /\ test = "READER_WRITER" => tests <= 1

AccessesOf(w) == Accesses[svec[w].benchmark]

\* The number of accesses that the benchmark of schedule w has made.
Progress(w) == IF wpc[w] = "measuring" THEN accesses
               ELSE IF wpc[w] \in {"notify", "exited"} THEN Len(AccessesOf(w))
               ELSE 0

\* Only the benchmark in the critical section has an open count of accesses, and
\* the core it is on counts as one it was measured on.
ProgressInv ==
  /\ accesses \in Nat
  /\ accesses # 0 => \E w \in Worker : wpc[w] = "measuring"
  /\ \A w \in Worker :
       wpc[w] = "measuring" => accesses <= Len(AccessesOf(w)) /\ coreOf[w] \in measuredOn[w]

\* What a coherent processor guarantees, and with it Load, Store and Flush, whatever
\* the program does: at most one cache owns or forwards a line, and what one owns no
\* other has.  The recipes rely on it.
CoherentLine(line) ==
  \A h \in Core :
    /\ line[h] \in {"M", "E"} => \A k \in Core \ {h} : line[k] = "I"
    /\ line[h] = "F" => \A k \in Core \ {h} : line[k] # "F"

Coherent ==
  /\ cache \in [Line -> [Core -> CoherenceState]]
  /\ \A l \in Line : CoherentLine(cache[l])

\* In PRODUCER_CONSUMER: the producer has decremented flag k, the consumer has
\* found it raised.
Produced(k) == Progress(1) >= 3 * k
Consumed(k) == Progress(2) >= 2 * k - 1

\* The values of a flag, by who has passed it in the current test.
PassedFlag(k) ==
  IF Produced(k) THEN IF Consumed(k) THEN {0, 1} ELSE -1 .. 1
                 ELSE IF Consumed(k) THEN {1} ELSE {0, 1}

\* Between tests every flag is 0 or 1: each producer has been matched by a consumer.
\* In reader_writer.cpp a flag is at least minus the number of times that the
\* writer has come past it.
FlagInv ==
  /\ wrflag \in [1 .. LineCount -> Int]
  /\ \A k \in 1 .. LineCount :
       IF test = "READER_WRITER"
       THEN /\ wrflag[k] \in - Invocations .. 0
            /\ tests = 0 => wrflag[k] = 0
            /\ tests # 0 => \A r \in 0 .. Invocations - 1 :
                  Progress(2) < 2 * LineCount * r + 2 * k => wrflag[k] >= - r
       ELSE wrflag[k] \in IF test = "PRODUCER_CONSUMER" /\ spc # "idle"
                          THEN PassedFlag(k) ELSE {0, 1}

\* A flusher that has run, with nothing after it, has left no copy of the data.
FlushInv ==
  ~ Scheduled =>
    \A w \in 1 .. Len(svec) - 1 :
      svec[w].benchmark = "flusher" /\ Progress(w) >= 1 /\ Progress(w + 1) = 0 =>
        \A l \in 0 .. LineCount - 1, k \in Core : cache[l][k] = "I"

\* The access by which each benchmark brings line l into the state it leaves.
Reaches(b, l) == CASE b = "flusher" -> 1
                   [] b = "reader"  -> l + 2
                   [] b = "writer"  -> 2 * l + 2

Reached(w, l) == Progress(w) >= Reaches(svec[w].benchmark, l)

\* Core k has the line, in state s, and no other core has it.
Only(k, s) == [h \in Core |-> IF h = k THEN s ELSE "I"]

\* The line is shared by cores a and b alone.
SharedBy(line, a, b) ==
  \A h \in Core : IF h = a THEN line[h] = "S"
                  ELSE IF h = b THEN line[h] \in {"S", "F"} ELSE line[h] = "I"

InPlaceUpTo(w) == \A u \in 1 .. w : InPlace(u)

\* What schedule w leaves in a line: the writer owns it; a reader gets it from
\* memory after a flush, has it already if it was the writer's, and else copies it.
Left(w, line) ==
  LET bench == svec[w].benchmark
      core  == svec[w].core_id
  IN  /\ bench = "flusher" => \A k \in Core : line[k] = "I"
      /\ bench = "writer" /\ InPlaceUpTo(w) => line = Only(core, "M")
      /\ bench = "reader" =>
           /\ svec[w - 1].benchmark = "flusher" =>
                \E k \in Core : line = Only(k, "E") /\ (InPlaceUpTo(w) => k = core)
           /\ svec[w - 1].benchmark = "writer" /\ InPlaceUpTo(w) => line = Only(core, "M")
           /\ svec[w - 1].benchmark = "reader" /\ InPlaceUpTo(w) =>
                IF core = svec[w - 1].core_id THEN line = Only(core, "M")
                ELSE SharedBy(line, svec[w - 1].core_id, core)

\* A line is as the last schedule that has reached it leaves it, while the
\* benchmarks before the measured one run.
LineInv ==
  ~ Scheduled =>
    \A w \in 1 .. Len(svec) - 1, l \in Common :
      Reached(w, l) /\ ~ Reached(w + 1, l) => Left(w, cache[l])

TestInv ==
  /\ VecInv /\ OneCallInv /\ ProgressInv
  /\ Coherent /\ FlagInv /\ FlushInv /\ LineInv

=============================================================================
