----------------------------- MODULE FlushSweep -----------------------------
(***************************************************************************)
(* main() of src/benchmarks/src/flush.cpp.  For every working set size it  *)
(* runs one of its two tests again and again, collects the cycles of the   *)
(* measured benchmark, prints their average, and clears the vector; first  *)
(* with read_from_invalid_test, then with flusher_test.  What the tests do *)
(* to the caches is in RunTest; here a test is the counters it gets back.  *)
(***************************************************************************)
EXTENDS AvgNoOverflow, SequencesExt

CONSTANTS
  Cycles,     \* the cycles a measured benchmark may take
  Rounds,     \* numbers of tests for each size to try; the program has 200
  SizeCount   \* the length of shared_sizes

ASSUME SweepAssumption ==
  /\ Cycles \subseteq 0 .. 2 * Half - 1
  /\ Rounds \subseteq Nat /\ SizeCount \in Nat \ {0}
  /\ \A r \in Rounds : [1 .. r -> Cycles] \subseteq Inputs

VARIABLES
  rounds,   \* how often it runs each test
  loop,     \* the loop it is in: 1 or 2
  sizeNo,   \* the index of the size
  k,        \* tests it has run for this size
  cycles,   \* invalid_cycles and flush_cycles
  origin,   \* history: which test and counter each result is from
  phase     \* control state

sweepVars == <<rounds, loop, sizeNo, k, cycles, origin, phase>>
averageVars == <<first, accumulator, res, sum, average, returned>>

TestOf == <<"read_from_invalid_test", "flusher_test">>

\* The counters of a test: those of flushers have neither events nor cycles, those
\* of the recipe have cycles, the last one has both.
Flusher  == [cset |-> 0, cycles |-> <<>>]
Recipe   == [cset |-> 0, cycles |-> <<1>>]
Reader(c) == [cset |-> 2, cycles |-> <<c>>]

CountersOf(t, c) ==
  IF t = "flusher_test"
  THEN <<Flusher, Flusher, Flusher, Recipe, Recipe, Recipe, Flusher, Reader(c)>>
  ELSE <<Flusher, Flusher, Reader(c)>>

InitSweep ==
  /\ Init /\ nums = <<>>
  /\ rounds \in Rounds
  /\ loop = 1 /\ sizeNo = 1 /\ k = 0
  /\ cycles = <<<<>>, <<>>>> /\ origin = <<<<>>, <<>>>>
  /\ phase = "test"

\* m.cset.size() != 0
IsMeasured(m) == m.cset # 0

\* Mistake: the recipe's counters, which have cycles, are not left out.
PushTimed(results, m) ==
  IF m.cycles # <<>> THEN Append(results, m.cycles[1]) ELSE results

\* results.push_back( m.vec_cycles_measured[0] ), for a measured counter only
PushMeasured(results, m) ==
  IF IsMeasured(m) THEN Append(results, m.cycles[1]) ELSE results

\* A test returns, and the cycles of its measured counters are pushed.
RunOne(c) ==
  /\ phase = "test" /\ k < rounds
  /\ cycles' = [cycles EXCEPT ![loop] = FoldLeft(PushMeasured, @, CountersOf(TestOf[loop], c))]
  /\ origin' = [origin EXCEPT ![loop] =
                  [t \in DOMAIN cycles'[loop] |-> IF t \in DOMAIN @ THEN @[t] ELSE <<loop, sizeNo>>]]
  /\ k' = k + 1
  /\ UNCHANGED <<nums, averageVars, rounds, loop, sizeNo, phase>>

\* A PAPI or affinity call fails in a test: the process ends.
ExitSweep ==
  /\ phase = "test" /\ k < rounds
  /\ phase' = "exit"
  /\ UNCHANGED <<vars, rounds, loop, sizeNo, k, cycles, origin>>

\* avg_no_overflow is called with the vector.
CallAverage ==
  /\ phase = "test" /\ k = rounds
  /\ nums' = cycles[loop]
  /\ phase' = "average"
  /\ UNCHANGED <<averageVars, rounds, loop, sizeNo, k, cycles, origin>>

RunAverage ==
  /\ phase = "average" /\ ~ returned
  /\ Empty \/ CarryLow \/ CarryHigh \/ Add \/ Return
  /\ UNCHANGED sweepVars

\* Mistake: the results stay.
OldResults(v) == v

\* invalid_cycles.clear(), flush_cycles.clear()
NoResults(v) == [v EXCEPT ![loop] = <<>>]

\* The average is printed; the next size, the next loop, or the end.
NextSize ==
  /\ phase = "average" /\ returned
  /\ cycles' = NoResults(cycles) /\ origin' = NoResults(origin)
  /\ nums' = <<>>
  /\ first' = 1 /\ accumulator' = 0 /\ res' = 0 /\ sum' = 0
  /\ average' = 0 /\ returned' = FALSE
  /\ k' = 0
  /\ sizeNo' = IF sizeNo < SizeCount THEN sizeNo + 1 ELSE 1
  /\ loop' = IF sizeNo < SizeCount THEN loop ELSE 2
  /\ phase' = IF sizeNo = SizeCount /\ loop = 2 THEN "exit" ELSE "test"
  /\ UNCHANGED rounds

Swept == phase = "exit" /\ UNCHANGED <<vars, sweepVars>>

NextSweep ==
  \/ \E c \in Cycles : RunOne(c)
  \/ ExitSweep \/ CallAverage \/ RunAverage \/ NextSize \/ Swept

SpecSweep == InitSweep /\ [][NextSweep]_<<vars, sweepVars>>

-----------------------------------------------------------------------------

\* The sum of the numbers of a sequence.
Total(v) == FoldSeq(+, 0, v)

\* The average that is printed for a size is that of the measured benchmarks of
\* this size and of this test, one for each time it was run: nothing of the size
\* before, of the other test, or of the recipes is in it.
AveragesOwnTests ==
  returned =>
    /\ origin[loop] = [t \in 1 .. rounds |-> <<loop, sizeNo>>]
    /\ nums = cycles[loop] /\ ToSet(nums) \subseteq Cycles
    /\ average = IF rounds = 0 THEN 0 ELSE Total(nums) \div rounds

-----------------------------------------------------------------------------

(***************************************************************************)
(* Why it works: an invariant from which it follows.                       *)
(***************************************************************************)

\* The history variable of avg_no_overflow is what its name says, and it returns
\* behind the last number only.
SumInv ==
  /\ sum = Total(SubSeq(nums, 1, first - 1))
  /\ returned => first = size + 1

\* One result for each test that was run for this size, and none of the loop to come.
ResultsInv ==
  /\ rounds \in Rounds /\ loop \in {1, 2} /\ sizeNo \in 1 .. SizeCount
  /\ k \in 0 .. rounds
  /\ cycles \in [{1, 2} -> Seq(Cycles)] /\ DOMAIN origin = {1, 2}
  /\ Len(cycles[loop]) = k
  /\ origin[loop] = [t \in 1 .. k |-> <<loop, sizeNo>>]
  /\ loop = 1 => cycles[2] = <<>> /\ origin[2] = <<>>

\* Between two calls avg_no_overflow has nothing to do; it is called with the results
\* of all tests.
CallInv ==
  /\ <<>> \in Inputs
  /\ IF phase = "average" THEN k = rounds /\ nums = cycles[loop]
     ELSE nums = <<>> /\ averageVars = <<1, 0, 0, 0, 0, FALSE>>

SweepInv == IInv /\ SumInv /\ ResultsInv /\ CallInv

=============================================================================
