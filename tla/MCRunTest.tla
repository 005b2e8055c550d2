------------------------------ MODULE MCRunTest ------------------------------
(***************************************************************************)
(* Small instances of RunTest, with the cores of library/arch.cfg, and     *)
(* what the repository's README says of the initialised states.            *)
(***************************************************************************)
EXTENDS RunTest

MCCore  == 0 .. 3

\* library/arch.cfg, with fewer lines of shared data.
TwoLines   == <<128, 32768, 64, 1, 2, 3, 2, 3>>
ThreeLines == <<192, 32768, 64, 1, 2, 3, 2, 3>>
MCSvecs == {TestVec(t, c) : t \in Tests, c \in Placements}

ExclusiveTests == {"STORE_ON_EXCLUSIVE"}
SharedTests == {"LOAD_FROM_SHARED_OR_FORWARD"}

\* Of the two tests on shared lines, whose recipe is by far the longest, one.
CoherenceTests == TestTypes \ SharedTests

\* The tests of producer_consumer.cpp, which runs them one after the other, and
\* reader_writer.cpp.
FlagTests == {"FLUSH", "PRODUCER_CONSUMER", "READER_WRITER"}

Local  == {"LOCAL"}
Global == {"GLOBAL"}

-----------------------------------------------------------------------------

\* README.md:44 says "Able to set coherence state programmatically": when the
\* measured benchmark begins, the lines that all benchmarks reach are in the
\* state the test sets up.
StateInitialised == Measuring => LinesInState(Common)

\* The same of all lines of the shared data, if no thread is misplaced.
AllLinesInitialised == Measuring /\ AllInPlace => LinesInState(0 .. LineCount - 1)

=============================================================================
