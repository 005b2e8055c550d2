---------------------------- MODULE RunTestProofs ----------------------------
(***************************************************************************)
(* Proofs about RunTest, for every number of lines and flags, every choice *)
(* of cores in arch.cfg, both protocols and any sequence of tests.         *)
(*                                                                         *)
(* Every step of a test is one of CounterBenchmark or the construction of  *)
(* a new object, so the invariant of CounterBenchmark carries over.  The   *)
(* parts of TestInv are then proved from two facts: what an access does,   *)
(* and that no other step changes how far a benchmark has come.            *)
(***************************************************************************)
EXTENDS RunTest, CounterBenchmarkProofs

-----------------------------------------------------------------------------
(***************************************************************************)
(* The scheduler under run_test.                                           *)
(***************************************************************************)

\* A test is a call that CounterBenchmark may be given.
LEMMA TestIsCall ==
  ASSUME NEW t \in Tests, NEW c \in Placements
  PROVE  MethodOf(t) \in Methods /\ TestVec(t, c) \in Svecs
  BY RunTestAssumption DEF MethodOf, CounterMethods

\* Each step of the tests is a step of the scheduler and its threads, or the
\* construction of the next object.
LEMMA TestSteps == [NextTest]_allVars => [Next]_vars \/ Construct
  <1> SUFFICES ASSUME [NextTest]_allVars PROVE [Next]_vars \/ Construct
    OBVIOUS
  <1>1. ASSUME NEW t \in Tests, NEW c \in Placements, CallTest(t, c) PROVE Next
    BY <1>1, TestIsCall DEF CallTest, Next
  <1>2. CASE Control \/ Environment \/ TestsHalted
    BY <1>2 DEF Control, Environment, TestsHalted, Next
  <1>3. ASSUME NEW w \in Worker, TestWorkerStep(w) PROVE [Next]_vars
    BY <1>3 DEF TestWorkerStep, Access, EndBenchmark, Next, WorkerStep
  <1> QED BY <1>1, <1>2, <1>3 DEF NextTest, allVars

\* A new object is as the constructor leaves it, and no thread of the old one is
\* left.
LEMMA ConstructStep == IInv /\ Construct => IInv'
  <1> SUFFICES ASSUME IInv, Construct PROVE IInv'
    OBVIOUS
  <1> USE DEF loopVars, threadVars
  <1>1. /\ pause' = TRUE /\ ready' = FALSE /\ threads' = <<>>
        /\ masterCore' = MasterCore /\ calls' = 0
        /\ UNCHANGED <<mtx, method, svec, i, j, spc, wpc, warm, coreOf, measuredOn>>
        /\ spc = "idle"
    BY DEF Construct, NewGate, NewThreads
  <1>2. threads' \in Seq(Worker \cup {NotJoinable}) /\ Len(threads') = 0
    BY <1>1, EmptySeq
  <1>3. TypeOK'
    <2>1. MasterCore \in Core /\ 0 \in Nat
      BY ConstantsAssumption
    <2>2. TypeOK
      BY DEF IInv
    <2> QED BY <1>1, <1>2, <2>1, <2>2 DEF TypeOK
  <1>4. MutexInv' /\ IndexInv' /\ BornInv' /\ OrderInv' /\ MeasuredInv'
    BY <1>1 DEF IInv, MutexInv, IndexInv, BornInv, OrderInv, MeasuredInv, Running, Scheduled
  <1>5. HandleInv' /\ JoinedInv' /\ ReadyInv'
    BY <1>1 DEF IInv, HandleInv, JoinedInv, ReadyInv, Quiet, Passing
  <1>6. CleanInv' /\ FreshInv'
    <2>1. AllJoined'
      BY <1>2 DEF AllJoined
    <2> QED BY <1>1, <2>1 DEF CleanInv, FreshInv, OnlyCleanCallsFinish, Reusable, Passing
  <1>7. NewInv' /\ HeldInv' /\ OwnInv' /\ PlacedInv' /\ PinnedBeforeBenchmark'
    BY <1>1 DEF NewInv, HeldInv, OwnInv, PlacedInv, PinnedBeforeBenchmark, Held
  <1> QED BY <1>3, <1>4, <1>5, <1>6, <1>7 DEF IInv

\* No test breaks the invariant of the scheduler.
LEMMA IInvStep == IInv /\ [NextTest]_allVars => IInv'
  BY StepIInv, ConstructStep, TestSteps

\* The invariant of the scheduler holds in every sequence of tests, each on an object
\* of its own.
THEOREM SchedulerInvariance == SpecTest => []IInv
  <1>1. InitTest => IInv
    BY InitIInv DEF InitTest
  <1> QED BY <1>1, IInvStep, PTL DEF SpecTest

-----------------------------------------------------------------------------
(***************************************************************************)
(* The accesses of the benchmarks.                                         *)
(***************************************************************************)

LEMMA LineCountNat == LineCount \in Nat \ {0}
  BY RunTestAssumption

\* How Loop numbers the accesses of an iteration.
LEMMA Singles ==
  ASSUME NEW L \in Nat, NEW n \in 1 .. L
  PROVE  (n - 1) \div 1 + 1 = n /\ ((n - 1) % 1) + 1 = 1
  OBVIOUS

LEMMA Pairs ==
  ASSUME NEW L \in Nat, NEW n \in 1 .. 2 * L
  PROVE  \E k \in 1 .. L :
           /\ (n - 1) \div 2 + 1 = k
           /\ \/ n = 2 * k - 1 /\ ((n - 1) % 2) + 1 = 1
              \/ n = 2 * k /\ ((n - 1) % 2) + 1 = 2
  OBVIOUS

LEMMA Triples ==
  ASSUME NEW L \in Nat, NEW n \in 1 .. 3 * L
  PROVE  \E k \in 1 .. L :
           /\ (n - 1) \div 3 + 1 = k
           /\ \/ n = 3 * k - 2 /\ ((n - 1) % 3) + 1 = 1
              \/ n = 3 * k - 1 /\ ((n - 1) % 3) + 1 = 2
              \/ n = 3 * k /\ ((n - 1) % 3) + 1 = 3
  OBVIOUS

\* How Repeated numbers the accesses of an invocation of L pairs.
LEMMA Invocation ==
  ASSUME NEW L \in Nat \ {0}, NEW n \in 1 .. Invocations * (2 * L)
  PROVE  \E r \in 0 .. Invocations - 1, m \in 1 .. 2 * L :
           n = 2 * L * r + m /\ ((n - 1) % (2 * L)) + 1 = m
  BY DEF Invocations

\* reader_ visits one node with each access.
LEMMA ReaderShape ==
  /\ Len(ReaderAccesses) = LineCount
  /\ \A n \in 1 .. LineCount : ReaderAccesses[n] = <<"load", Visited(n)>>
  <1>1. /\ Len(ReaderAccesses) = LineCount
        /\ \A n \in 1 .. LineCount :
             ReaderAccesses[n] = <<<<"load", Visited((n - 1) \div 1 + 1)>>>>[((n - 1) % 1) + 1]
    BY LineCountNat DEF ReaderAccesses, Loop
  <1>2. ASSUME NEW n \in 1 .. LineCount PROVE ReaderAccesses[n] = <<"load", Visited(n)>>
    <2>1. (n - 1) \div 1 + 1 = n /\ ((n - 1) % 1) + 1 = 1
      BY LineCountNat, Singles
    <2>2. ReaderAccesses[n] = <<<<"load", Visited(n)>>>>[1]
      BY <1>1, <2>1
    <2> QED BY <2>2
  <1> QED BY <1>1, <1>2

\* writer_ loads and stores by turns.
LEMMA WriterShape ==
  /\ Len(WriterAccesses) = 2 * LineCount
  /\ \A n \in 1 .. 2 * LineCount : \E k \in 1 .. LineCount :
       \/ n = 2 * k - 1 /\ WriterAccesses[n] = <<"load", Visited(k)>>
       \/ n = 2 * k /\ WriterAccesses[n] = <<"store", Visited(k + 1)>>
  <1> DEFINE body(k) == <<<<"load", Visited(k)>>, <<"store", Visited(k + 1)>>>>
  <1>1. /\ Len(WriterAccesses) = 2 * LineCount
        /\ \A n \in 1 .. 2 * LineCount :
             WriterAccesses[n] = body((n - 1) \div 2 + 1)[((n - 1) % 2) + 1]
    BY LineCountNat DEF WriterAccesses, Loop
  <1>2. ASSUME NEW n \in 1 .. 2 * LineCount
        PROVE  \E k \in 1 .. LineCount :
                 \/ n = 2 * k - 1 /\ WriterAccesses[n] = <<"load", Visited(k)>>
                 \/ n = 2 * k /\ WriterAccesses[n] = <<"store", Visited(k + 1)>>
    <2>1. PICK k \in 1 .. LineCount :
            /\ (n - 1) \div 2 + 1 = k
            /\ \/ n = 2 * k - 1 /\ ((n - 1) % 2) + 1 = 1
               \/ n = 2 * k /\ ((n - 1) % 2) + 1 = 2
      BY LineCountNat, Pairs
    <2>2. WriterAccesses[n] = body(k)[((n - 1) % 2) + 1]
      BY <1>1, <2>1
    <2>3. body(k)[1] = <<"load", Visited(k)>> /\ body(k)[2] = <<"store", Visited(k + 1)>>
      OBVIOUS
    <2> HIDE DEF body
    <2>4. \/ n = 2 * k - 1 /\ WriterAccesses[n] = <<"load", Visited(k)>>
          \/ n = 2 * k /\ WriterAccesses[n] = <<"store", Visited(k + 1)>>
      BY <2>1, <2>2, <2>3
    <2> QED BY <2>4
  <1> QED BY <1>1, <1>2

\* consumer_ tests flag k before it loads the k-th pointer.
LEMMA ConsumerShape ==
  /\ Len(ConsumerAccesses) = 2 * LineCount
  /\ \A n \in 1 .. 2 * LineCount : \E k \in 1 .. LineCount :
       \/ n = 2 * k - 1 /\ ConsumerAccesses[n] = <<"set", k>>
       \/ n = 2 * k /\ ConsumerAccesses[n] = <<"load", Visited(k)>>
  <1> DEFINE body(k) == <<<<"set", k>>, <<"load", Visited(k)>>>>
  <1>1. /\ Len(ConsumerAccesses) = 2 * LineCount
        /\ \A n \in 1 .. 2 * LineCount :
             ConsumerAccesses[n] = body((n - 1) \div 2 + 1)[((n - 1) % 2) + 1]
    BY LineCountNat DEF ConsumerAccesses, Loop
  <1>2. ASSUME NEW n \in 1 .. 2 * LineCount
        PROVE  \E k \in 1 .. LineCount :
                 \/ n = 2 * k - 1 /\ ConsumerAccesses[n] = <<"set", k>>
                 \/ n = 2 * k /\ ConsumerAccesses[n] = <<"load", Visited(k)>>
    <2>1. PICK k \in 1 .. LineCount :
            /\ (n - 1) \div 2 + 1 = k
            /\ \/ n = 2 * k - 1 /\ ((n - 1) % 2) + 1 = 1
               \/ n = 2 * k /\ ((n - 1) % 2) + 1 = 2
      BY LineCountNat, Pairs
    <2>2. ConsumerAccesses[n] = body(k)[((n - 1) % 2) + 1]
      BY <1>1, <2>1
    <2>3. body(k)[1] = <<"set", k>> /\ body(k)[2] = <<"load", Visited(k)>>
      OBVIOUS
    <2> HIDE DEF body
    <2>4. \/ n = 2 * k - 1 /\ ConsumerAccesses[n] = <<"set", k>>
          \/ n = 2 * k /\ ConsumerAccesses[n] = <<"load", Visited(k)>>
      BY <2>1, <2>2, <2>3
    <2> QED BY <2>4
  <1> QED BY <1>1, <1>2

\* producer_ decrements flag k when it has written and left the k-th node.
LEMMA ProducerShape ==
  /\ Len(ProducerAccesses) = 3 * LineCount
  /\ \A n \in 1 .. 3 * LineCount : \E k \in 1 .. LineCount :
       \/ n = 3 * k - 2 /\ ProducerAccesses[n] = <<"store", Visited(k)>>
       \/ n = 3 * k - 1 /\ ProducerAccesses[n] = <<"load", Visited(k)>>
       \/ n = 3 * k /\ ProducerAccesses[n] = <<"add", k>>
  <1> DEFINE body(k) == <<<<"store", Visited(k)>>, <<"load", Visited(k)>>, <<"add", k>>>>
  <1>1. /\ Len(ProducerAccesses) = 3 * LineCount
        /\ \A n \in 1 .. 3 * LineCount :
             ProducerAccesses[n] = body((n - 1) \div 3 + 1)[((n - 1) % 3) + 1]
    BY LineCountNat DEF ProducerAccesses, Loop
  <1>2. ASSUME NEW n \in 1 .. 3 * LineCount
        PROVE  \E k \in 1 .. LineCount :
                 \/ n = 3 * k - 2 /\ ProducerAccesses[n] = <<"store", Visited(k)>>
                 \/ n = 3 * k - 1 /\ ProducerAccesses[n] = <<"load", Visited(k)>>
                 \/ n = 3 * k /\ ProducerAccesses[n] = <<"add", k>>
    <2>1. PICK k \in 1 .. LineCount :
            /\ (n - 1) \div 3 + 1 = k
            /\ \/ n = 3 * k - 2 /\ ((n - 1) % 3) + 1 = 1
               \/ n = 3 * k - 1 /\ ((n - 1) % 3) + 1 = 2
               \/ n = 3 * k /\ ((n - 1) % 3) + 1 = 3
      BY LineCountNat, Triples
    <2>2. ProducerAccesses[n] = body(k)[((n - 1) % 3) + 1]
      BY <1>1, <2>1
    <2>3. ASSUME NEW x \in {1, 2, 3}
          PROVE  body(k)[x] = IF x = 1 THEN <<"store", Visited(k)>>
                              ELSE IF x = 2 THEN <<"load", Visited(k)>> ELSE <<"add", k>>
      OBVIOUS
    <2> HIDE DEF body
    <2> QED BY <2>1, <2>2, <2>3
  <1> QED BY <1>1, <1>2

\* The reader of reader_writer.cpp, in each of its invocations.
LEMMA ReaderRwShape ==
  /\ Len(ReaderRwAccesses) = Invocations * (2 * LineCount)
  /\ \A n \in 1 .. Invocations * (2 * LineCount) :
       \E r \in 0 .. Invocations - 1, k \in 1 .. LineCount :
         \/ n = 2 * LineCount * r + 2 * k - 1 /\ ReaderRwAccesses[n] = <<"clear", k>>
         \/ n = 2 * LineCount * r + 2 * k /\ ReaderRwAccesses[n] = <<"load", k - 1>>
  <1> DEFINE body(k) == <<<<"clear", k>>, <<"load", k - 1>>>>
             one == Loop(2, LAMBDA k : body(k))
  <1>1. /\ Len(one) = 2 * LineCount
        /\ \A m \in 1 .. 2 * LineCount : one[m] = body((m - 1) \div 2 + 1)[((m - 1) % 2) + 1]
    BY LineCountNat DEF Loop
  <1>2. ReaderRwAccesses = [n \in 1 .. Invocations * Len(one) |-> one[((n - 1) % Len(one)) + 1]]
    BY DEF ReaderRwAccesses, Repeated
  <1> HIDE DEF one
  <1>3. /\ Len(ReaderRwAccesses) = Invocations * (2 * LineCount)
        /\ \A n \in 1 .. Invocations * (2 * LineCount) :
             ReaderRwAccesses[n] = one[((n - 1) % (2 * LineCount)) + 1]
    BY <1>1, <1>2, LineCountNat DEF Invocations
  <1>4. ASSUME NEW n \in 1 .. Invocations * (2 * LineCount)
        PROVE  \E r \in 0 .. Invocations - 1, k \in 1 .. LineCount :
                 \/ n = 2 * LineCount * r + 2 * k - 1 /\ ReaderRwAccesses[n] = <<"clear", k>>
                 \/ n = 2 * LineCount * r + 2 * k /\ ReaderRwAccesses[n] = <<"load", k - 1>>
    <2>1. PICK r \in 0 .. Invocations - 1, m \in 1 .. 2 * LineCount :
            n = 2 * LineCount * r + m /\ ((n - 1) % (2 * LineCount)) + 1 = m
      BY LineCountNat, Invocation
    <2>2. PICK k \in 1 .. LineCount :
            /\ (m - 1) \div 2 + 1 = k
            /\ \/ m = 2 * k - 1 /\ ((m - 1) % 2) + 1 = 1
               \/ m = 2 * k /\ ((m - 1) % 2) + 1 = 2
      BY LineCountNat, Pairs
    <2>3. ReaderRwAccesses[n] = body(k)[((m - 1) % 2) + 1]
      BY <1>1, <1>3, <2>1, <2>2
    <2>a. body(k)[1] = <<"clear", k>> /\ body(k)[2] = <<"load", k - 1>>
      OBVIOUS
    <2>4. \/ m = 2 * k - 1 /\ ReaderRwAccesses[n] = <<"clear", k>>
          \/ m = 2 * k /\ ReaderRwAccesses[n] = <<"load", k - 1>>
      <3> HIDE DEF body
      <3> QED BY <2>2, <2>3, <2>a
    <2>5. 2 * LineCount * r \in Int
      BY LineCountNat DEF Invocations
    <2> QED BY <2>1, <2>4, <2>5
  <1> QED BY <1>3, <1>4

\* The writer of reader_writer.cpp comes past flag k once in each invocation.
LEMMA WriterRwShape ==
  /\ Len(WriterRwAccesses) = Invocations * (2 * LineCount)
  /\ \A n \in 1 .. Invocations * (2 * LineCount) :
       \E r \in 0 .. Invocations - 1, k \in 1 .. LineCount :
         \/ n = 2 * LineCount * r + 2 * k - 1 /\ WriterRwAccesses[n] = <<"store", k - 1>>
         \/ n = 2 * LineCount * r + 2 * k /\ WriterRwAccesses[n] = <<"add", k>>
  <1> DEFINE body(k) == <<<<"store", k - 1>>, <<"add", k>>>>
             one == Loop(2, LAMBDA k : body(k))
  <1>1. /\ Len(one) = 2 * LineCount
        /\ \A m \in 1 .. 2 * LineCount : one[m] = body((m - 1) \div 2 + 1)[((m - 1) % 2) + 1]
    BY LineCountNat DEF Loop
  <1>2. WriterRwAccesses = [n \in 1 .. Invocations * Len(one) |-> one[((n - 1) % Len(one)) + 1]]
    BY DEF WriterRwAccesses, Repeated
  <1> HIDE DEF one
  <1>3. /\ Len(WriterRwAccesses) = Invocations * (2 * LineCount)
        /\ \A n \in 1 .. Invocations * (2 * LineCount) :
             WriterRwAccesses[n] = one[((n - 1) % (2 * LineCount)) + 1]
    BY <1>1, <1>2, LineCountNat DEF Invocations
  <1>4. ASSUME NEW n \in 1 .. Invocations * (2 * LineCount)
        PROVE  \E r \in 0 .. Invocations - 1, k \in 1 .. LineCount :
                 \/ n = 2 * LineCount * r + 2 * k - 1 /\ WriterRwAccesses[n] = <<"store", k - 1>>
                 \/ n = 2 * LineCount * r + 2 * k /\ WriterRwAccesses[n] = <<"add", k>>
    <2>1. PICK r \in 0 .. Invocations - 1, m \in 1 .. 2 * LineCount :
            n = 2 * LineCount * r + m /\ ((n - 1) % (2 * LineCount)) + 1 = m
      BY LineCountNat, Invocation
    <2>2. PICK k \in 1 .. LineCount :
            /\ (m - 1) \div 2 + 1 = k
            /\ \/ m = 2 * k - 1 /\ ((m - 1) % 2) + 1 = 1
               \/ m = 2 * k /\ ((m - 1) % 2) + 1 = 2
      BY LineCountNat, Pairs
    <2>3. WriterRwAccesses[n] = body(k)[((m - 1) % 2) + 1]
      BY <1>1, <1>3, <2>1, <2>2
    <2>a. body(k)[1] = <<"store", k - 1>> /\ body(k)[2] = <<"add", k>>
      OBVIOUS
    <2>4. \/ m = 2 * k - 1 /\ WriterRwAccesses[n] = <<"store", k - 1>>
          \/ m = 2 * k /\ WriterRwAccesses[n] = <<"add", k>>
      <3> HIDE DEF body
      <3> QED BY <2>2, <2>3, <2>a
    <2>5. 2 * LineCount * r \in Int
      BY LineCountNat DEF Invocations
    <2> QED BY <2>1, <2>4, <2>5
  <1> QED BY <1>3, <1>4

\* Every benchmark makes some accesses; those to memory name a line, those to a flag
\* name a flag.
LEMMA AccessType ==
  ASSUME NEW b \in Benchmarks
  PROVE  /\ Len(Accesses[b]) \in Nat \ {0}
         /\ \A n \in 1 .. Len(Accesses[b]) :
              /\ Accesses[b][n][1] \in {"load", "store"} => Accesses[b][n][2] \in Line
              /\ Accesses[b][n][1] \in {"add", "set", "clear"} =>
                   Accesses[b][n][2] \in 1 .. LineCount
  <1>0. \A k \in 1 .. LineCount : Visited(k) \in Line /\ Visited(k + 1) \in Line /\ k - 1 \in Line
    BY LineCountNat DEF Visited, Behind, Line
  <1>1. CASE b = "flusher"
    <2>1. Accesses[b] = <<<<"flush", 0>>>>
      BY <1>1 DEF Accesses, FlusherAccesses
    <2> QED BY <2>1
  <1>2. CASE b = "reader"
    <2>1. Accesses[b] = ReaderAccesses
      BY <1>2 DEF Accesses
    <2> QED BY <2>1, <1>0, ReaderShape, LineCountNat
  <1>3. CASE b = "writer"
    <2>1. Accesses[b] = WriterAccesses
      BY <1>3 DEF Accesses
    <2>2. Len(WriterAccesses) = 2 * LineCount
      BY WriterShape
    <2>3. ASSUME NEW n \in 1 .. 2 * LineCount
          PROVE  /\ WriterAccesses[n][1] \in {"load", "store"}
                 /\ WriterAccesses[n][2] \in Line
      <3>1. PICK k \in 1 .. LineCount :
              \/ WriterAccesses[n] = <<"load", Visited(k)>>
              \/ WriterAccesses[n] = <<"store", Visited(k + 1)>>
        BY WriterShape
      <3> QED BY <1>0, <3>1
    <2> QED BY <2>1, <2>2, <2>3, LineCountNat
  <1>4. CASE b = "producer"
    <2>1. Accesses[b] = ProducerAccesses
      BY <1>4 DEF Accesses
    <2>2. Len(ProducerAccesses) = 3 * LineCount
      BY ProducerShape
    <2>3. ASSUME NEW n \in 1 .. 3 * LineCount
          PROVE  /\ ProducerAccesses[n][1] \in {"load", "store", "add"}
                 /\ ProducerAccesses[n][1] \in {"load", "store"} => ProducerAccesses[n][2] \in Line
                 /\ ProducerAccesses[n][1] = "add" => ProducerAccesses[n][2] \in 1 .. LineCount
      <3>1. PICK k \in 1 .. LineCount :
              \/ ProducerAccesses[n] = <<"store", Visited(k)>>
              \/ ProducerAccesses[n] = <<"load", Visited(k)>>
              \/ ProducerAccesses[n] = <<"add", k>>
        BY ProducerShape
      <3> QED BY <1>0, <3>1
    <2> QED BY <2>1, <2>2, <2>3, LineCountNat
  <1>5. CASE b = "consumer"
    <2>1. Accesses[b] = ConsumerAccesses
      BY <1>5 DEF Accesses
    <2>2. Len(ConsumerAccesses) = 2 * LineCount
      BY ConsumerShape
    <2>3. ASSUME NEW n \in 1 .. 2 * LineCount
          PROVE  /\ ConsumerAccesses[n][1] \in {"load", "set"}
                 /\ ConsumerAccesses[n][1] = "load" => ConsumerAccesses[n][2] \in Line
                 /\ ConsumerAccesses[n][1] = "set" => ConsumerAccesses[n][2] \in 1 .. LineCount
      <3>1. PICK k \in 1 .. LineCount :
              \/ ConsumerAccesses[n] = <<"set", k>>
              \/ ConsumerAccesses[n] = <<"load", Visited(k)>>
        BY ConsumerShape
      <3> QED BY <1>0, <3>1
    <2> QED BY <2>1, <2>2, <2>3, LineCountNat
  <1>6. CASE b = "reader_rw"
    <2>1. Accesses[b] = ReaderRwAccesses
      BY <1>6 DEF Accesses
    <2>2. Invocations * (2 * LineCount) \in Nat \ {0}
      BY LineCountNat DEF Invocations
    <2>3. Len(ReaderRwAccesses) = Invocations * (2 * LineCount)
      BY ReaderRwShape
    <2>4. ASSUME NEW n \in 1 .. Invocations * (2 * LineCount)
          PROVE  /\ ReaderRwAccesses[n][1] \in {"load", "clear"}
                 /\ ReaderRwAccesses[n][1] = "load" => ReaderRwAccesses[n][2] \in Line
                 /\ ReaderRwAccesses[n][1] = "clear" => ReaderRwAccesses[n][2] \in 1 .. LineCount
      <3>1. PICK k \in 1 .. LineCount :
              \/ ReaderRwAccesses[n] = <<"clear", k>>
              \/ ReaderRwAccesses[n] = <<"load", k - 1>>
        BY ReaderRwShape
      <3> QED BY <1>0, <3>1
    <2> QED BY <2>1, <2>2, <2>3, <2>4
  <1>7. CASE b = "writer_rw"
    <2>1. Accesses[b] = WriterRwAccesses
      BY <1>7 DEF Accesses
    <2>2. Invocations * (2 * LineCount) \in Nat \ {0}
      BY LineCountNat DEF Invocations
    <2>3. Len(WriterRwAccesses) = Invocations * (2 * LineCount)
      BY WriterRwShape
    <2>4. ASSUME NEW n \in 1 .. Invocations * (2 * LineCount)
          PROVE  /\ WriterRwAccesses[n][1] \in {"store", "add"}
                 /\ WriterRwAccesses[n][1] = "store" => WriterRwAccesses[n][2] \in Line
                 /\ WriterRwAccesses[n][1] = "add" => WriterRwAccesses[n][2] \in 1 .. LineCount
      <3>1. PICK k \in 1 .. LineCount :
              \/ WriterRwAccesses[n] = <<"store", k - 1>>
              \/ WriterRwAccesses[n] = <<"add", k>>
        BY WriterRwShape
      <3> QED BY <1>0, <3>1
    <2> QED BY <2>1, <2>2, <2>3, <2>4
  <1> QED BY <1>1, <1>2, <1>3, <1>4, <1>5, <1>6, <1>7 DEF Benchmarks

\* A thread that has been created runs a benchmark of the current vector.
LEMMA BornRuns ==
  ASSUME IInv, NEW w \in Worker, wpc[w] # "unborn"
  PROVE  w \in 1 .. Len(svec) /\ svec[w].benchmark \in Benchmarks
  <1>1. w \in 1 .. Len(svec)
    BY SvecType, ConstantsAssumption DEF IInv, BornInv, Worker
  <1>2. svec[w] \in Schedule
    BY <1>1, SvecType, ElementOfSeq DEF IInv
  <1> QED BY <1>1, <1>2, RunTestAssumption DEF Schedule

-----------------------------------------------------------------------------
(***************************************************************************)
(* The vectors of the tests.                                               *)
(***************************************************************************)

PriorityTests == TestTypes \ {"PRODUCER_CONSUMER", "READER_WRITER"}

\* The two tests that use the flags.
LEMMA FlagVec ==
  ASSUME NEW c, NEW t \in {"PRODUCER_CONSUMER", "READER_WRITER"}
  PROVE  /\ Len(TestVec(t, c)) = 2
         /\ t = "PRODUCER_CONSUMER" => /\ TestVec(t, c)[1].benchmark = "producer"
                                       /\ TestVec(t, c)[2].benchmark = "consumer"
         /\ t = "READER_WRITER" => /\ TestVec(t, c)[1].benchmark = "reader_rw"
                                   /\ TestVec(t, c)[2].benchmark = "writer_rw"
  BY DEF TestVec, Sched

\* A test on lines in state s consists of three flushers, the recipe for s and the
\* measured benchmark.
StateTestsOf(s) == CASE s = "M" -> {"STORE_ON_MODIFIED", "LOAD_FROM_MODIFIED"}
                     [] s = "E" -> {"STORE_ON_EXCLUSIVE", "LOAD_FROM_EXCLUSIVE"}
                     [] s = "S" -> {"STORE_ON_SHARED_OR_FORWARD", "LOAD_FROM_SHARED_OR_FORWARD"}
                     [] s = "I" -> {"STORE_ON_INVALID", "LOAD_FROM_INVALID"}

LEMMA RecipeVec ==
  ASSUME NEW c, NEW s \in {"M", "E", "S", "I"}, NEW t \in StateTestsOf(s)
  PROVE  /\ StateOf[t] = s
         /\ TestVec(t, c) = Flushers(c) \o InitState(s, core_a, core_b(c))
              \o <<Sched(core_c(c), IF t \in Stores THEN "writer" ELSE "reader")>>
  <1>1. StateOf[t] = s /\ t \notin {"PRODUCER_CONSUMER", "READER_WRITER", "FLUSH",
                                    "flusher_test", "read_from_invalid_test"}
    BY DEF StateTestsOf, StateOf
  <1> QED BY <1>1 DEF TestVec

LEMMA ModifiedVec ==
  ASSUME NEW c, NEW t \in StateTestsOf("M"), NEW v, v = TestVec(t, c)
  PROVE  /\ Len(v) = 5 /\ v[1].benchmark = "flusher" /\ v[2].benchmark = "flusher"
         /\ v[3].benchmark = "flusher"
         /\ v[4].benchmark = "writer" /\ v[4].core_id = core_a
         /\ v[5].benchmark \in {"reader", "writer"}
  <1>1. v = Flushers(c) \o InitState("M", core_a, core_b(c))
              \o <<Sched(core_c(c), IF t \in Stores THEN "writer" ELSE "reader")>>
    BY RecipeVec
  <1> QED BY <1>1 DEF Flushers, Sched, InitState

LEMMA ExclusiveVec ==
  ASSUME NEW c, NEW t \in StateTestsOf("E"), NEW v, v = TestVec(t, c)
  PROVE  /\ Len(v) = 7 /\ v[1].benchmark = "flusher" /\ v[2].benchmark = "flusher"
         /\ v[3].benchmark = "flusher"
         /\ v[4].benchmark = "writer" /\ v[4].core_id = core_a
         /\ v[5].benchmark = "flusher" /\ v[5].core_id = core_a
         /\ v[6].benchmark = "reader" /\ v[6].core_id = core_a
         /\ v[7].benchmark \in {"reader", "writer"}
  <1>1. v = Flushers(c) \o InitState("E", core_a, core_b(c))
              \o <<Sched(core_c(c), IF t \in Stores THEN "writer" ELSE "reader")>>
    BY RecipeVec
  <1> QED BY <1>1 DEF Flushers, Sched, InitState

LEMMA SharedVec ==
  ASSUME NEW c, NEW t \in StateTestsOf("S"), NEW v, v = TestVec(t, c)
  PROVE  /\ Len(v) = 7 /\ v[1].benchmark = "flusher" /\ v[2].benchmark = "flusher"
         /\ v[3].benchmark = "flusher"
         /\ v[4].benchmark = "writer" /\ v[4].core_id = core_a
         /\ v[5].benchmark = "reader" /\ v[5].core_id = core_a
         /\ v[6].benchmark = "reader" /\ v[6].core_id = core_b(c)
         /\ v[7].benchmark \in {"reader", "writer"}
  <1>1. v = Flushers(c) \o InitState("S", core_a, core_b(c))
              \o <<Sched(core_c(c), IF t \in Stores THEN "writer" ELSE "reader")>>
    BY RecipeVec
  <1> QED BY <1>1 DEF Flushers, Sched, InitState

LEMMA InvalidVec ==
  ASSUME NEW c, NEW t \in StateTestsOf("I"), NEW v, v = TestVec(t, c)
  PROVE  /\ Len(v) = 6 /\ v[1].benchmark = "flusher" /\ v[2].benchmark = "flusher"
         /\ v[3].benchmark = "flusher"
         /\ v[4].benchmark = "writer" /\ v[4].core_id = core_a
         /\ v[5].benchmark = "flusher" /\ v[5].core_id = core_a
         /\ v[6].benchmark \in {"reader", "writer"}
  <1>1. v = Flushers(c) \o InitState("I", core_a, core_b(c))
              \o <<Sched(core_c(c), IF t \in Stores THEN "writer" ELSE "reader")>>
    BY RecipeVec
  <1> QED BY <1>1 DEF Flushers, Sched, InitState

\* The three tests on flushes.
LEMMA FlusherTestVec ==
  ASSUME NEW c, NEW v, v = TestVec("flusher_test", c)
  PROVE  /\ Len(v) = 8 /\ v[1].benchmark = "flusher" /\ v[2].benchmark = "flusher"
         /\ v[3].benchmark = "flusher"
         /\ v[4].benchmark = "writer" /\ v[4].core_id = core_a
         /\ v[5].benchmark = "reader" /\ v[5].core_id = core_a
         /\ v[6].benchmark = "reader" /\ v[6].core_id = core_b(c)
         /\ v[7].benchmark = "flusher" /\ v[7].core_id = core_a
         /\ v[8].benchmark = "reader"
  BY DEF TestVec, Flushers, Sched, InitState, SharedThenFlushed

LEMMA ReadFromInvalidVec ==
  ASSUME NEW c, NEW v, v = TestVec("read_from_invalid_test", c)
  PROVE  /\ Len(v) = 3 /\ \A w \in 1 .. 2 : v[w].benchmark = "flusher"
         /\ v[3].benchmark = "reader"
  BY DEF TestVec, Sched

LEMMA FlushVec ==
  ASSUME NEW c, NEW v, v = TestVec("FLUSH", c)
  PROVE  Len(v) = 4 /\ \A w \in 1 .. 4 : v[w].benchmark = "flusher"
  BY DEF TestVec, Flushers, Sched

\* What all vectors for the priority method have in common.  A reader comes after
\* a flusher, or is the first or second one after a writer; the first is then on the
\* writer's core.
LEMMA PriorityVec ==
  ASSUME NEW c, NEW t \in PriorityTests, NEW v, v = TestVec(t, c)
  PROVE  /\ Len(v) \in Nat /\ Len(v) >= 3
         /\ \A w \in 1 .. Len(v) : v[w].benchmark \in {"flusher", "reader", "writer"}
         /\ v[1].benchmark = "flusher"
         /\ t # "read_from_invalid_test" => Len(v) >= 4 /\ v[3].benchmark = "flusher"
         /\ \A w \in 2 .. Len(v) - 1 : v[w].benchmark = "reader" =>
              \/ v[w - 1].benchmark = "flusher"
              \/ v[w - 1].benchmark = "writer" /\ v[w - 1].core_id = v[w].core_id
              \/ /\ w > 2 /\ v[w - 1].benchmark = "reader"
                 /\ v[w - 2].benchmark = "writer" /\ v[w - 2].core_id = v[w - 1].core_id
  <1> DEFINE Known(w) == v[w].benchmark \in {"flusher", "reader", "writer"}
             Fits(w) == v[w].benchmark = "reader" =>
                          \/ v[w - 1].benchmark = "flusher"
                          \/ v[w - 1].benchmark = "writer" /\ v[w - 1].core_id = v[w].core_id
                          \/ /\ w > 2 /\ v[w - 1].benchmark = "reader"
                             /\ v[w - 2].benchmark = "writer"
                             /\ v[w - 2].core_id = v[w - 1].core_id
             Third == t # "read_from_invalid_test" => Len(v) >= 4 /\ v[3].benchmark = "flusher"
  <1> SUFFICES /\ Len(v) \in Nat /\ Len(v) >= 3 /\ v[1].benchmark = "flusher" /\ Third
               /\ \A w \in 1 .. Len(v) : Known(w)
               /\ \A w \in 2 .. Len(v) - 1 : Fits(w)
    OBVIOUS
  <1>1. CASE t \in StateTestsOf("M")
    <2>1. Len(v) = 5 /\ v[1].benchmark = "flusher" /\ v[2].benchmark = "flusher"
      BY <1>1, ModifiedVec
    <2>2. Known(1) /\ Known(2) /\ Known(3) /\ Known(4) /\ Known(5)
      BY <1>1, ModifiedVec
    <2>3. Fits(2) /\ Fits(3) /\ Fits(4)
      BY <1>1, ModifiedVec
    <2>4. \A w \in 1 .. 5 : w \in {1, 2, 3, 4, 5}
      OBVIOUS
    <2>5. \A w \in 2 .. 4 : w \in {2, 3, 4}
      OBVIOUS
    <2> HIDE DEF Known, Fits
    <2>6. Third
      BY <1>1, <2>1, ModifiedVec DEF StateTestsOf
    <2> QED BY <2>1, <2>2, <2>3, <2>4, <2>5, <2>6
  <1>2. CASE t \in StateTestsOf("E")
    <2>1. Len(v) = 7 /\ v[1].benchmark = "flusher" /\ v[2].benchmark = "flusher"
      BY <1>2, ExclusiveVec
    <2>2. Known(1) /\ Known(2) /\ Known(3) /\ Known(4) /\ Known(5) /\ Known(6) /\ Known(7)
      BY <1>2, ExclusiveVec
    <2>3. Fits(2) /\ Fits(3) /\ Fits(4) /\ Fits(5) /\ Fits(6)
      BY <1>2, ExclusiveVec
    <2>4. \A w \in 1 .. 7 : w \in {1, 2, 3, 4, 5, 6, 7}
      OBVIOUS
    <2>5. \A w \in 2 .. 6 : w \in {2, 3, 4, 5, 6}
      OBVIOUS
    <2> HIDE DEF Known, Fits
    <2>6. Third
      BY <1>2, <2>1, ExclusiveVec DEF StateTestsOf
    <2> QED BY <2>1, <2>2, <2>3, <2>4, <2>5, <2>6
  <1>3. CASE t \in StateTestsOf("S")
    <2>1. Len(v) = 7 /\ v[1].benchmark = "flusher" /\ v[2].benchmark = "flusher"
      BY <1>3, SharedVec
    <2>2. Known(1) /\ Known(2) /\ Known(3) /\ Known(4) /\ Known(5) /\ Known(6) /\ Known(7)
      BY <1>3, SharedVec
    <2>3. Fits(2) /\ Fits(3) /\ Fits(4) /\ Fits(5) /\ Fits(6)
      BY <1>3, SharedVec
    <2>4. \A w \in 1 .. 7 : w \in {1, 2, 3, 4, 5, 6, 7}
      OBVIOUS
    <2>5. \A w \in 2 .. 6 : w \in {2, 3, 4, 5, 6}
      OBVIOUS
    <2> HIDE DEF Known, Fits
    <2>6. Third
      BY <1>3, <2>1, SharedVec DEF StateTestsOf
    <2> QED BY <2>1, <2>2, <2>3, <2>4, <2>5, <2>6
  <1>4. CASE t \in StateTestsOf("I")
    <2>1. Len(v) = 6 /\ v[1].benchmark = "flusher" /\ v[2].benchmark = "flusher"
      BY <1>4, InvalidVec
    <2>2. Known(1) /\ Known(2) /\ Known(3) /\ Known(4) /\ Known(5) /\ Known(6)
      BY <1>4, InvalidVec
    <2>3. Fits(2) /\ Fits(3) /\ Fits(4) /\ Fits(5)
      BY <1>4, InvalidVec
    <2>4. \A w \in 1 .. 6 : w \in {1, 2, 3, 4, 5, 6}
      OBVIOUS
    <2>5. \A w \in 2 .. 5 : w \in {2, 3, 4, 5}
      OBVIOUS
    <2> HIDE DEF Known, Fits
    <2>6. Third
      BY <1>4, <2>1, InvalidVec DEF StateTestsOf
    <2> QED BY <2>1, <2>2, <2>3, <2>4, <2>5, <2>6
  <1>5. CASE t = "flusher_test"
    <2>1. Len(v) = 8 /\ v[1].benchmark = "flusher" /\ v[2].benchmark = "flusher"
      BY <1>5, FlusherTestVec
    <2>2. Known(1) /\ Known(2) /\ Known(3) /\ Known(4) /\ Known(5) /\ Known(6) /\ Known(7) /\ Known(8)
      BY <1>5, FlusherTestVec
    <2>3. Fits(2) /\ Fits(3) /\ Fits(4) /\ Fits(5) /\ Fits(6) /\ Fits(7)
      BY <1>5, FlusherTestVec
    <2>4. \A w \in 1 .. 8 : w \in {1, 2, 3, 4, 5, 6, 7, 8}
      OBVIOUS
    <2>5. \A w \in 2 .. 7 : w \in {2, 3, 4, 5, 6, 7}
      OBVIOUS
    <2> HIDE DEF Known, Fits
    <2>6. Third
      BY <1>5, <2>1, FlusherTestVec DEF StateTestsOf
    <2> QED BY <2>1, <2>2, <2>3, <2>4, <2>5, <2>6
  <1>6. CASE t = "read_from_invalid_test"
    <2>1. Len(v) = 3 /\ v[1].benchmark = "flusher" /\ v[2].benchmark = "flusher"
      BY <1>6, ReadFromInvalidVec
    <2>2. Known(1) /\ Known(2) /\ Known(3)
      BY <1>6, ReadFromInvalidVec
    <2>3. Fits(2)
      BY <1>6, ReadFromInvalidVec
    <2>4. \A w \in 1 .. 3 : w \in {1, 2, 3}
      OBVIOUS
    <2>5. \A w \in 2 .. 2 : w \in {2}
      OBVIOUS
    <2> HIDE DEF Known, Fits
    <2>6. Third
      BY <1>6, <2>1, ReadFromInvalidVec DEF StateTestsOf
    <2> QED BY <2>1, <2>2, <2>3, <2>4, <2>5, <2>6
  <1>7. CASE t = "FLUSH"
    <2>1. Len(v) = 4 /\ v[1].benchmark = "flusher" /\ v[2].benchmark = "flusher"
      BY <1>7, FlushVec
    <2>2. Known(1) /\ Known(2) /\ Known(3) /\ Known(4)
      BY <1>7, FlushVec
    <2>3. Fits(2) /\ Fits(3)
      BY <1>7, FlushVec
    <2>4. \A w \in 1 .. 4 : w \in {1, 2, 3, 4}
      OBVIOUS
    <2>5. \A w \in 2 .. 3 : w \in {2, 3}
      OBVIOUS
    <2> HIDE DEF Known, Fits
    <2>6. Third
      BY <1>7, <2>1, FlushVec DEF StateTestsOf
    <2> QED BY <2>1, <2>2, <2>3, <2>4, <2>5, <2>6
  <1>8. StateTests = {"STORE_ON_MODIFIED", "STORE_ON_EXCLUSIVE", "STORE_ON_SHARED_OR_FORWARD",
                      "STORE_ON_INVALID", "LOAD_FROM_MODIFIED", "LOAD_FROM_EXCLUSIVE",
                      "LOAD_FROM_SHARED_OR_FORWARD", "LOAD_FROM_INVALID", "flusher_test",
                      "read_from_invalid_test"}
    BY DEF StateTests, StateOf
  <1>9. \/ t \in StateTestsOf("M") \/ t \in StateTestsOf("E") \/ t \in StateTestsOf("S")
        \/ t \in StateTestsOf("I")
        \/ t = "flusher_test" \/ t = "read_from_invalid_test" \/ t = "FLUSH"
    BY <1>8 DEF PriorityTests, TestTypes, StateTestsOf
  <1> QED BY <1>1, <1>2, <1>3, <1>4, <1>5, <1>6, <1>7, <1>9

-----------------------------------------------------------------------------
(***************************************************************************)
(* What the steps that are no accesses keep.                               *)
(***************************************************************************)

Begins == \E t \in Tests, c \in Placements : CallTest(t, c)
Accessing == \E w \in Worker : Access(w)

\* No other step touches the shared data or the arguments of the test.
LEMMA OtherSteps ==
  ASSUME [NextTest]_allVars, ~ Begins, ~ Accessing
  PROVE  /\ UNCHANGED <<cache, wrflag, test, place, tests, method, svec>>
         /\ UNCHANGED calls \/ (Construct /\ calls' = 0)
  <1> USE DEF callVars, loopVars, threadVars, memVars
  <1>1. CASE Construct \/ TestsHalted \/ UNCHANGED allVars
    BY <1>1 DEF Construct, TestsHalted, Halted, allVars, vars
  <1>2. CASE Control
    BY <1>2 DEF Control, SchedulerStep, Spawn, PinLive, PinExited, PinFails,
                CountersFail, PinJoined,
                Release, NotifyAll, NotifyOne, Await, Join, JoinJoined, JoinDone, Finish
  <1>3. CASE Environment
    BY <1>3 DEF Environment, SpuriousWake, PapiFails
  <1>4. ASSUME NEW w \in Worker, TestWorkerStep(w), ~ Access(w)
        PROVE  UNCHANGED <<cache, wrflag, test, place, tests, method, svec, calls>>
    BY <1>4 DEF TestWorkerStep, EndBenchmark, EndMeasure, WorkerControl, Acquire, WarmUp,
                BeginMeasure, WakeOne
  <1> QED BY <1>1, <1>2, <1>3, <1>4 DEF NextTest, Begins, Accessing

\* Only run_test calls the scheduler.
LEMMA IdleStays ==
  ASSUME IInv, [NextTest]_allVars, ~ Begins, spc = "idle"
  PROVE  spc' = "idle"
  <1>1. \A w \in Worker : Quiet(w)
    BY DEF IInv, HandleInv
  <1>2. CASE Construct \/ TestsHalted \/ UNCHANGED allVars
    BY <1>2 DEF Construct, TestsHalted, Halted, allVars, vars
  <1>3. ASSUME Control PROVE FALSE
    BY <1>3 DEF Control, SchedulerStep, Spawn, PinLive, PinExited, PinFails,
                CountersFail, PinJoined,
                Release, NotifyAll, NotifyOne, Await, Join, JoinJoined, JoinDone, Finish
  <1>4. ASSUME Environment PROVE FALSE
    BY <1>1, <1>4 DEF Environment, SpuriousWake, PapiFails, Running, WaitingWorkers, Quiet
  <1>5. ASSUME NEW w \in Worker, TestWorkerStep(w) PROVE FALSE
    BY <1>1, <1>5 DEF TestWorkerStep, Access, EndBenchmark, EndMeasure, WorkerControl, Acquire,
                      WarmUp, BeginMeasure, WakeOne, Quiet
  <1> QED BY <1>2, <1>3, <1>4, <1>5 DEF NextTest, Begins

\* Every test names schedules.
LEMMA VecNotEmpty ==
  ASSUME NEW t \in Tests, NEW c \in Placements
  PROVE  TestVec(t, c) # <<>>
  <1>1. TestVec(t, c) \in Seq(Schedule)
    BY TestIsCall, ConstantsAssumption
  <1>2. CASE t \in PriorityTests
    <2>1. Len(TestVec(t, c)) >= 3
      BY <1>2, PriorityVec
    <2> QED BY <2>1, EmptySeq
  <1>3. CASE t \notin PriorityTests
    <2>1. t \in {"PRODUCER_CONSUMER", "READER_WRITER"}
      BY <1>3, RunTestAssumption DEF PriorityTests
    <2>2. Len(TestVec(t, c)) = 2
      BY <2>1, FlagVec
    <2> QED BY <2>2, EmptySeq
  <1> QED BY <1>2, <1>3

\* run_test builds the vector of its test and keeps it.
LEMMA VecStep == IInv /\ VecInv /\ [NextTest]_allVars => VecInv'
  <1> SUFFICES ASSUME IInv, VecInv, [NextTest]_allVars PROVE VecInv'
    OBVIOUS
  <1>1. CASE Begins
    <2>1. PICK t \in Tests, c \in Placements : CallTest(t, c)
      BY <1>1 DEF Begins
    <2> QED BY <2>1, VecNotEmpty DEF CallTest, Call, VecInv
  <1>2. ASSUME UNCHANGED <<test, place, svec, method>>, spc = "idle" => spc' = "idle"
        PROVE  VecInv'
    BY <1>2 DEF VecInv
  <1>3. CASE Accessing
    BY <1>2, <1>3 DEF Accessing, Access, vars, callVars
  <1> QED BY <1>1, <1>2, <1>3, OtherSteps, IdleStays

\* Each object is used for one test.
LEMMA OneCallStep == IInv /\ OneCallInv /\ [NextTest]_allVars => OneCallInv'
  <1> SUFFICES ASSUME IInv, OneCallInv, [NextTest]_allVars PROVE OneCallInv'
    OBVIOUS
  <1>1. CASE Begins
    <2>1. PICK t \in Tests, c \in Placements : CallTest(t, c)
      BY <1>1 DEF Begins
    <2>2. /\ calls' = calls + 1 /\ calls < 1 /\ tests' = tests + 1
          /\ calls \in Nat
      BY <2>1, RunTestAssumption DEF CallTest, Call, IInv, TypeOK
    <2>3. test' = "READER_WRITER" => tests # 1 /\ tests <= 1
      BY <2>1 DEF CallTest, Finished, OneCallInv
    <2> QED BY <2>2, <2>3 DEF OneCallInv
  <1>2. ASSUME UNCHANGED <<test, tests>>, calls' \in {calls, 0} PROVE OneCallInv'
    BY <1>2 DEF OneCallInv
  <1>3. CASE Accessing
    BY <1>2, <1>3 DEF Accessing, Access, vars, callVars
  <1> QED BY <1>1, <1>2, <1>3, OtherSteps

\* A benchmark that begins its measurement has made no access, and one that ends it
\* has made all of them; nothing else but an access changes how far one has come.
\* Pinning never makes a benchmark that has run in the wrong place one in place.
LEMMA ProgressKept ==
  ASSUME IInv, ProgressInv, [NextTest]_allVars, ~ Begins, ~ Accessing
  PROVE  /\ ProgressInv'
         /\ \A w \in Worker : /\ Progress(w)' = Progress(w)
                              /\ Progress(w) # 0 /\ InPlace(w)' => InPlace(w)
  <1> USE DEF callVars, loopVars, threadVars, memVars
  <1>a. /\ TypeOK /\ MutexInv /\ BornInv /\ MeasuredInv
        /\ \A w \in Worker : w # Free
    BY ConstantsAssumption DEF IInv, Worker, Free
  <1>b. svec' = svec /\ \A w \in Worker : AccessesOf(w)' = AccessesOf(w)
    BY OtherSteps DEF AccessesOf
  <1>c. \A w \in Worker : wpc[w] # "unborn" => Len(AccessesOf(w)) \in Nat \ {0}
    BY BornRuns, AccessType DEF AccessesOf
  <1> DEFINE Kept == /\ ProgressInv'
                     /\ \A w \in Worker : /\ Progress(w)' = Progress(w)
                                          /\ Progress(w) # 0 /\ InPlace(w)' => InPlace(w)
             Before == {"unborn", "lock", "waiting", "warmup"}
  <1>1. ASSUME UNCHANGED <<accesses, measuredOn>>,
               \A w \in Worker : wpc[w] = "measuring" => coreOf'[w] = coreOf[w],
               \A w \in Worker : \/ wpc'[w] = wpc[w]
                                 \/ wpc[w] \in Before /\ wpc'[w] \in Before
                                 \/ wpc[w] = "notify" /\ wpc'[w] = "exited"
        PROVE  Kept
    <2>1. \A w \in Worker : (wpc'[w] = "measuring") = (wpc[w] = "measuring")
      BY <1>1
    <2>2. ProgressInv'
      BY <1>1, <1>b, <2>1 DEF ProgressInv
    <2>3. \A w \in Worker : Progress(w)' = Progress(w)
      BY <1>1, <1>b DEF Progress
    <2> QED BY <1>1, <1>b, <2>2, <2>3 DEF InPlace
  <1> HIDE DEF Kept
  <1> SUFFICES Kept
    BY DEF Kept
  <1>2. CASE Spawn /\ UNCHANGED memVars
    <2>1. i \in Worker /\ wpc[i] = "unborn"
      BY <1>2, <1>a, SvecType, ConstantsAssumption DEF Spawn, BornInv, IInv, IndexInv, TypeOK, Worker
    <2> QED BY <1>2, <1>1, <1>a, <2>1 DEF Spawn, TypeOK
  <1>3. CASE PinLive /\ UNCHANGED memVars
    <2> DEFINE p == PinnedHandle
               c == svec[i].core_id
    <2>1. /\ UNCHANGED <<wpc, accesses>>
          /\ coreOf' = [coreOf EXCEPT ![p] = c]
          /\ measuredOn' = IF wpc[p] = "measuring"
                           THEN [measuredOn EXCEPT ![p] = @ \cup {c}] ELSE measuredOn
      BY <1>3 DEF PinLive
    <2> HIDE DEF p, c
    <2>2. ASSUME NEW w \in Worker, wpc[w] = "measuring", coreOf[w] \in measuredOn[w]
          PROVE  coreOf'[w] \in measuredOn'[w]
      BY <2>1, <2>2, <1>a DEF TypeOK
    <2>3. ProgressInv'
      BY <2>1, <2>2, <1>b DEF ProgressInv
    <2>4. ASSUME NEW w \in Worker, Progress(w) # 0, InPlace(w)' PROVE InPlace(w)
      <3>1. measuredOn[w] \subseteq measuredOn'[w] /\ measuredOn[w] # {}
        BY <2>1, <2>4, <1>a DEF TypeOK, MeasuredInv, Progress
      <3> QED BY <2>4, <3>1, <1>b DEF InPlace
    <2> QED BY <2>1, <2>3, <2>4, <1>b DEF Kept, Progress
  <1>4. CASE Control /\ ~ Spawn /\ ~ PinLive
    <2>1. CASE NotifyAll \/ NotifyOne
      BY <1>1, <1>4, <2>1, <1>a DEF Control, NotifyAll, NotifyOne, WaitingWorkers, TypeOK
    <2>2. CASE PinExited \/ PinFails \/ CountersFail \/ PinJoined \/ Release \/ Await
      BY <1>1, <1>4, <2>2 DEF Control, PinExited, PinFails, CountersFail, PinJoined,
                              Release, Await
    <2>3. CASE Join \/ JoinJoined \/ JoinDone \/ Finish
      BY <1>1, <1>4, <2>3 DEF Control, Join, JoinJoined, JoinDone, Finish
    <2> QED BY <1>4, <2>1, <2>2, <2>3 DEF Control, SchedulerStep
  <1>5. CASE Construct \/ TestsHalted \/ UNCHANGED allVars
    BY <1>1, <1>5 DEF Construct, TestsHalted, Halted, allVars, vars
  <1>6. CASE Environment
    BY <1>1, <1>6, <1>a DEF Environment, SpuriousWake, PapiFails, WaitingWorkers, TypeOK
  <1>7. ASSUME NEW w \in Worker, Acquire(w) \/ WarmUp(w) \/ WakeOne(w), UNCHANGED memVars
        PROVE  Kept
    BY <1>1, <1>7, <1>a DEF Acquire, WarmUp, WakeOne, WaitingWorkers, TypeOK
  <1>8. ASSUME NEW w \in Worker, BeginMeasure(w), UNCHANGED memVars PROVE Kept
    <2>1. /\ wpc[w] = "warmup" /\ wpc' = [wpc EXCEPT ![w] = "measuring"]
          /\ measuredOn' = [measuredOn EXCEPT ![w] = {coreOf[w]}]
          /\ UNCHANGED <<coreOf, accesses>>
      BY <1>8 DEF BeginMeasure
    <2>2. \A u \in Worker : wpc[u] # "measuring"
      BY <2>1, <1>a DEF MutexInv, Running
    <2>3. accesses = 0
      BY <2>2 DEF ProgressInv
    <2>4. Len(AccessesOf(w)) >= 0
      BY <2>1, <1>c
    <2>5. ProgressInv'
      BY <2>1, <2>2, <2>3, <2>4, <1>a, <1>b DEF ProgressInv, TypeOK
    <2>6. \A u \in Worker : Progress(u)' = Progress(u)
      BY <2>1, <2>3, <1>a, <1>b DEF Progress, TypeOK
    <2>7. \A u \in Worker : Progress(u) # 0 => u # w
      BY <2>1 DEF Progress
    <2> QED BY <2>1, <2>5, <2>6, <2>7, <1>a, <1>b DEF Kept, InPlace, TypeOK
  <1>9. ASSUME NEW w \in Worker, EndBenchmark(w) PROVE Kept
    <2>1. /\ wpc[w] = "measuring" /\ wpc' = [wpc EXCEPT ![w] = "notify"]
          /\ accesses = Len(AccessesOf(w)) /\ accesses' = 0
          /\ UNCHANGED <<measuredOn, coreOf>>
      BY <1>9 DEF EndBenchmark, EndMeasure, AccessesOf
    <2>2. \A u \in Worker : wpc[u] = "measuring" => u = w
      BY <2>1, <1>a DEF MutexInv, Running
    <2>3. \A u \in Worker : wpc'[u] # "measuring"
      BY <2>1, <2>2, <1>a DEF TypeOK
    <2>4. ProgressInv'
      BY <2>1, <2>3 DEF ProgressInv
    <2>5. \A u \in Worker : Progress(u)' = Progress(u)
      BY <2>1, <2>2, <1>a, <1>b DEF Progress, TypeOK
    <2> QED BY <2>1, <2>4, <2>5, <1>b DEF Kept, InPlace
  <1> QED BY <1>2, <1>3, <1>4, <1>5, <1>6, <1>7, <1>8, <1>9
          DEF Begins, Accessing, NextTest, Control, TestWorkerStep, WorkerControl

\* At the beginning of a test no benchmark has made an access.
LEMMA ProgressBegins ==
  ASSUME IInv, ProgressInv, Begins
  PROVE  ProgressInv' /\ \A w \in Worker : Progress(w)' = 0
  <1>1. spc = "idle" /\ UNCHANGED accesses /\ \A w \in Worker : wpc'[w] = "unborn"
    BY DEF Begins, CallTest, Call
  <1>2. accesses = 0
    BY <1>1 DEF IInv, HandleInv, Quiet, ProgressInv
  <1> QED BY <1>1, <1>2 DEF ProgressInv, Progress

\* The access that the benchmark of schedule w makes next.
NextAccess(w) == AccessesOf(w)[accesses + 1]

\* An access is the next one of the benchmark in the critical section, on the core
\* that it has been pinned to if it is in place.
LEMMA AccessSteps ==
  ASSUME IInv, ProgressInv, NEW w \in Worker, Access(w)
  PROVE  /\ ProgressInv' /\ UNCHANGED vars /\ UNCHANGED <<test, place, tests>>
         /\ wpc[w] = "measuring" /\ spc # "idle"
         /\ w \in 1 .. Len(svec) /\ svec[w].benchmark \in Benchmarks
         /\ accesses + 1 \in 1 .. Len(AccessesOf(w))
         /\ coreOf[w] \in Core
         /\ InPlace(w) => coreOf[w] = svec[w].core_id
         /\ Progress(w) = accesses
         /\ Progress(w)' = IF Again(NextAccess(w)) THEN accesses ELSE accesses + 1
         /\ \A u \in Worker : u # w => Progress(u)' = Progress(u)
         /\ cache' = AfterAccess(NextAccess(w), coreOf[w])
         /\ wrflag' = FlagsAfter(NextAccess(w))
  <1>1. /\ wpc[w] = "measuring" /\ UNCHANGED vars /\ UNCHANGED <<test, place, tests>>
        /\ accesses < Len(AccessesOf(w))
        /\ accesses' = IF Again(NextAccess(w)) THEN accesses ELSE accesses + 1
        /\ cache' = AfterAccess(NextAccess(w), coreOf[w])
        /\ wrflag' = FlagsAfter(NextAccess(w))
    BY DEF Access, AccessesOf, NextAccess
  <1>2. w \in 1 .. Len(svec) /\ svec[w].benchmark \in Benchmarks
    BY <1>1, BornRuns
  <1>3. Len(AccessesOf(w)) \in Nat /\ accesses \in Nat
    BY <1>2, AccessType DEF AccessesOf, ProgressInv
  <1>4. \A u \in Worker : wpc[u] = "measuring" => u = w
    BY <1>1 DEF IInv, MutexInv, Running
  <1>5. UNCHANGED <<wpc, svec, measuredOn, coreOf, spc>>
    BY <1>1 DEF vars, callVars
  <1>6. ProgressInv'
    BY <1>1, <1>3, <1>4, <1>5 DEF ProgressInv, AccessesOf
  <1>7. coreOf[w] \in Core /\ coreOf[w] \in measuredOn[w]
    BY <1>1 DEF ProgressInv, IInv, TypeOK
  <1>8. spc # "idle"
    BY <1>1 DEF IInv, HandleInv, Quiet
  <1>9. /\ Progress(w) = accesses /\ Progress(w)' = accesses'
        /\ \A u \in Worker : u # w => Progress(u)' = Progress(u)
    BY <1>1, <1>4, <1>5 DEF Progress, AccessesOf
  <1>10. accesses + 1 \in 1 .. Len(AccessesOf(w))
    BY <1>1, <1>3
  <1>11. InPlace(w) => coreOf[w] = svec[w].core_id
    BY <1>7 DEF InPlace
  <1> QED BY <1>1, <1>2, <1>6, <1>7, <1>8, <1>9, <1>10, <1>11

\* How far each benchmark has come is counted right in every step.
LEMMA ProgressStep == IInv /\ ProgressInv /\ [NextTest]_allVars => ProgressInv'
  BY ProgressKept, ProgressBegins, AccessSteps DEF Accessing

-----------------------------------------------------------------------------
(***************************************************************************)
(* The caches.                                                             *)
(***************************************************************************)

\* Loads, stores and flushes keep a line coherent.
LEMMA LoadCoherent ==
  ASSUME NEW line \in [Core -> CoherenceState], CoherentLine(line), NEW k \in Core
  PROVE  Load(line, k) \in [Core -> CoherenceState] /\ CoherentLine(Load(line, k))
  <1>1. CASE line[k] # "I"
    BY <1>1 DEF Load
  <1>2. CASE \A h \in Core : line[h] = "I"
    BY <1>2 DEF Load, CoherentLine, CoherenceState
  <1>3. CASE line[k] = "I" /\ ~ \A h \in Core : line[h] = "I"
    <2>1. Load(line, k) = [h \in Core |-> IF h = k THEN IF Forwarding THEN "F" ELSE "S"
                                          ELSE IF line[h] = "I" THEN "I" ELSE "S"]
      BY <1>3 DEF Load
    <2> QED BY <2>1 DEF CoherentLine, CoherenceState
  <1> QED BY <1>1, <1>2, <1>3

LEMMA StoreCoherent ==
  ASSUME NEW line \in [Core -> CoherenceState], NEW k \in Core
  PROVE  Store(line, k) \in [Core -> CoherenceState] /\ CoherentLine(Store(line, k))
  BY DEF Store, CoherentLine, CoherenceState

LEMMA FlushCoherent ==
  ASSUME NEW line
  PROVE  Flush(line) \in [Core -> CoherenceState] /\ CoherentLine(Flush(line))
  BY DEF Flush, CoherentLine, CoherenceState

\* No sequence of loads, stores and flushes, from whichever cores, makes the caches
\* incoherent.
LEMMA CoherentStep == IInv /\ ProgressInv /\ Coherent /\ [NextTest]_allVars => Coherent'
  <1> SUFFICES ASSUME IInv, ProgressInv, Coherent, [NextTest]_allVars PROVE Coherent'
    OBVIOUS
  <1>1. ASSUME UNCHANGED cache PROVE Coherent'
    BY <1>1 DEF Coherent
  <1>2. CASE Begins
    BY <1>1, <1>2 DEF Begins, CallTest
  <1>3. ASSUME NEW w \in Worker, Access(w) PROVE Coherent'
    <2> DEFINE a == NextAccess(w)
               k == coreOf[w]
    <2>1. /\ cache' = AfterAccess(a, k) /\ k \in Core
          /\ svec[w].benchmark \in Benchmarks /\ accesses + 1 \in 1 .. Len(AccessesOf(w))
      BY <1>3, AccessSteps
    <2>2. a[1] \in {"load", "store"} => a[2] \in Line
      BY <2>1, AccessType DEF AccessesOf, NextAccess
    <2>3. cache \in [Line -> [Core -> CoherenceState]] /\ \A l \in Line : CoherentLine(cache[l])
      BY DEF Coherent
    <2> HIDE DEF a, k
    <2>4. CASE a[1] = "load"
      <3>1. cache' = [cache EXCEPT ![a[2]] = Load(cache[a[2]], k)]
        BY <2>1, <2>4 DEF AfterAccess
      <3>2. /\ Load(cache[a[2]], k) \in [Core -> CoherenceState]
            /\ CoherentLine(Load(cache[a[2]], k))
        BY <2>1, <2>2, <2>3, <2>4, LoadCoherent
      <3> QED BY <2>2, <2>3, <2>4, <3>1, <3>2 DEF Coherent
    <2>5. CASE a[1] = "store"
      <3>1. cache' = [cache EXCEPT ![a[2]] = Store(cache[a[2]], k)]
        BY <2>1, <2>5 DEF AfterAccess
      <3>2. /\ Store(cache[a[2]], k) \in [Core -> CoherenceState]
            /\ CoherentLine(Store(cache[a[2]], k))
        BY <2>1, <2>2, <2>3, <2>5, StoreCoherent
      <3> QED BY <2>2, <2>3, <2>5, <3>1, <3>2 DEF Coherent
    <2>6. CASE a[1] = "flush"
      <3>1. cache' = [l \in Line |-> IF l # Behind \/ TailFlushed THEN Flush(cache[l])
                                                                  ELSE cache[l]]
        BY <2>1, <2>6 DEF AfterAccess
      <3> QED BY <2>3, <3>1, FlushCoherent DEF Coherent
    <2>7. CASE a[1] \notin {"load", "store", "flush"}
      BY <1>1, <2>1, <2>7 DEF AfterAccess
    <2> QED BY <2>4, <2>5, <2>6, <2>7
  <1> QED BY <1>1, <1>2, <1>3, OtherSteps DEF Accessing

-----------------------------------------------------------------------------
(***************************************************************************)
(* The flags.                                                              *)
(***************************************************************************)

\* The tests on states and flushes do not touch the flags.
LEMMA CacheAccess ==
  ASSUME NEW b \in {"flusher", "reader", "writer"}, NEW n \in 1 .. Len(Accesses[b])
  PROVE  Accesses[b][n][1] \in {"flush", "load", "store"}
  <1>1. CASE b = "flusher"
    <2>1. Accesses[b] = <<<<"flush", 0>>>>
      BY <1>1 DEF Accesses, FlusherAccesses, Benchmarks
    <2> QED BY <2>1
  <1>2. CASE b = "reader"
    <2>1. Accesses[b] = ReaderAccesses
      BY <1>2 DEF Accesses, Benchmarks
    <2> QED BY <2>1, ReaderShape
  <1>3. CASE b = "writer"
    <2>1. Accesses[b] = WriterAccesses
      BY <1>3 DEF Accesses, Benchmarks
    <2> QED BY <2>1, WriterShape
  <1> QED BY <1>1, <1>2, <1>3

\* An access to no flag leaves the flags alone and is not tried again.
LEMMA NoFlagAccess ==
  ASSUME NEW a, a[1] \in {"flush", "load", "store"}
  PROVE  FlagsAfter(a) = wrflag /\ ~ Again(a)
  BY DEF FlagsAfter, Again

\* An access to flag k.
LEMMA FlagAccess ==
  ASSUME NEW k
  PROVE  /\ FlagsAfter(<<"add", k>>) = [wrflag EXCEPT ![k] = @ - 1]
         /\ FlagsAfter(<<"set", k>>) = [wrflag EXCEPT ![k] = 1]
         /\ FlagsAfter(<<"clear", k>>) = [wrflag EXCEPT ![k] = 0]
         /\ ~ Again(<<"add", k>>)
         /\ Again(<<"set", k>>) <=> wrflag[k] = 0
         /\ Again(<<"clear", k>>) <=> wrflag[k] # 0
  BY DEF FlagsAfter, FlagUp, Again

\* The vectors of the flag tests have two schedules.
LEMMA FlagWorkers ==
  ASSUME NEW t \in Tests, NEW c \in Placements, t \in {"PRODUCER_CONSUMER", "READER_WRITER"}
  PROVE  1 \in Worker /\ 2 \in Worker
  <1>1. Len(TestVec(t, c)) = 2
    BY FlagVec
  <1>2. Len(TestVec(t, c)) <= MaxSched
    BY TestIsCall, ConstantsAssumption
  <1> QED BY <1>1, <1>2, ConstantsAssumption DEF Worker

\* When PRODUCER_CONSUMER returns, both benchmarks have passed every flag.
LEMMA BothPassed ==
  ASSUME IInv, VecInv, test = "PRODUCER_CONSUMER", spc = "finish", NEW k \in 1 .. LineCount
  PROVE  Produced(k) /\ Consumed(k)
  <1>1. svec = TestVec("PRODUCER_CONSUMER", place) /\ test \in Tests /\ place \in Placements
    BY DEF VecInv
  <1>2. 1 \in Worker /\ 2 \in Worker /\ Len(svec) = 2
    BY <1>1, FlagWorkers, FlagVec
  <1>3. wpc[1] = "exited" /\ wpc[2] = "exited"
    BY <1>2 DEF IInv, IndexInv, BornInv, HandleInv, Quiet
  <1>4. AccessesOf(1) = ProducerAccesses /\ AccessesOf(2) = ConsumerAccesses
    BY <1>1, FlagVec DEF AccessesOf, Accesses, Benchmarks
  <1>5. Progress(1) = 3 * LineCount /\ Progress(2) = 2 * LineCount
    BY <1>3, <1>4, ProducerShape, ConsumerShape DEF Progress
  <1> QED BY <1>5, LineCountNat DEF Produced, Consumed

\* The access of a producer or a consumer takes a flag to where the other expects it.
LEMMA PassStep ==
  ASSUME IInv, VecInv, ProgressInv, FlagInv, test = "PRODUCER_CONSUMER",
         NEW w \in Worker, Access(w)
  PROVE  FlagInv'
  <1> DEFINE a == NextAccess(w)
             n == accesses + 1
  <1>1. /\ w \in 1 .. Len(svec) /\ n \in 1 .. Len(AccessesOf(w)) /\ accesses \in Nat
        /\ Progress(w) = accesses /\ Progress(w)' = IF Again(a) THEN accesses ELSE n
        /\ \A u \in Worker : u # w => Progress(u)' = Progress(u)
        /\ wrflag' = FlagsAfter(a)
        /\ UNCHANGED <<test, spc>> /\ spc # "idle"
    BY AccessSteps DEF vars, ProgressInv
  <1>2. svec = TestVec("PRODUCER_CONSUMER", place) /\ test \in Tests /\ place \in Placements
    BY <1>1 DEF VecInv
  <1>3. 1 \in Worker /\ 2 \in Worker /\ Len(svec) = 2
    BY <1>2, FlagWorkers, FlagVec
  <1>4. AccessesOf(1) = ProducerAccesses /\ AccessesOf(2) = ConsumerAccesses
    BY <1>2, FlagVec DEF AccessesOf, Accesses, Benchmarks
  <1>5. wrflag \in [1 .. LineCount -> Int] /\ \A k \in 1 .. LineCount : wrflag[k] \in PassedFlag(k)
    BY <1>1 DEF FlagInv
  <1>6. SUFFICES /\ wrflag' \in [1 .. LineCount -> Int]
                 /\ \A k \in 1 .. LineCount : wrflag'[k] \in PassedFlag(k)'
    BY <1>1 DEF FlagInv
  <1>7. CASE w = 1
    <2>1. PICK k \in 1 .. LineCount :
            \/ n = 3 * k - 2 /\ a = <<"store", Visited(k)>>
            \/ n = 3 * k - 1 /\ a = <<"load", Visited(k)>>
            \/ n = 3 * k /\ a = <<"add", k>>
      BY <1>1, <1>4, <1>7, ProducerShape DEF NextAccess
    <2>2. Progress(1) = n - 1 /\ Progress(1)' = n /\ Progress(2)' = Progress(2)
      BY <1>1, <1>3, <1>7, <2>1 DEF Again
    <2>3. \A l \in 1 .. LineCount : Consumed(l)' = Consumed(l)
      BY <2>2 DEF Consumed
    <2>4. CASE n # 3 * k
      <3>1. wrflag' = wrflag
        BY <1>1, <2>1, <2>4, NoFlagAccess
      <3>2. \A l \in 1 .. LineCount : Produced(l)' = Produced(l)
        BY <1>1, <2>1, <2>2, <2>4 DEF Produced
      <3> QED BY <1>5, <2>3, <3>1, <3>2 DEF PassedFlag
    <2>5. CASE n = 3 * k
      <3>0. a = <<"add", k>>
        BY <1>1, <2>1, <2>5
      <3>1. wrflag' = [wrflag EXCEPT ![k] = @ - 1]
        BY <1>1, <3>0, FlagAccess
      <3>2. \A l \in 1 .. LineCount : l # k => Produced(l)' = Produced(l)
        BY <1>1, <2>2, <2>5 DEF Produced
      <3>3. Produced(k)' /\ ~ Produced(k)
        BY <1>1, <2>2, <2>5 DEF Produced
      <3> QED BY <1>5, <2>3, <3>1, <3>2, <3>3 DEF PassedFlag
    <2> QED BY <2>4, <2>5
  <1>8. CASE w = 2
    <2>1. PICK k \in 1 .. LineCount :
            \/ n = 2 * k - 1 /\ a = <<"set", k>>
            \/ n = 2 * k /\ a = <<"load", Visited(k)>>
      BY <1>1, <1>4, <1>8, ConsumerShape DEF NextAccess
    <2>2. Progress(1)' = Progress(1) /\ Progress(2) = n - 1
      BY <1>1, <1>3, <1>8
    <2>3. \A l \in 1 .. LineCount : Produced(l)' = Produced(l)
      BY <2>2 DEF Produced
    <2>4. CASE n = 2 * k
      <3>1. wrflag' = wrflag /\ Progress(2)' = n
        BY <1>1, <1>8, <2>1, <2>4, NoFlagAccess
      <3>2. \A l \in 1 .. LineCount : Consumed(l)' = Consumed(l)
        BY <1>1, <2>2, <2>4, <3>1 DEF Consumed
      <3> QED BY <1>5, <2>3, <3>1, <3>2 DEF PassedFlag
    <2>5. CASE n = 2 * k - 1
      <3>0. a = <<"set", k>>
        BY <1>1, <2>1, <2>5
      <3>1. wrflag' = [wrflag EXCEPT ![k] = 1]
        BY <1>1, <3>0, FlagAccess
      <3>2. ~ Consumed(k)
        BY <1>1, <2>2, <2>5 DEF Consumed
      <3>r. Again(a) <=> wrflag[k] = 0
        BY <3>0, FlagAccess
      <3>3. Progress(2)' = IF wrflag[k] = 0 THEN n - 1 ELSE n
        <4> HIDE DEF a
        <4> QED BY <1>1, <1>8, <3>r
      <3>4. \A l \in 1 .. LineCount : l # k => Consumed(l)' = Consumed(l)
        BY <1>1, <2>2, <2>5, <3>3 DEF Consumed
      <3>5. Consumed(k)' = (wrflag[k] # 0)
        BY <1>1, <2>2, <2>5, <3>3 DEF Consumed
      <3> QED BY <1>5, <2>3, <3>1, <3>2, <3>4, <3>5 DEF PassedFlag
    <2> QED BY <2>1, <2>4, <2>5
  <1> QED BY <1>1, <1>3, <1>7, <1>8

\* An earlier invocation has a smaller number.
LEMMA EarlierInvocation ==
  ASSUME NEW L \in Nat \ {0}, NEW q \in 0 .. Invocations - 1, NEW r \in 0 .. Invocations - 1,
         2 * L * q < 2 * L * r
  PROVE  q < r
  <1>1. q \in {0, 1, 2, 3, 4, 5} /\ r \in {0, 1, 2, 3, 4, 5}
    BY DEF Invocations
  <1> QED BY <1>1

\* In reader_writer.cpp the writer takes one from a flag in each of its invocations,
\* and the reader only puts it back to 0.
LEMMA CountdownStep ==
  ASSUME IInv, VecInv, OneCallInv, ProgressInv, FlagInv, test = "READER_WRITER",
         NEW w \in Worker, Access(w)
  PROVE  FlagInv'
  <1> DEFINE a == NextAccess(w)
             n == accesses + 1
             At(r, k) == 2 * LineCount * r + 2 * k
             Down(r, k) == Progress(2) < At(r, k) => wrflag[k] >= - r
  <1>1. /\ w \in 1 .. Len(svec) /\ n \in 1 .. Len(AccessesOf(w)) /\ accesses \in Nat
        /\ Progress(w) = accesses /\ Progress(w)' = IF Again(a) THEN accesses ELSE n
        /\ \A u \in Worker : u # w => Progress(u)' = Progress(u)
        /\ wrflag' = FlagsAfter(a)
        /\ UNCHANGED <<test, tests>> /\ spc # "idle"
    BY AccessSteps DEF vars, ProgressInv
  <1>2. svec = TestVec("READER_WRITER", place) /\ test \in Tests /\ place \in Placements
    BY <1>1 DEF VecInv
  <1>3. 1 \in Worker /\ 2 \in Worker /\ Len(svec) = 2
    BY <1>2, FlagWorkers, FlagVec
  <1>4. AccessesOf(1) = ReaderRwAccesses /\ AccessesOf(2) = WriterRwAccesses
    BY <1>2, FlagVec DEF AccessesOf, Accesses, Benchmarks
  <1>5. tests # 0
    BY <1>1 DEF OneCallInv, IInv, NewInv
  <1>6. /\ wrflag \in [1 .. LineCount -> Int]
        /\ \A k \in 1 .. LineCount : wrflag[k] \in - Invocations .. 0
        /\ \A k \in 1 .. LineCount, r \in 0 .. Invocations - 1 : Down(r, k)
    BY <1>5 DEF FlagInv
  <1>7. SUFFICES /\ wrflag' \in [1 .. LineCount -> Int]
                 /\ \A k \in 1 .. LineCount : wrflag'[k] \in - Invocations .. 0
                 /\ \A k \in 1 .. LineCount, r \in 0 .. Invocations - 1 : Down(r, k)'
    BY <1>1, <1>5 DEF FlagInv
  <1>8. CASE w = 1
    <2>1. PICK q \in 0 .. Invocations - 1, k \in 1 .. LineCount :
            a = <<"clear", k>> \/ a = <<"load", k - 1>>
      BY <1>1, <1>4, <1>8, ReaderRwShape DEF NextAccess
    <2>2. Progress(2)' = Progress(2)
      BY <1>1, <1>3, <1>8
    <2>3. wrflag' = wrflag \/ wrflag' = [wrflag EXCEPT ![k] = 0]
      <3>1. CASE a = <<"clear", k>>
        BY <1>1, <3>1, FlagAccess
      <3>2. CASE a = <<"load", k - 1>>
        BY <1>1, <3>2, NoFlagAccess
      <3> QED BY <2>1, <3>1, <3>2
    <2>4. \A l \in 1 .. LineCount : wrflag'[l] = wrflag[l] \/ wrflag'[l] = 0
      BY <1>6, <2>3
    <2>5. wrflag' \in [1 .. LineCount -> Int]
      BY <1>6, <2>3
    <2>6. \A l \in 1 .. LineCount, r \in 0 .. Invocations - 1 : Down(r, l)'
      <3> HIDE DEF At
      <3> QED BY <1>6, <2>2, <2>4
    <2> QED BY <1>6, <2>4, <2>5, <2>6 DEF Invocations
  <1>9. CASE w = 2
    <2>1. PICK q \in 0 .. Invocations - 1, k \in 1 .. LineCount :
            \/ n = 2 * LineCount * q + 2 * k - 1 /\ a = <<"store", k - 1>>
            \/ n = 2 * LineCount * q + 2 * k /\ a = <<"add", k>>
      <3>1. n \in 1 .. Invocations * (2 * LineCount) /\ a = WriterRwAccesses[n]
        BY <1>1, <1>4, <1>9, WriterRwShape DEF NextAccess
      <3> HIDE DEF a, n
      <3> QED BY <3>1, WriterRwShape, Zenon
    <2>2. \A r \in 0 .. Invocations - 1, l \in 1 .. LineCount : At(r, l) \in Int
      BY LineCountNat DEF Invocations
    <2>3. ~ Again(a)
      BY <2>1 DEF Again
    <2>4. Progress(2) = n - 1 /\ Progress(2)' = n
      <3> HIDE DEF a
      <3> QED BY <1>1, <1>9, <2>3
    <2>5. CASE a = <<"store", k - 1>>
      <3>1. wrflag' = wrflag
        BY <1>1, <2>5, NoFlagAccess
      <3>2. ASSUME NEW l \in 1 .. LineCount, NEW r \in 0 .. Invocations - 1 PROVE Down(r, l)'
        <4>1. At(r, l) \in Int /\ Down(r, l)
          BY <1>6, <2>2
        <4> HIDE DEF At
        <4> QED BY <1>1, <2>4, <3>1, <4>1
      <3> QED BY <1>6, <3>1, <3>2
    <2>6. CASE n = At(q, k) /\ a = <<"add", k>>
      <3>1. wrflag' = [wrflag EXCEPT ![k] = @ - 1]
        BY <1>1, <2>6, FlagAccess
      <3>2. ASSUME NEW r \in 0 .. Invocations - 1, At(q, k) < At(r, k) PROVE q < r
        <4>1. 2 * LineCount * q \in Int /\ 2 * LineCount * r \in Int
          BY LineCountNat DEF Invocations
        <4>2. 2 * LineCount * q < 2 * LineCount * r
          BY <3>2, <4>1
        <4> QED BY <4>2, LineCountNat, EarlierInvocation
      <3> HIDE DEF At
      <3>3. wrflag[k] >= - q
        BY <1>1, <1>6, <2>2, <2>4, <2>6
      <3>4. wrflag'[k] \in - Invocations .. 0
        BY <1>6, <3>1, <3>3 DEF Invocations
      <3>5. \A r \in 0 .. Invocations - 1 : Down(r, k)'
        BY <1>6, <2>4, <2>6, <3>1, <3>2, <3>3 DEF Invocations
      <3>6. ASSUME NEW l \in 1 .. LineCount, NEW r \in 0 .. Invocations - 1, l # k
            PROVE  Down(r, l)'
        <4>1. At(r, l) \in Int /\ Down(r, l)
          BY <1>6, <2>2
        <4>2. wrflag'[l] = wrflag[l]
          BY <1>6, <3>1, <3>6
        <4> QED BY <1>1, <2>4, <4>1, <4>2
      <3> QED BY <1>6, <3>1, <3>4, <3>5, <3>6
    <2> QED BY <2>1, <2>5, <2>6
  <1> QED BY <1>1, <1>3, <1>8, <1>9

\* A call returns by its last step only.
LEMMA ReturnsAtEnd ==
  ASSUME [NextTest]_allVars, ~ Begins, spc # "idle", spc' = "idle"
  PROVE  spc = "finish"
  <1> USE DEF callVars, loopVars, threadVars, memVars
  <1>1. CASE Construct \/ TestsHalted \/ UNCHANGED allVars
    BY <1>1 DEF Construct, TestsHalted, Halted, allVars, vars
  <1>2. CASE Control
    BY <1>2 DEF Control, SchedulerStep, Spawn, PinLive, PinExited, PinFails,
                CountersFail, PinJoined,
                Release, NotifyAll, NotifyOne, Await, Join, JoinJoined, JoinDone, Finish,
                AfterPin, LoopHead
  <1>3. CASE Environment
    BY <1>3 DEF Environment, SpuriousWake, PapiFails
  <1>4. ASSUME NEW w \in Worker, TestWorkerStep(w) PROVE FALSE
    BY <1>4 DEF TestWorkerStep, Access, EndBenchmark, EndMeasure, WorkerControl, Acquire,
                WarmUp, BeginMeasure, WakeOne, vars
  <1> QED BY <1>1, <1>2, <1>3, <1>4 DEF NextTest, Begins

\* A test that uses the flags is run with the vector made for it; no other test
\* touches them.
LEMMA OtherAccess ==
  ASSUME IInv, VecInv, ProgressInv, test \notin {"PRODUCER_CONSUMER", "READER_WRITER"},
         NEW w \in Worker, Access(w)
  PROVE  /\ w \in 1 .. Len(svec) /\ svec = TestVec(test, place) /\ test \in PriorityTests
         /\ svec[w].benchmark \in {"flusher", "reader", "writer"}
         /\ NextAccess(w)[1] \in {"flush", "load", "store"}
         /\ UNCHANGED wrflag
         /\ Progress(w) = accesses /\ Progress(w)' = accesses + 1
  <1>1. /\ w \in 1 .. Len(svec) /\ accesses + 1 \in 1 .. Len(AccessesOf(w))
        /\ wrflag' = FlagsAfter(NextAccess(w)) /\ spc # "idle" /\ Progress(w) = accesses
        /\ Progress(w)' = IF Again(NextAccess(w)) THEN accesses ELSE accesses + 1
    BY AccessSteps
  <1>2. svec = TestVec(test, place) /\ test \in PriorityTests
    BY <1>1, RunTestAssumption DEF VecInv, PriorityTests
  <1>3. svec[w].benchmark \in {"flusher", "reader", "writer"}
    BY <1>1, <1>2, PriorityVec
  <1>4. NextAccess(w)[1] \in {"flush", "load", "store"}
    BY <1>1, <1>3, CacheAccess DEF NextAccess, AccessesOf
  <1> HIDE DEF NextAccess
  <1> QED BY <1>1, <1>2, <1>3, <1>4, NoFlagAccess

\* The flags are right whoever takes the mutex first, and in every sequence of tests.
LEMMA FlagStep ==
  ASSUME IInv, VecInv, OneCallInv, ProgressInv, FlagInv, [NextTest]_allVars
  PROVE  FlagInv'
  <1>1. ASSUME NEW t \in Tests, NEW c \in Placements, CallTest(t, c) PROVE FlagInv'
    <2>1. /\ test' = t /\ tests' = tests + 1 /\ UNCHANGED wrflag /\ spc = "idle" /\ ~ Finished
          /\ t = "READER_WRITER" <=> test = "READER_WRITER"
      BY <1>1 DEF CallTest, Call
    <2>2. \A w \in Worker : Progress(w)' = 0
      BY <1>1, ProgressBegins DEF Begins
    <2>3. CASE t = "READER_WRITER"
      <3>1. tests = 0 /\ test = "READER_WRITER"
        BY <2>1, <2>3 DEF OneCallInv, Finished
      <3>2. /\ wrflag \in [1 .. LineCount -> Int] /\ \A k \in 1 .. LineCount : wrflag[k] = 0
        BY <3>1 DEF FlagInv
      <3> QED BY <2>1, <2>3, <3>1, <3>2 DEF FlagInv, Invocations
    <2>4. CASE t # "READER_WRITER"
      <3>1. /\ wrflag \in [1 .. LineCount -> Int]
            /\ \A k \in 1 .. LineCount : wrflag[k] \in {0, 1}
        BY <2>1, <2>4 DEF FlagInv
      <3>2. CASE t = "PRODUCER_CONSUMER"
        <4>1. Progress(1)' = 0 /\ Progress(2)' = 0
          BY <2>2, <3>2, FlagWorkers
        <4>2. \A k \in 1 .. LineCount : PassedFlag(k)' = {0, 1}
          BY <4>1, LineCountNat DEF PassedFlag, Produced, Consumed
        <4> QED BY <2>1, <3>1, <3>2, <4>2 DEF FlagInv
      <3>3. CASE t # "PRODUCER_CONSUMER"
        BY <2>1, <2>4, <3>1, <3>3 DEF FlagInv
      <3> QED BY <3>2, <3>3
    <2> QED BY <2>3, <2>4
  <1>2. ASSUME NEW w \in Worker, Access(w) PROVE FlagInv'
    <2>1. CASE test \notin {"PRODUCER_CONSUMER", "READER_WRITER"}
      <3>1. UNCHANGED <<wrflag, test>>
        BY <1>2, <2>1, OtherAccess, AccessSteps
      <3> QED BY <2>1, <3>1 DEF FlagInv
    <2> QED BY <1>2, <2>1, PassStep, CountdownStep
  <1>3. ASSUME ~ Begins, ~ Accessing PROVE FlagInv'
    <2>1. UNCHANGED <<wrflag, test, tests>>
      BY <1>3, OtherSteps
    <2>2. \A w \in Worker : Progress(w)' = Progress(w)
      BY <1>3, ProgressKept
    <2>3. test \in Tests /\ place \in Placements
      BY DEF VecInv
    <2>4. CASE test \notin {"PRODUCER_CONSUMER", "READER_WRITER"}
      BY <2>1, <2>4 DEF FlagInv
    <2>5. CASE test = "READER_WRITER"
      <3>1. Progress(2)' = Progress(2)
        BY <2>2, <2>3, <2>5, FlagWorkers
      <3> QED BY <2>1, <2>5, <3>1 DEF FlagInv
    <2>6. CASE test = "PRODUCER_CONSUMER"
      <3>1. Progress(1)' = Progress(1) /\ Progress(2)' = Progress(2)
        BY <2>2, <2>3, <2>6, FlagWorkers
      <3>2. \A k \in 1 .. LineCount : PassedFlag(k)' = PassedFlag(k)
        BY <3>1 DEF PassedFlag, Produced, Consumed
      <3>3. CASE spc = "idle" \/ spc' # "idle"
        <4>1. spc = "idle" <=> spc' = "idle"
          BY <1>3, <3>3, IdleStays
        <4> QED BY <2>1, <2>6, <3>2, <4>1 DEF FlagInv
      <3>4. CASE spc # "idle" /\ spc' = "idle"
        <4>1. \A k \in 1 .. LineCount : Produced(k) /\ Consumed(k)
          BY <1>3, <2>6, <3>4, ReturnsAtEnd, BothPassed
        <4>2. /\ wrflag \in [1 .. LineCount -> Int]
              /\ \A k \in 1 .. LineCount : wrflag[k] \in {0, 1}
          BY <2>6, <3>4, <4>1 DEF FlagInv, PassedFlag
        <4> QED BY <2>1, <2>6, <3>4, <4>2 DEF FlagInv
      <3> QED BY <3>3, <3>4
    <2> QED BY <2>4, <2>5, <2>6
  <1> QED BY <1>1, <1>2, <1>3 DEF Begins, Accessing

\* What FlagInv promises to a reader of the flags.
LEMMA FlagInvBounds ==
  ASSUME FlagInv
  PROVE  FlagsBounded
  BY DEF FlagInv, FlagsBounded, PassedFlag

-----------------------------------------------------------------------------
(***************************************************************************)
(* The order of the benchmarks of counters_with_priority_schedule.         *)
(***************************************************************************)

\* A test that is not one of the two on flags has been given to the method.
LEMMA PriorityTest ==
  ASSUME IInv, VecInv, ~ Scheduled, svec # <<>>
  PROVE  /\ svec = TestVec(test, place) /\ test \in PriorityTests
         /\ Len(svec) \in Nat /\ Len(svec) >= 3 /\ \A w \in 1 .. Len(svec) : w \in Worker
         /\ \A w \in 1 .. Len(svec) : svec[w].benchmark \in {"flusher", "reader", "writer"}
  <1>1. svec = TestVec(test, place) /\ test \in Tests /\ method = MethodOf(test)
    BY DEF VecInv
  <1>2. test \notin {"PRODUCER_CONSUMER", "READER_WRITER"}
    BY <1>1 DEF MethodOf, Scheduled
  <1>3. test \in PriorityTests
    BY <1>1, <1>2, RunTestAssumption DEF PriorityTests
  <1>4. Len(svec) <= MaxSched /\ Len(svec) \in Nat
    BY SvecType DEF IInv
  <1> QED BY <1>1, <1>3, <1>4, PriorityVec, ConstantsAssumption DEF Worker

\* What the three benchmarks do with their first access, and how many they make.
LEMMA PriorityAccesses ==
  ASSUME NEW w, svec[w].benchmark \in {"flusher", "reader", "writer"}
  PROVE  /\ svec[w].benchmark = "flusher" => AccessesOf(w) = <<<<"flush", 0>>>>
         /\ svec[w].benchmark = "reader" => AccessesOf(w) = ReaderAccesses
         /\ svec[w].benchmark = "writer" => AccessesOf(w) = WriterAccesses
         /\ \A l \in Common : /\ Reaches(svec[w].benchmark, l) \in 1 .. Len(AccessesOf(w))
         /\ Len(AccessesOf(w)) \in Nat \ {0}
  <1>1. CASE svec[w].benchmark = "flusher"
    <2>1. AccessesOf(w) = <<<<"flush", 0>>>>
      BY <1>1 DEF AccessesOf, Accesses, FlusherAccesses, Benchmarks
    <2> QED BY <1>1, <2>1 DEF Reaches
  <1>2. CASE svec[w].benchmark = "reader"
    <2>1. AccessesOf(w) = ReaderAccesses
      BY <1>2 DEF AccessesOf, Accesses, Benchmarks
    <2> QED BY <1>2, <2>1, ReaderShape, LineCountNat DEF Reaches, Common
  <1>3. CASE svec[w].benchmark = "writer"
    <2>1. AccessesOf(w) = WriterAccesses
      BY <1>3 DEF AccessesOf, Accesses, Benchmarks
    <2> QED BY <1>3, <2>1, WriterShape, LineCountNat DEF Reaches, Common
  <1> QED BY <1>1, <1>2, <1>3

\* When a benchmark has been started, all before it have made all their accesses; those
\* after a benchmark that has not ended have made none.
LEMMA ProgressOrder ==
  ASSUME IInv, ~ Scheduled, NEW u \in Worker, wpc[u] # "unborn", NEW w \in Worker
  PROVE  /\ w < u => wpc[w] = "exited" /\ Progress(w) = Len(AccessesOf(w))
         /\ w > u /\ wpc[u] # "exited" => wpc[w] = "unborn" /\ Progress(w) = 0
  <1>1. u <= i /\ i \in Nat /\ u \in Nat /\ w \in Nat
    BY ConstantsAssumption DEF IInv, BornInv, TypeOK, Worker
  <1>2. w < u => wpc[w] = "exited"
    BY <1>1 DEF IInv, OrderInv
  <1>3. ASSUME w > u, wpc[u] # "exited" PROVE wpc[w] = "unborn"
    <2>1. u = i
      BY <1>1, <1>3 DEF IInv, OrderInv
    <2> QED BY <1>1, <1>3, <2>1 DEF IInv, BornInv
  <1> QED BY <1>2, <1>3 DEF Progress

\* A benchmark that has made an access comes after benchmarks that have made theirs.
LEMMA ProgressStarted ==
  ASSUME NEW w \in Worker, Progress(w) # 0
  PROVE  wpc[w] # "unborn"
  BY DEF Progress

-----------------------------------------------------------------------------
(***************************************************************************)
(* The flushers.                                                           *)
(***************************************************************************)

\* When a test begins, none of its benchmarks has reached any line.
LEMMA NothingReached ==
  ASSUME IInv, ProgressInv, NEW t \in Tests, NEW c \in Placements, CallTest(t, c)
  PROVE  \A w \in 1 .. Len(svec') : w \in Worker /\ Progress(w)' = 0
  <1>1. svec' = TestVec(t, c)
    BY DEF CallTest, Call
  <1>2. Len(svec') <= MaxSched /\ Len(svec') \in Nat
    <2>1. TestVec(t, c) \in Seq(Schedule) /\ Len(TestVec(t, c)) <= MaxSched
      BY TestIsCall, ConstantsAssumption
    <2> QED BY <1>1, <2>1, LenProperties
  <1>3. \A w \in Worker : Progress(w)' = 0
    BY ProgressBegins DEF Begins
  <1> QED BY <1>2, <1>3, ConstantsAssumption DEF Worker

\* No flusher is followed by an access that FlushInv overlooks: the next schedule
\* makes its first access after the flush, and later ones come after the next.
LEMMA FlushStep ==
  ASSUME IInv, VecInv, ProgressInv, FlushInv, [NextTest]_allVars
  PROVE  FlushInv'
  <1>1. ASSUME NEW t \in Tests, NEW c \in Placements, CallTest(t, c) PROVE FlushInv'
    <2>1. \A w \in 1 .. Len(svec') : Progress(w)' = 0
      BY <1>1, NothingReached
    <2> QED BY <2>1 DEF FlushInv
  <1>2. ASSUME NEW u \in Worker, Access(u) PROVE FlushInv'
    <2>1. /\ u \in 1 .. Len(svec) /\ wpc[u] = "measuring" /\ spc # "idle"
          /\ UNCHANGED <<svec, method>>
          /\ accesses + 1 \in 1 .. Len(AccessesOf(u)) /\ accesses \in Nat
          /\ \A w \in Worker : w # u => Progress(w)' = Progress(w)
          /\ cache' = AfterAccess(NextAccess(u), coreOf[u])
      BY <1>2, AccessSteps DEF vars, callVars, ProgressInv
    <2>2. SUFFICES ASSUME ~ Scheduled, NEW w \in 1 .. Len(svec) - 1,
                          svec[w].benchmark = "flusher", Progress(w)' >= 1,
                          Progress(w + 1)' = 0
                   PROVE  \A l \in 0 .. LineCount - 1, k \in Core : cache'[l][k] = "I"
      BY <2>1 DEF FlushInv, Scheduled
    <2>3. /\ svec # <<>> /\ test \notin {"PRODUCER_CONSUMER", "READER_WRITER"}
          /\ Len(svec) \in Nat /\ \A x \in 1 .. Len(svec) : x \in Worker
          /\ \A x \in 1 .. Len(svec) : svec[x].benchmark \in {"flusher", "reader", "writer"}
      BY <2>1, <2>2, PriorityTest DEF VecInv, PriorityTests
    <2>4. w \in Worker /\ w + 1 \in Worker /\ u \in Nat /\ w \in Nat
      BY <2>1, <2>3
    <2>5. Progress(u)' = accesses + 1
      BY <1>2, <2>3, OtherAccess
    <2>6. CASE u = w
      <3>1. AccessesOf(u) = <<<<"flush", 0>>>>
        BY <2>2, <2>6, PriorityAccesses
      <3>2. NextAccess(u) = <<"flush", 0>>
        BY <2>1, <3>1 DEF NextAccess
      <3>3. cache' = [l \in Line |-> IF l # Behind \/ TailFlushed THEN Flush(cache[l])
                                                                  ELSE cache[l]]
        BY <2>1, <3>2 DEF AfterAccess
      <3> QED BY <3>3, LineCountNat DEF Line, Behind, Flush
    <2>7. CASE u = w + 1
      BY <2>1, <2>2, <2>5, <2>7
    <2>8. CASE u < w
      BY <2>1, <2>2, <2>4, <2>8, ProgressOrder
    <2>9. CASE u > w + 1
      <3>1. Progress(w + 1) = Len(AccessesOf(w + 1))
        BY <2>1, <2>2, <2>4, <2>9, ProgressOrder
      <3>2. Len(AccessesOf(w + 1)) # 0
        BY <2>2, <2>3, PriorityAccesses
      <3> QED BY <2>1, <2>2, <2>4, <2>9, <3>1, <3>2
    <2> QED BY <2>4, <2>6, <2>7, <2>8, <2>9
  <1>3. ASSUME ~ Begins, ~ Accessing PROVE FlushInv'
    <2>1. UNCHANGED <<cache, svec, method>>
      BY <1>3, OtherSteps
    <2>2. \A w \in 1 .. Len(svec) - 1 : w \in Worker /\ w + 1 \in Worker
      BY SvecType, ConstantsAssumption DEF IInv, Worker
    <2>3. \A w \in Worker : Progress(w)' = Progress(w)
      BY <1>3, ProgressKept
    <2> QED BY <2>1, <2>2, <2>3 DEF FlushInv, Scheduled
  <1> QED BY <1>1, <1>2, <1>3 DEF Begins, Accessing

-----------------------------------------------------------------------------
(***************************************************************************)
(* The recipes.                                                            *)
(***************************************************************************)

\* What a load makes of the lines that the recipes bring about.
LEMMA LoadFromMemory ==
  ASSUME NEW line \in [Core -> CoherenceState], \A h \in Core : line[h] = "I", NEW k \in Core
  PROVE  Load(line, k) = Only(k, "E")
  BY DEF Load, Only

LEMMA LoadOwn ==
  ASSUME NEW k \in Core
  PROVE  Load(Only(k, "M"), k) = Only(k, "M")
  BY DEF Load, Only

LEMMA LoadCopy ==
  ASSUME NEW k \in Core, NEW h \in Core, h # k
  PROVE  SharedBy(Load(Only(k, "M"), h), k, h)
  <1> DEFINE line == Only(k, "M")
  <1>1. line[h] = "I" /\ line[k] = "M" /\ \A x \in Core : x # k => line[x] = "I"
    BY DEF Only
  <1>2. Load(line, h) = [x \in Core |-> IF x = h THEN IF Forwarding THEN "F" ELSE "S"
                                        ELSE IF line[x] = "I" THEN "I" ELSE "S"]
    BY <1>1 DEF Load
  <1> HIDE DEF line
  <1>3. SharedBy(Load(line, h), k, h)
    BY <1>1, <1>2 DEF SharedBy
  <1> QED BY <1>3 DEF line

\* The accesses of each benchmark that concern line l.
LEMMA FlusherAtLine ==
  ASSUME NEW l \in Common, NEW k \in Core
  PROVE  \A h \in Core : AfterAccess(<<"flush", 0>>, k)[l][h] = "I"
  BY LineCountNat DEF AfterAccess, Common, Line, Behind, Flush

LEMMA ReaderAtLine ==
  ASSUME cache \in [Line -> [Core -> CoherenceState]], NEW l \in Common, NEW k \in Core,
         NEW n \in 1 .. LineCount
  PROVE  AfterAccess(ReaderAccesses[n], k)[l] =
           IF n = l + 2 THEN Load(cache[l], k) ELSE cache[l]
  <1>1. ReaderAccesses[n] = <<"load", Visited(n)>>
    BY ReaderShape
  <1>2. AfterAccess(ReaderAccesses[n], k) = [cache EXCEPT ![Visited(n)] = Load(@, k)]
    BY <1>1 DEF AfterAccess
  <1>3. l \in Line /\ (Visited(n) = l <=> n = l + 2)
    BY LineCountNat DEF Visited, Behind, Common, Line
  <1> QED BY <1>2, <1>3

LEMMA WriterAtLine ==
  ASSUME cache \in [Line -> [Core -> CoherenceState]], NEW l \in Common, NEW k \in Core,
         NEW n \in 1 .. 2 * LineCount
  PROVE  AfterAccess(WriterAccesses[n], k)[l] =
           IF n = 2 * l + 2 THEN Store(cache[l], k)
           ELSE IF n = 2 * l + 3 THEN Load(cache[l], k) ELSE cache[l]
  <1>1. PICK m \in 1 .. LineCount :
          \/ n = 2 * m - 1 /\ WriterAccesses[n] = <<"load", Visited(m)>>
          \/ n = 2 * m /\ WriterAccesses[n] = <<"store", Visited(m + 1)>>
    BY WriterShape
  <1>2. l \in Line /\ l \in Nat
    BY LineCountNat DEF Common, Line
  <1>3. CASE n = 2 * m - 1 /\ WriterAccesses[n] = <<"load", Visited(m)>>
    <2>1. AfterAccess(WriterAccesses[n], k) = [cache EXCEPT ![Visited(m)] = Load(@, k)]
      BY <1>3 DEF AfterAccess
    <2>2. Visited(m) = l <=> n = 2 * l + 3
      BY <1>3, LineCountNat DEF Visited, Behind, Common
    <2>3. n # 2 * l + 2
      BY <1>2, <1>3
    <2> QED BY <1>2, <2>1, <2>2, <2>3
  <1>4. CASE n = 2 * m /\ WriterAccesses[n] = <<"store", Visited(m + 1)>>
    <2>1. AfterAccess(WriterAccesses[n], k) = [cache EXCEPT ![Visited(m + 1)] = Store(@, k)]
      BY <1>4 DEF AfterAccess
    <2>2. Visited(m + 1) = l <=> n = 2 * l + 2
      BY <1>4, LineCountNat DEF Visited, Common
    <2>3. n # 2 * l + 3
      BY <1>2, <1>4
    <2> QED BY <1>2, <2>1, <2>2, <2>3
  <1> QED BY <1>1, <1>3, <1>4

\* What each benchmark makes of line l before, at and after the access that reaches it.
LEMMA BeforeReach ==
  ASSUME Coherent, NEW w, svec[w].benchmark \in {"flusher", "reader", "writer"},
         accesses + 1 \in 1 .. Len(AccessesOf(w)), NEW l \in Common, NEW k \in Core,
         accesses + 1 < Reaches(svec[w].benchmark, l)
  PROVE  AfterAccess(NextAccess(w), k)[l] = cache[l]
  <1> DEFINE n == accesses + 1
  <1>1. cache \in [Line -> [Core -> CoherenceState]] /\ l \in Nat
    BY LineCountNat DEF Coherent, Common
  <1>2. CASE svec[w].benchmark = "flusher"
    BY <1>2 DEF Reaches
  <1>3. CASE svec[w].benchmark = "reader"
    <2>1. NextAccess(w) = ReaderAccesses[n] /\ n \in 1 .. LineCount /\ n < l + 2
      BY <1>3, PriorityAccesses, ReaderShape DEF NextAccess, Reaches
    <2> HIDE DEF n
    <2> QED BY <1>1, <2>1, ReaderAtLine
  <1>4. CASE svec[w].benchmark = "writer"
    <2>1. NextAccess(w) = WriterAccesses[n] /\ n \in 1 .. 2 * LineCount /\ n < 2 * l + 2
      BY <1>4, PriorityAccesses, WriterShape DEF NextAccess, Reaches
    <2> HIDE DEF n
    <2> QED BY <1>1, <2>1, WriterAtLine
  <1> QED BY <1>2, <1>3, <1>4

LEMMA AtReach ==
  ASSUME Coherent, NEW w, svec[w].benchmark \in {"flusher", "reader", "writer"},
         accesses + 1 \in 1 .. Len(AccessesOf(w)), NEW l \in Common, NEW k \in Core,
         accesses + 1 = Reaches(svec[w].benchmark, l)
  PROVE  LET line == AfterAccess(NextAccess(w), k)[l]
         IN  /\ svec[w].benchmark = "flusher" => \A h \in Core : line[h] = "I"
             /\ svec[w].benchmark = "reader" => line = Load(cache[l], k)
             /\ svec[w].benchmark = "writer" => line = Only(k, "M")
  <1> DEFINE n == accesses + 1
             line == AfterAccess(NextAccess(w), k)[l]
  <1>1. cache \in [Line -> [Core -> CoherenceState]] /\ l \in Nat
    BY LineCountNat DEF Coherent, Common
  <1>2. ASSUME svec[w].benchmark = "flusher" PROVE \A h \in Core : line[h] = "I"
    <2>1. NextAccess(w) = <<"flush", 0>>
      <3>1. AccessesOf(w) = <<<<"flush", 0>>>> /\ n = 1
        BY <1>2, PriorityAccesses DEF Reaches
      <3> QED BY <3>1 DEF NextAccess
    <2> QED BY <2>1, FlusherAtLine
  <1>3. ASSUME svec[w].benchmark = "reader" PROVE line = Load(cache[l], k)
    <2>1. NextAccess(w) = ReaderAccesses[n] /\ n \in 1 .. LineCount /\ n = l + 2
      BY <1>3, PriorityAccesses, ReaderShape DEF NextAccess, Reaches
    <2> HIDE DEF n
    <2> QED BY <1>1, <2>1, ReaderAtLine
  <1>4. ASSUME svec[w].benchmark = "writer" PROVE line = Only(k, "M")
    <2>1. NextAccess(w) = WriterAccesses[n] /\ n \in 1 .. 2 * LineCount /\ n = 2 * l + 2
      BY <1>4, PriorityAccesses, WriterShape DEF NextAccess, Reaches
    <2>2. line = Store(cache[l], k)
      <3> HIDE DEF n
      <3> QED BY <1>1, <2>1, WriterAtLine
    <2> QED BY <2>2 DEF Store, Only
  <1> QED BY <1>2, <1>3, <1>4

LEMMA AfterReach ==
  ASSUME Coherent, NEW w, svec[w].benchmark \in {"flusher", "reader", "writer"},
         accesses \in Nat, accesses + 1 \in 1 .. Len(AccessesOf(w)), NEW l \in Common, NEW k \in Core,
         accesses >= Reaches(svec[w].benchmark, l)
  PROVE  \/ AfterAccess(NextAccess(w), k)[l] = cache[l]
         \/ /\ svec[w].benchmark = "writer"
            /\ AfterAccess(NextAccess(w), k)[l] = Load(cache[l], k)
  <1> DEFINE n == accesses + 1
  <1>1. cache \in [Line -> [Core -> CoherenceState]] /\ l \in Nat
    BY LineCountNat DEF Coherent, Common
  <1>2. CASE svec[w].benchmark = "flusher"
    <2>1. AccessesOf(w) = <<<<"flush", 0>>>> /\ accesses >= 1
      BY <1>2, PriorityAccesses DEF Reaches
    <2> QED BY <2>1
  <1>3. CASE svec[w].benchmark = "reader"
    <2>1. NextAccess(w) = ReaderAccesses[n] /\ n \in 1 .. LineCount /\ n # l + 2
      BY <1>1, <1>3, PriorityAccesses, ReaderShape DEF NextAccess, Reaches
    <2> HIDE DEF n
    <2> QED BY <1>1, <2>1, ReaderAtLine
  <1>4. CASE svec[w].benchmark = "writer"
    <2>1. NextAccess(w) = WriterAccesses[n] /\ n \in 1 .. 2 * LineCount /\ n # 2 * l + 2
      BY <1>1, <1>4, PriorityAccesses, WriterShape DEF NextAccess, Reaches
    <2> HIDE DEF n
    <2> QED BY <1>1, <1>4, <2>1, WriterAtLine
  <1> QED BY <1>2, <1>3, <1>4

\* The schedule before the one that runs has left the line.
LEMMA ReachedBefore ==
  ASSUME IInv, VecInv, ~ Scheduled, svec # <<>>, NEW u \in 2 .. Len(svec),
         wpc[u] # "unborn", NEW l \in Common
  PROVE  Reached(u - 1, l)
  <1>1. /\ Len(svec) \in Nat /\ \A w \in 1 .. Len(svec) : w \in Worker
        /\ svec[u - 1].benchmark \in {"flusher", "reader", "writer"}
    BY PriorityTest
  <1>2. Progress(u - 1) = Len(AccessesOf(u - 1))
    BY <1>1, ProgressOrder
  <1> QED BY <1>1, <1>2, PriorityAccesses DEF Reached

\* If a benchmark and all before it are in place after a step, and it had made an
\* access before the step, they were in place then.
LEMMA InPlaceKept ==
  ASSUME IInv, ProgressInv, VecInv, [NextTest]_allVars, ~ Begins, ~ Accessing,
         ~ Scheduled, svec # <<>>, NEW w \in 1 .. Len(svec), Progress(w) # 0, InPlaceUpTo(w)'
  PROVE  InPlaceUpTo(w)
  <1>1. /\ Len(svec) \in Nat /\ \A v \in 1 .. Len(svec) : v \in Worker
        /\ \A v \in 1 .. Len(svec) : svec[v].benchmark \in {"flusher", "reader", "writer"}
    BY PriorityTest
  <1>2. ASSUME NEW v \in 1 .. w PROVE InPlace(v)
    <2>1. v \in Worker /\ w \in Worker /\ v \in 1 .. Len(svec)
      BY <1>1
    <2>2. Progress(v) # 0
      <3>1. CASE v = w
        BY <3>1
      <3>2. CASE v < w
        <4>1. Progress(v) = Len(AccessesOf(v))
          BY <2>1, <3>2, ProgressStarted, ProgressOrder
        <4> QED BY <1>1, <2>1, <4>1, PriorityAccesses
      <3> QED BY <1>1, <3>1, <3>2
    <2>3. InPlace(v)'
      BY DEF InPlaceUpTo
    <2> QED BY <2>1, <2>2, <2>3, ProgressKept
  <1> QED BY <1>2 DEF InPlaceUpTo

\* The access by which a benchmark of the recipe reaches a line leaves it as the
\* recipe means it.
LEMMA ReachStep ==
  ASSUME IInv, VecInv, ProgressInv, Coherent, LineInv, ~ Scheduled,
         NEW u \in Worker, Access(u), u <= Len(svec) - 1, NEW l \in Common,
         accesses + 1 = Reaches(svec[u].benchmark, l)
  PROVE  Left(u, cache'[l])
  <1> DEFINE bench == svec[u].benchmark
             core == svec[u].core_id
             line == cache'[l]
  <1>1. /\ u \in 1 .. Len(svec) /\ wpc[u] = "measuring" /\ spc # "idle"
        /\ accesses + 1 \in 1 .. Len(AccessesOf(u)) /\ accesses \in Nat
        /\ Progress(u) = accesses /\ coreOf[u] \in Core
        /\ InPlace(u) => coreOf[u] = svec[u].core_id
        /\ cache' = AfterAccess(NextAccess(u), coreOf[u])
    BY AccessSteps DEF ProgressInv
  <1>2. svec # <<>> /\ svec = TestVec(test, place) /\ test \in PriorityTests
    BY <1>1, PriorityTest DEF VecInv
  <1>3. /\ Len(svec) \in Nat /\ \A w \in 1 .. Len(svec) : w \in Worker
        /\ bench \in {"flusher", "reader", "writer"}
    BY <1>1, <1>2, PriorityTest
  <1>4. /\ bench = "flusher" => \A h \in Core : line[h] = "I"
        /\ bench = "reader" => line = Load(cache[l], coreOf[u])
        /\ bench = "writer" => line = Only(coreOf[u], "M")
    BY <1>1, <1>3, AtReach
  <1>5. InPlaceUpTo(u) => coreOf[u] = core
    BY <1>1 DEF InPlaceUpTo
  <1>6. CASE bench = "flusher"
    BY <1>4, <1>6 DEF Left
  <1>7. CASE bench = "writer"
    BY <1>4, <1>5, <1>7 DEF Left
  <1>8. CASE bench = "reader"
    <2>1. u \in 2 .. Len(svec) - 1
      BY <1>1, <1>2, <1>8, PriorityVec
    <2>2. Left(u - 1, cache[l])
      <3>1. Reached(u - 1, l)
        BY <1>1, <1>2, <2>1, ReachedBefore
      <3>2. ~ Reached(u, l)
        BY <1>1, <1>3 DEF Reached
      <3> QED BY <1>3, <2>1, <3>1, <3>2 DEF LineInv
    <2>3. InPlaceUpTo(u) => InPlaceUpTo(u - 1)
      BY <2>1 DEF InPlaceUpTo
    <2>4. \/ svec[u - 1].benchmark = "flusher"
          \/ svec[u - 1].benchmark = "writer" /\ svec[u - 1].core_id = core
          \/ /\ u > 2 /\ svec[u - 1].benchmark = "reader"
             /\ svec[u - 2].benchmark = "writer" /\ svec[u - 2].core_id = svec[u - 1].core_id
      BY <1>2, <1>8, <2>1, PriorityVec
    <2>5. line = Load(cache[l], coreOf[u]) /\ cache[l] \in [Core -> CoherenceState]
      BY <1>4, <1>8, LineCountNat DEF Coherent, Common, Line
    <2>6. \A v \in 1 .. Len(svec) : svec[v].core_id \in Core
      <3>1. \A v \in 1 .. Len(svec) : svec[v] \in Schedule
        BY SvecType, ElementOfSeq DEF IInv
      <3> QED BY <3>1 DEF Schedule
    <2> HIDE DEF line, core
    <2>7. CASE svec[u - 1].benchmark = "flusher"
      <3>1. \A h \in Core : cache[l][h] = "I"
        BY <2>2, <2>7 DEF Left
      <3>2. line = Only(coreOf[u], "E")
        BY <1>1, <2>5, <3>1, LoadFromMemory
      <3> QED BY <1>1, <1>5, <1>8, <2>7, <3>2 DEF Left, line, core
    <2>8. CASE svec[u - 1].benchmark = "writer"
      <3>1. ASSUME InPlaceUpTo(u) PROVE line = Only(core, "M")
        <4>1. cache[l] = Only(core, "M") /\ coreOf[u] = core /\ core \in Core
          BY <1>1, <1>5, <2>2, <2>3, <2>4, <2>8, <3>1 DEF Left
        <4> QED BY <2>5, <4>1, LoadOwn
      <3> QED BY <1>8, <2>8, <3>1 DEF Left, line, core
    <2>9. CASE svec[u - 1].benchmark = "reader"
      <3>1. ASSUME InPlaceUpTo(u)
            PROVE  IF core = svec[u - 1].core_id THEN line = Only(core, "M")
                   ELSE SharedBy(line, svec[u - 1].core_id, core)
        <4>1. (u - 1) - 1 = u - 2
          BY <2>1
        <4>2. cache[l] = Only(svec[u - 1].core_id, "M")
          BY <2>2, <2>3, <2>4, <2>9, <3>1, <4>1 DEF Left
        <4>3. coreOf[u] = core /\ core \in Core /\ svec[u - 1].core_id \in Core
          BY <1>1, <1>5, <2>1, <2>6, <3>1
        <4> QED BY <2>5, <4>2, <4>3, LoadOwn, LoadCopy
      <3> QED BY <1>8, <2>9, <3>1 DEF Left, line, core
    <2> QED BY <2>4, <2>7, <2>8, <2>9
  <1> QED BY <1>3, <1>6, <1>7, <1>8

\* Every line is as the last schedule that has reached it leaves it.
LEMMA LineStep ==
  ASSUME IInv, VecInv, ProgressInv, Coherent, LineInv, [NextTest]_allVars
  PROVE  LineInv'
  <1>1. ASSUME NEW t \in Tests, NEW c \in Placements, CallTest(t, c) PROVE LineInv'
    <2>1. SUFFICES ASSUME ~ Scheduled', NEW w \in 1 .. Len(svec') - 1, NEW l \in Common
                   PROVE  ~ Reached(w, l)'
      BY DEF LineInv
    <2>2. svec' = TestVec(t, c) /\ method' = MethodOf(t)
      BY <1>1 DEF CallTest, Call
    <2>3. t \in PriorityTests
      BY <2>1, <2>2, RunTestAssumption DEF PriorityTests, MethodOf, Scheduled
    <2>4. w \in 1 .. Len(svec') /\ svec'[w].benchmark \in {"flusher", "reader", "writer"}
      BY <2>1, <2>2, <2>3, PriorityVec
    <2>5. Progress(w)' = 0
      BY <1>1, <2>4, NothingReached
    <2>6. Reaches(svec'[w].benchmark, l) \in Nat \ {0}
      BY <2>4, LineCountNat DEF Reaches, Common
    <2> QED BY <2>5, <2>6 DEF Reached
  <1>2. ASSUME NEW u \in Worker, Access(u) PROVE LineInv'
    <2>1. /\ u \in 1 .. Len(svec) /\ wpc[u] = "measuring" /\ spc # "idle"
          /\ UNCHANGED <<svec, method, measuredOn>>
          /\ accesses + 1 \in 1 .. Len(AccessesOf(u)) /\ accesses \in Nat
          /\ Progress(u) = accesses /\ coreOf[u] \in Core
          /\ InPlace(u) => coreOf[u] = svec[u].core_id
          /\ \A w \in Worker : w # u => Progress(w)' = Progress(w)
          /\ cache' = AfterAccess(NextAccess(u), coreOf[u])
      BY <1>2, AccessSteps DEF vars, callVars, ProgressInv
    <2>2. SUFFICES ASSUME ~ Scheduled, NEW w \in 1 .. Len(svec) - 1, NEW l \in Common,
                          Reached(w, l)', ~ Reached(w + 1, l)'
                   PROVE  Left(w, cache'[l])
      <3>1. SUFFICES ASSUME ~ Scheduled, NEW w \in 1 .. Len(svec) - 1, NEW l \in Common,
                            Reached(w, l)', ~ Reached(w + 1, l)'
                     PROVE  Left(w, cache[l])'
        BY <2>1 DEF LineInv, Scheduled
      <3>2. InPlaceUpTo(w)' <=> InPlaceUpTo(w)
        BY <2>1 DEF InPlaceUpTo, InPlace
      <3>3. Left(w, cache'[l]) => Left(w, cache[l])'
        BY <2>1, <3>2 DEF Left
      <3> QED BY <3>1, <3>3
    <2>3. svec # <<>>
      BY <2>1 DEF VecInv
    <2>4. /\ Len(svec) \in Nat /\ \A x \in 1 .. Len(svec) : x \in Worker
          /\ \A x \in 1 .. Len(svec) : svec[x].benchmark \in {"flusher", "reader", "writer"}
          /\ test \notin {"PRODUCER_CONSUMER", "READER_WRITER"}
      BY <2>2, <2>3, PriorityTest DEF PriorityTests
    <2>5. Progress(u)' = accesses + 1
      BY <1>2, <2>4, OtherAccess
    <2>6. w \in Worker /\ w + 1 \in Worker /\ u \in Nat /\ w \in Nat /\ w \in 1 .. Len(svec)
          /\ w + 1 \in 1 .. Len(svec)
      BY <2>1, <2>4
    <2>7. \A x \in 1 .. Len(svec) : Reaches(svec[x].benchmark, l) \in 1 .. Len(AccessesOf(x))
      BY <2>4, PriorityAccesses
    <2>8. CASE w > u
      <3>1. Progress(w)' = 0
        BY <2>1, <2>2, <2>6, <2>8, ProgressOrder
      <3>2. Reaches(svec[w].benchmark, l) >= 1
        BY <2>6, <2>7
      <3>3. Progress(w)' >= Reaches(svec[w].benchmark, l)
        BY <2>1, <2>2 DEF Reached
      <3> QED BY <2>6, <2>7, <3>1, <3>2, <3>3
    <2>9. CASE w + 1 < u
      <3>1. Progress(w + 1)' = Len(AccessesOf(w + 1))
        BY <2>1, <2>2, <2>6, <2>9, ProgressOrder
      <3> QED BY <2>1, <2>2, <2>6, <2>7, <3>1 DEF Reached
    <2>10. CASE w + 1 = u
      <3>1. accesses + 1 < Reaches(svec[u].benchmark, l)
        BY <2>1, <2>2, <2>5, <2>7, <2>10 DEF Reached
      <3>2. cache'[l] = cache[l]
        BY <2>1, <2>4, <3>1, BeforeReach
      <3>3. Reached(w, l) /\ ~ Reached(w + 1, l)
        BY <2>1, <2>2, <2>6, <2>7, <2>10, <3>1 DEF Reached
      <3> QED BY <2>2, <3>2, <3>3 DEF LineInv
    <2>11. CASE w = u
      <3>1. accesses + 1 >= Reaches(svec[u].benchmark, l)
        BY <2>1, <2>2, <2>5, <2>11 DEF Reached
      <3>2. CASE accesses + 1 = Reaches(svec[u].benchmark, l)
        BY <1>2, <2>2, <2>11, <3>2, ReachStep
      <3>3. CASE accesses >= Reaches(svec[u].benchmark, l)
        <4>1. Progress(w + 1) = 0
          BY <2>1, <2>2, <2>6, <2>11, ProgressOrder
        <4>2. Reached(u, l)
          BY <2>1, <3>3 DEF Reached
        <4>3. Reaches(svec[w + 1].benchmark, l) \in 1 .. Len(AccessesOf(w + 1))
          BY <2>6, <2>7
        <4>4. ~ Reached(w + 1, l)
          BY <4>1, <4>3 DEF Reached
        <4>5. Left(u, cache[l])
          BY <2>2, <2>11, <4>2, <4>4 DEF LineInv
        <4>6. CASE cache'[l] = cache[l]
          BY <2>11, <4>5, <4>6
        <4>7. CASE svec[u].benchmark = "writer" /\ cache'[l] = Load(cache[l], coreOf[u])
          <5>1. ASSUME InPlaceUpTo(u) PROVE cache'[l] = Only(svec[u].core_id, "M")
            <6>1. coreOf[u] = svec[u].core_id
              BY <2>1, <2>6, <2>11, <5>1 DEF InPlaceUpTo
            <6>2. cache[l] = Only(coreOf[u], "M")
              BY <4>5, <4>7, <5>1, <6>1 DEF Left
            <6> QED BY <2>1, <4>7, <6>1, <6>2, LoadOwn
          <5> QED BY <2>11, <4>7, <5>1 DEF Left
        <4> QED BY <2>1, <2>4, <3>3, <4>6, <4>7, AfterReach
      <3> QED BY <2>1, <2>7, <3>1, <3>2, <3>3
    <2> QED BY <2>6, <2>8, <2>9, <2>10, <2>11
  <1>3. ASSUME ~ Begins, ~ Accessing PROVE LineInv'
    <2>1. UNCHANGED <<cache, svec, method>>
      BY <1>3, OtherSteps
    <2>2. SUFFICES ASSUME ~ Scheduled, NEW w \in 1 .. Len(svec) - 1, NEW l \in Common,
                          Reached(w, l)', ~ Reached(w + 1, l)'
                   PROVE  Left(w, cache[l])'
      BY <2>1 DEF LineInv, Scheduled
    <2>3. svec # <<>>
      OBVIOUS
    <2>4. /\ Len(svec) \in Nat /\ \A x \in 1 .. Len(svec) : x \in Worker
          /\ \A x \in 1 .. Len(svec) : svec[x].benchmark \in {"flusher", "reader", "writer"}
      BY <2>2, <2>3, PriorityTest
    <2>5. w \in 1 .. Len(svec) /\ w + 1 \in 1 .. Len(svec) /\ w \in Worker /\ w + 1 \in Worker
      BY <2>4
    <2>6. Reached(w, l) /\ ~ Reached(w + 1, l)
      <3>1. Progress(w)' = Progress(w) /\ Progress(w + 1)' = Progress(w + 1)
        BY <1>3, <2>5, ProgressKept
      <3> QED BY <2>1, <2>2, <3>1 DEF Reached
    <2>7. Left(w, cache[l])
      BY <2>2, <2>6 DEF LineInv
    <2>8. Progress(w) # 0
      BY <2>4, <2>5, <2>6, PriorityAccesses DEF Reached
    <2>9. InPlaceUpTo(w)' => InPlaceUpTo(w)
      BY <1>3, <2>2, <2>3, <2>5, <2>8, InPlaceKept
    <2> QED BY <2>1, <2>7, <2>9 DEF Left
  <1> QED BY <1>1, <1>2, <1>3 DEF Begins, Accessing

-----------------------------------------------------------------------------
(***************************************************************************)
(* The invariant of the tests.                                             *)
(***************************************************************************)

LEMMA InitTestInv == InitTest => TestInv
  <1> SUFFICES ASSUME InitTest PROVE TestInv
    OBVIOUS
  <1>1. /\ svec = <<>> /\ spc = "idle" /\ calls = 0 /\ accesses = 0 /\ tests = 0
        /\ test \in Tests /\ place = (CHOOSE c \in Placements : TRUE)
        /\ \A w \in Worker : wpc[w] = "unborn"
        /\ wrflag = [k \in 1 .. LineCount |-> IF test = "READER_WRITER" THEN 0 ELSE 1]
    BY DEF InitTest, Init
  <1>2. VecInv
    BY <1>1, RunTestAssumption DEF VecInv
  <1>3. OneCallInv /\ ProgressInv
    BY <1>1 DEF OneCallInv, ProgressInv
  <1>4. Coherent
    <2>1. PICK k \in Core :
            cache = [l \in Line |-> [h \in Core |-> IF h = k THEN "M" ELSE "I"]]
      BY DEF InitTest
    <2> QED BY <2>1 DEF Coherent, CoherentLine, CoherenceState
  <1>5. FlagInv
    BY <1>1 DEF FlagInv, Invocations
  <1>6. FlushInv /\ LineInv
    BY <1>1 DEF FlushInv, LineInv
  <1> QED BY <1>2, <1>3, <1>4, <1>5, <1>6 DEF TestInv

LEMMA TestInvStep == IInv /\ TestInv /\ [NextTest]_allVars => TestInv'
  BY VecStep, OneCallStep, ProgressStep, CoherentStep, FlagStep, FlushStep, LineStep
  DEF TestInv

\* TestInv holds in every sequence of tests, for every arch.cfg, on MESI and on MESIF,
\* wherever the operating system or PinLive moves a thread.
THEOREM TestInvariance == SpecTest => []TestInv
  <1>1. InitTest => TestInv
    BY InitTestInv
  <1>2. IInv /\ TestInv /\ [NextTest]_allVars => TestInv'
    BY TestInvStep
  <1> QED BY <1>1, <1>2, SchedulerInvariance, PTL DEF SpecTest

-----------------------------------------------------------------------------
(***************************************************************************)
(* What it gives.                                                          *)
(***************************************************************************)

\* Producer and consumer keep the flags near 1 in any sequence of tests, whichever
\* takes the mutex first; the writer of reader_writer.cpp takes at most one per
\* invocation from a flag.
THEOREM FlagsStayBounded == SpecTest => []FlagsBounded
  <1>1. TestInv => FlagsBounded
    BY FlagInvBounds DEF TestInv
  <1> QED BY <1>1, TestInvariance, PTL

\* run_test constructs a CounterBenchmark for each call, so no test ever pins or joins
\* a thread that an earlier call has joined, although counters_with_schedule leaves
\* its threads in the object.
THEOREM TestsReuseNothing == SpecTest => []Reusable
  <1>1. IInv /\ TestInv => Reusable
    BY DEF IInv, FreshInv, Fresh, TestInv, OneCallInv
  <1> QED BY <1>1, SchedulerInvariance, TestInvariance, PTL

\* Every benchmark that counters_with_schedule runs for a test, and the first one of
\* counters_with_priority_schedule, is measured on its schedule's core only.
THEOREM TestsPinFirst == SpecTest => []PinnedBeforeBenchmark
  BY SchedulerInvariance, PTL DEF IInv

\* When the three flushers have ended and the recipe has not begun, no cache holds
\* shared data, wherever the flushers ran.
THEOREM FlushersFlush == SpecTest => []FlushedFirst
  <1>1. IInv /\ TestInv => FlushedFirst
    <2> SUFFICES ASSUME IInv, TestInv, ~ Scheduled, test # "read_from_invalid_test",
                        svec # <<>>, wpc[3] = "exited",
                        wpc[4] \in {"unborn", "lock", "waiting", "warmup"}
                 PROVE  \A l \in 0 .. LineCount - 1, k \in Core : cache[l][k] = "I"
      BY DEF FlushedFirst
    <2>1. /\ svec = TestVec(test, place) /\ test \in PriorityTests
          /\ svec[3].benchmark = "flusher" /\ Len(svec) \in Nat /\ Len(svec) >= 4
      BY PriorityTest, PriorityVec DEF TestInv
    <2>2. Progress(3) = 1
      <3>1. AccessesOf(3) = <<<<"flush", 0>>>>
        BY <2>1, PriorityAccesses
      <3> QED BY <3>1 DEF Progress
    <2>3. Progress(4) = 0
      BY DEF Progress
    <2> QED BY <2>1, <2>2, <2>3 DEF TestInv, FlushInv
  <1> QED BY <1>1, SchedulerInvariance, TestInvariance, PTL

\* How the recipe of each state ends.
LEMMA RecipeEnds ==
  ASSUME NEW c, NEW t \in StateTests, NEW v, v = TestVec(t, c), NEW n, n = Len(v)
  PROVE  /\ StateOf[t] = "M" => v[n - 1].benchmark = "writer" /\ v[n - 1].core_id = core_a
         /\ StateOf[t] = "E" => /\ v[n - 1].benchmark = "reader" /\ v[n - 1].core_id = core_a
                                /\ v[n - 2].benchmark = "flusher"
         /\ StateOf[t] = "S" => /\ v[n - 1].benchmark = "reader"
                                /\ v[n - 1].core_id = core_b(c)
                                /\ v[n - 2].benchmark = "reader" /\ v[n - 2].core_id = core_a
         /\ StateOf[t] = "I" => v[n - 1].benchmark = "flusher"
         /\ StateOf[t] \in {"M", "E", "S", "I"}
  <1>1. CASE t \in StateTestsOf("M")
    <2>1. StateOf[t] = "M"
      BY <1>1, RecipeVec
    <2>2. Len(v) = 5
      BY <1>1, ModifiedVec
    <2>3. v[4].benchmark = "writer" /\ v[4].core_id = core_a
      BY <1>1, ModifiedVec
    <2>4. n - 1 = 4 /\ n - 2 = 3
      BY <2>2
    <2> QED BY <2>1, <2>3, <2>4
  <1>2. CASE t \in StateTestsOf("E")
    <2>1. StateOf[t] = "E"
      BY <1>2, RecipeVec
    <2>2. Len(v) = 7
      BY <1>2, ExclusiveVec
    <2>3. v[6].benchmark = "reader" /\ v[6].core_id = core_a /\ v[5].benchmark = "flusher"
      BY <1>2, ExclusiveVec
    <2>4. n - 1 = 6 /\ n - 2 = 5
      BY <2>2
    <2> QED BY <2>1, <2>3, <2>4
  <1>3. CASE t \in StateTestsOf("S")
    <2>1. StateOf[t] = "S"
      BY <1>3, RecipeVec
    <2>2. Len(v) = 7
      BY <1>3, SharedVec
    <2>3. /\ v[6].benchmark = "reader" /\ v[6].core_id = core_b(c)
          /\ v[5].benchmark = "reader" /\ v[5].core_id = core_a
      BY <1>3, SharedVec
    <2>4. n - 1 = 6 /\ n - 2 = 5
      BY <2>2
    <2> QED BY <2>1, <2>3, <2>4
  <1>4. CASE t \in StateTestsOf("I")
    <2>1. StateOf[t] = "I"
      BY <1>4, RecipeVec
    <2>2. Len(v) = 6
      BY <1>4, InvalidVec
    <2>3. v[5].benchmark = "flusher"
      BY <1>4, InvalidVec
    <2>4. n - 1 = 5 /\ n - 2 = 4
      BY <2>2
    <2> QED BY <2>1, <2>3, <2>4
  <1>5. CASE t = "flusher_test"
    <2>1. StateOf[t] = "I"
      BY <1>5 DEF StateOf
    <2>2. n - 1 = 7 /\ v[7].benchmark = "flusher"
      BY <1>5, FlusherTestVec
    <2> QED BY <2>1, <2>2
  <1>6. CASE t = "read_from_invalid_test"
    <2>1. StateOf[t] = "I"
      BY <1>6 DEF StateOf
    <2>2. n - 1 = 2 /\ v[2].benchmark = "flusher"
      BY <1>6, ReadFromInvalidVec
    <2> QED BY <2>1, <2>2
  <1>7. StateTests = {"STORE_ON_MODIFIED", "STORE_ON_EXCLUSIVE", "STORE_ON_SHARED_OR_FORWARD",
                      "STORE_ON_INVALID", "LOAD_FROM_MODIFIED", "LOAD_FROM_EXCLUSIVE",
                      "LOAD_FROM_SHARED_OR_FORWARD", "LOAD_FROM_INVALID", "flusher_test",
                      "read_from_invalid_test"}
    BY DEF StateTests, StateOf
  <1> QED BY <1>1, <1>2, <1>3, <1>4, <1>5, <1>6, <1>7 DEF StateTestsOf

\* When the measured benchmark begins, its recipe has run to its end, and every line
\* is as its last schedule leaves it.
LEMMA RecipeDone ==
  ASSUME IInv, TestInv, Measuring
  PROVE  /\ ~ Scheduled /\ svec = TestVec(test, place) /\ test \in StateTests
         /\ AllInPlace <=> InPlaceUpTo(Measured - 1)
         /\ \A l \in Common : Left(Measured - 1, cache[l])
         /\ svec[Measured - 1].benchmark = "flusher" =>
              \A l \in 0 .. LineCount - 1, k \in Core : cache[l][k] = "I"
         /\ Measured \in Nat /\ Measured >= 3
  <1>1. /\ test \in StateTests /\ svec # <<>> /\ wpc[Measured] = "measuring" /\ accesses = 0
        /\ svec = TestVec(test, place) /\ method = MethodOf(test)
    BY DEF Measuring, TestInv, VecInv
  <1>2. ~ Scheduled
    <2>1. test \notin {"PRODUCER_CONSUMER", "READER_WRITER"}
      BY <1>1 DEF StateTests, StateOf
    <2> QED BY <1>1, <2>1 DEF MethodOf, Scheduled
  <1>3. /\ Len(svec) \in Nat /\ Len(svec) >= 3 /\ \A w \in 1 .. Len(svec) : w \in Worker
        /\ \A w \in 1 .. Len(svec) : svec[w].benchmark \in {"flusher", "reader", "writer"}
    BY <1>1, <1>2, PriorityTest DEF TestInv
  <1>4. /\ Measured - 1 \in 1 .. Len(svec) - 1 /\ Measured \in 2 .. Len(svec)
        /\ Measured \in Worker /\ Measured - 1 \in Worker /\ (Measured - 1) + 1 = Measured
    BY <1>3 DEF Measured
  <1>5. Progress(Measured) = 0
    BY <1>1 DEF Progress
  <1>6. ASSUME NEW l \in Common PROVE Left(Measured - 1, cache[l])
    <2>1. Reached(Measured - 1, l)
      BY <1>1, <1>2, <1>4, ReachedBefore DEF TestInv
    <2>2. ~ Reached(Measured, l)
      <3>1. svec[Measured].benchmark \in {"flusher", "reader", "writer"}
        BY <1>3, <1>4
      <3>2. Reaches(svec[Measured].benchmark, l) \in 1 .. Len(AccessesOf(Measured))
        BY <3>1, PriorityAccesses
      <3>3. Len(AccessesOf(Measured)) \in Nat
        BY <3>1, PriorityAccesses
      <3> QED BY <1>5, <3>2, <3>3 DEF Reached
    <2> QED BY <1>2, <1>4, <2>1, <2>2 DEF TestInv, LineInv
  <1>7. ASSUME svec[Measured - 1].benchmark = "flusher"
        PROVE  \A l \in 0 .. LineCount - 1, k \in Core : cache[l][k] = "I"
    <2>1. Progress(Measured - 1) = Len(AccessesOf(Measured - 1))
      BY <1>1, <1>2, <1>4, ProgressOrder
    <2>2. Len(AccessesOf(Measured - 1)) \in Nat \ {0}
      BY <1>3, <1>4, PriorityAccesses
    <2> QED BY <1>2, <1>4, <1>5, <1>7, <2>1, <2>2 DEF TestInv, FlushInv
  <1> QED BY <1>1, <1>2, <1>3, <1>6, <1>7 DEF AllInPlace, InPlaceUpTo, Measured

\* If every benchmark of a recipe ran in its place, the measured access finds each line
\* that all benchmarks reach in the state of its test, provided that cores a and b of
\* init_state are two cores, as in library/arch.cfg.
THEOREM RecipesSound ==
  core_src \notin {core_socket0, core_global0} => (SpecTest => []RecipeSound)
  <1> SUFFICES ASSUME core_src \notin {core_socket0, core_global0} PROVE SpecTest => []RecipeSound
    OBVIOUS
  <1>1. IInv /\ TestInv => RecipeSound
    <2> SUFFICES ASSUME IInv, TestInv, Measuring, AllInPlace, NEW l \in Common
                 PROVE  InState(cache[l], StateOf[test], core_a, core_b(place))
      BY DEF RecipeSound, LinesInState
    <2> DEFINE w == Measured - 1
    <2>1. /\ svec = TestVec(test, place) /\ test \in StateTests
          /\ InPlaceUpTo(w) /\ Left(w, cache[l]) /\ w - 1 = Measured - 2
      BY RecipeDone
    <2>2. core_a \in Core /\ core_b(place) \in Core /\ core_a # core_b(place)
      BY RunTestAssumption DEF core_a, core_b
    <2>3. CASE StateOf[test] = "M"
      <3>1. svec[w].benchmark = "writer" /\ svec[w].core_id = core_a
        BY <2>1, <2>3, RecipeEnds DEF Measured
      <3> QED BY <2>1, <2>2, <2>3, <3>1 DEF Left, Only, InState
    <2>4. CASE StateOf[test] = "E"
      <3>1. /\ svec[w].benchmark = "reader" /\ svec[w].core_id = core_a
            /\ svec[w - 1].benchmark = "flusher"
        BY <2>1, <2>4, RecipeEnds DEF Measured
      <3> QED BY <2>1, <2>2, <2>4, <3>1 DEF Left, Only, InState
    <2>5. CASE StateOf[test] = "S"
      <3>1. /\ svec[w].benchmark = "reader" /\ svec[w].core_id = core_b(place)
            /\ svec[w - 1].benchmark = "reader" /\ svec[w - 1].core_id = core_a
        BY <2>1, <2>5, RecipeEnds DEF Measured
      <3>2. SharedBy(cache[l], core_a, core_b(place))
        BY <2>1, <2>2, <3>1 DEF Left
      <3> QED BY <2>2, <2>5, <3>2 DEF SharedBy, InState
    <2>6. CASE StateOf[test] = "I"
      <3>1. svec[w].benchmark = "flusher"
        BY <2>1, <2>6, RecipeEnds DEF Measured
      <3> QED BY <2>1, <2>6, <3>1 DEF Left, InState
    <2> QED BY <2>1, <2>3, <2>4, <2>5, <2>6, RecipeEnds
  <1> QED BY <1>1, SchedulerInvariance, TestInvariance, PTL

\* Misplaced or moved threads change only which core owns a line: a test on exclusive
\* lines finds them exclusive somewhere, one on invalid lines finds them nowhere.
THEOREM KindsSound == SpecTest => []KindSound
  <1>1. IInv /\ TestInv => KindSound
    <2> SUFFICES ASSUME IInv, TestInv, Measuring
                 PROVE  /\ StateOf[test] = "E" =>
                             \A l \in Common : \E k \in Core : cache[l][k] = "E"
                        /\ StateOf[test] = "I" =>
                             \A l \in 0 .. LineCount - 1, k \in Core : cache[l][k] = "I"
      BY DEF KindSound
    <2> DEFINE w == Measured - 1
    <2>1. /\ svec = TestVec(test, place) /\ test \in StateTests /\ w - 1 = Measured - 2
          /\ \A l \in Common : Left(w, cache[l])
      BY RecipeDone
    <2>2. ASSUME StateOf[test] = "E", NEW l \in Common PROVE \E k \in Core : cache[l][k] = "E"
      <3>1. svec[w].benchmark = "reader" /\ svec[w - 1].benchmark = "flusher"
        BY <2>1, <2>2, RecipeEnds DEF Measured
      <3>2. \E k \in Core : cache[l] = Only(k, "E")
        BY <2>1, <3>1 DEF Left
      <3> QED BY <3>2 DEF Only
    <2>3. ASSUME StateOf[test] = "I"
          PROVE  \A l \in 0 .. LineCount - 1, k \in Core : cache[l][k] = "I"
      <3>1. svec[w].benchmark = "flusher"
        BY <2>1, <2>3, RecipeEnds DEF Measured
      <3> QED BY <3>1, RecipeDone
    <2> QED BY <2>2, <2>3
  <1> QED BY <1>1, SchedulerInvariance, TestInvariance, PTL

\* The measured access of a SOCKET or GLOBAL test is served from elsewhere if the third
\* core of the placement is neither the first nor the second, as in library/arch.cfg.
THEOREM MeasuredOutside ==
  core_socket1 \notin {core_src, core_socket0} /\ core_global1 \notin {core_src, core_global0}
    => (SpecTest => []MeasuredFromOutside)
  <1> SUFFICES ASSUME core_socket1 \notin {core_src, core_socket0},
                      core_global1 \notin {core_src, core_global0}
               PROVE  SpecTest => []MeasuredFromOutside
    OBVIOUS
  <1>1. IInv /\ TestInv => MeasuredFromOutside
    <2> SUFFICES ASSUME IInv, TestInv, Measuring, AllInPlace, place # "LOCAL",
                        NEW l \in Common
                 PROVE  cache[l][core_c(place)] = "I"
      BY DEF MeasuredFromOutside
    <2> DEFINE w == Measured - 1
               c == core_c(place)
    <2>1. /\ svec = TestVec(test, place) /\ test \in StateTests
          /\ InPlaceUpTo(w) /\ Left(w, cache[l]) /\ w - 1 = Measured - 2
      BY RecipeDone
    <2>2. c \in Core /\ c # core_a /\ c # core_b(place)
      <3>1. place \in {"SOCKET", "GLOBAL"}
        BY RunTestAssumption DEF TestInv, VecInv, PlacementTypes
      <3> QED BY <3>1, RunTestAssumption DEF core_a, core_b, core_c
    <2> HIDE DEF c
    <2>3. CASE StateOf[test] = "M"
      <3>1. svec[w].benchmark = "writer" /\ svec[w].core_id = core_a
        BY <2>1, <2>3, RecipeEnds DEF Measured
      <3>2. cache[l] = Only(core_a, "M")
        BY <2>1, <3>1 DEF Left
      <3> QED BY <2>2, <3>2 DEF Only, c
    <2>4. CASE StateOf[test] = "E"
      <3>1. /\ svec[w].benchmark = "reader" /\ svec[w].core_id = core_a
            /\ svec[w - 1].benchmark = "flusher"
        BY <2>1, <2>4, RecipeEnds DEF Measured
      <3>2. cache[l] = Only(core_a, "E")
        BY <2>1, <3>1 DEF Left
      <3> QED BY <2>2, <3>2 DEF Only, c
    <2>5. CASE StateOf[test] = "S"
      <3>1. /\ svec[w].benchmark = "reader" /\ svec[w].core_id = core_b(place)
            /\ svec[w - 1].benchmark = "reader" /\ svec[w - 1].core_id = core_a
        BY <2>1, <2>5, RecipeEnds DEF Measured
      <3>2. cache[l] = Only(core_b(place), "M") \/ SharedBy(cache[l], core_a, core_b(place))
        BY <2>1, <3>1 DEF Left
      <3> QED BY <2>2, <3>2 DEF Only, SharedBy, c
    <2>6. CASE StateOf[test] = "I"
      <3>1. svec[w].benchmark = "flusher"
        BY <2>1, <2>6, RecipeEnds DEF Measured
      <3> QED BY <2>1, <2>2, <3>1 DEF Left, c
    <2> QED BY <2>1, <2>3, <2>4, <2>5, <2>6, RecipeEnds
  <1> QED BY <1>1, SchedulerInvariance, TestInvariance, PTL

=============================================================================
