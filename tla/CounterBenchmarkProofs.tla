----------------------- MODULE CounterBenchmarkProofs -----------------------
(***************************************************************************)
(* Proofs about CounterBenchmark, for every set of cores and vectors of    *)
(* schedules of any length, any warm-up and any number of calls.           *)
(*                                                                         *)
(* There is one lemma per part of the inductive invariant IInv, which says *)
(* that a step from a state with IInv keeps that part; those about what an *)
(* object keeps from call to call are in CounterBenchmarkReuse.            *)
(***************************************************************************)
EXTENDS CounterBenchmarkReuse

\* The constructor establishes the invariant.
LEMMA InitIInv == Init => IInv
  <1> SUFFICES ASSUME Init PROVE IInv
    OBVIOUS
  <1>1. threads \in Seq(Worker \cup {NotJoinable})
    BY EmptySeq DEF Init
  <1>2. TypeOK
    <2>1. MaxSched \in Nat /\ Warmup \in Nat /\ MasterCore \in Core
      BY ConstantsAssumption
    <2>2. pause \in BOOLEAN /\ ready \in BOOLEAN
      BY DEF Init
    <2>3. i \in 1 .. MaxSched + 1 /\ j \in Nat \ {0} /\ calls \in Nat
      BY <2>1 DEF Init
    <2>4. /\ warm \in [Worker -> 0 .. Warmup]
          /\ coreOf \in [Worker -> Core]
          /\ measuredOn \in [Worker -> SUBSET Core]
      BY <2>1 DEF Init
    <2>5. wpc \in [Worker -> {"unborn", "lock", "waiting", "warmup", "measuring",
                            "notify", "exited"}]
      BY DEF Init
    <2>6. mtx \in Worker \cup {Free} /\ masterCore \in Core
      BY <2>1 DEF Init
    <2>7. method \in Methods /\ svec \in Svecs \cup {<<>>}
      BY DEF Init
    <2>8. spc = "idle"
      BY DEF Init
    <2> HIDE DEF Init
    <2> QED BY <1>1, <2>2, <2>3, <2>4, <2>5, <2>6, <2>7, <2>8 DEF TypeOK
  <1>3. Len(svec) = 0 /\ Len(threads) = 0
    BY EmptySeq DEF Init
  <1>4. MutexInv /\ MeasuredInv /\ OrderInv
    BY DEF Init, MutexInv, MeasuredInv, OrderInv, Running, Worker, Free
  <1>5. IndexInv /\ BornInv /\ HandleInv
    BY <1>3 DEF Init, IndexInv, BornInv, HandleInv, Quiet, Worker, Passing
  <1>6. JoinedInv /\ ReadyInv /\ NewInv /\ HeldInv /\ OwnInv
    BY DEF Init, JoinedInv, ReadyInv, NewInv, HeldInv, OwnInv, Held
  <1>7. CleanInv
    <2>1. \A k \in 1 .. Len(threads) : FALSE
      BY <1>3
    <2> QED BY <2>1 DEF Init, CleanInv, AllJoined, OnlyCleanCallsFinish, Passing
  <1>8. PlacedInv /\ PinnedBeforeBenchmark
    BY DEF Init, PlacedInv, PinnedBeforeBenchmark
  <1>9. FreshInv
    <2>1. spc = "idle" /\ threads = <<>>
      BY DEF Init
    <2> QED BY <2>1 DEF FreshInv, Reusable, Passing
  <1> QED BY <1>2, <1>4, <1>5, <1>6, <1>7, <1>8, <1>9 DEF IInv

\* Each variable keeps its type.
LEMMA TypeStep == IInv /\ [Next]_vars => TypeOK'
  <1> SUFFICES ASSUME IInv, [Next]_vars PROVE TypeOK'
    OBVIOUS
  <1> USE DEF IInv, callVars, loopVars, threadVars
  <1>a. /\ svec \in Seq(Schedule)
        /\ Len(svec) \in 0 .. MaxSched
        /\ MaxSched \in Nat
    BY SvecType, ConstantsAssumption
  <1>b. /\ Len(threads) \in Nat
        /\ DOMAIN threads = 1 .. Len(threads)
    BY LenProperties DEF TypeOK
  <1>1. ASSUME NEW m \in Methods, NEW v \in Svecs, Call(m, v) PROVE TypeOK'
    BY <1>1, ConstantsAssumption DEF Call, TypeOK, LoopHead
  <1>2. CASE Spawn
    <2>1. i \in Worker
      BY <1>2, <1>a DEF Spawn, IndexInv, TypeOK, Worker
    <2>2. threads' \in Seq(Worker \cup {NotJoinable})
      BY <1>2, <2>1, AppendProperties DEF Spawn, TypeOK
    <2> QED BY <1>2, <2>1, <2>2 DEF Spawn, TypeOK
  <1>3. CASE PinLive \/ PinExited
    <2>1. spc = "pin" /\ AfterPin
      BY <1>3 DEF PinLive, PinExited
    <2>2. i <= Len(svec) /\ svec[i].core_id \in Core
      BY <2>1, CoreOfSchedule DEF IndexInv
    <2>3. /\ i' \in 1 .. MaxSched + 1
          /\ spc' \in {"spawn", "release", "finish"}
      BY <2>1, <2>2, <1>a, ConstantsAssumption DEF AfterPin, LoopHead, TypeOK
    <2>4. /\ coreOf' \in [Worker -> Core] /\ masterCore' \in Core
          /\ measuredOn' \in [Worker -> SUBSET Core]
      <3>1. CASE PinLive
        BY <3>1, <2>2 DEF PinLive, TypeOK
      <3>2. CASE PinExited
        BY <3>2, <2>2 DEF PinExited, TypeOK
      <3> QED BY <1>3, <3>1, <3>2
    <2>5. UNCHANGED <<pause, ready, threads, mtx, calls, method, svec, j, wpc, warm>>
      BY <1>3 DEF PinLive, PinExited
    <2> QED BY <2>3, <2>4, <2>5 DEF TypeOK
  <1>4. CASE PinFails \/ CountersFail \/ PinJoined
    BY <1>4 DEF PinFails, CountersFail, PinJoined, TypeOK, Dead
  <1>5. CASE Release
    <2>1. pause' \in BOOLEAN /\ ready' \in BOOLEAN
      BY <1>5 DEF Release, TypeOK
    <2> QED BY <1>5, <2>1 DEF Release, TypeOK
  <1>5b. CASE Await
    <2>1. j' \in Nat \ {0} /\ spc' \in {"join", "waiting"}
      BY <1>5b DEF Await, TypeOK
    <2> QED BY <1>5b, <2>1 DEF Await, TypeOK
  <1>5a. CASE NotifyAll
    BY <1>5a DEF NotifyAll, TypeOK
  <1>6. CASE NotifyOne
    BY <1>6 DEF NotifyOne, WaitingWorkers, TypeOK
  <1>7. CASE Join
    <2>1. j \in 1 .. Len(threads)
      BY <1>7, <1>b DEF Join, TypeOK
    <2>2. threads' \in Seq(Worker \cup {NotJoinable})
      BY <1>7, <2>1, ExceptSeq DEF Join, TypeOK
    <2> QED BY <1>7, <2>2 DEF Join, TypeOK
  <1>8. CASE JoinJoined
    BY <1>8 DEF JoinJoined, TypeOK, Dead
  <1>9. CASE JoinDone
    <2>1. threads' \in Seq(Worker \cup {NotJoinable})
      BY <1>9, EmptySeq DEF JoinDone, Cleared, TypeOK
    <2>2. i' \in 1 .. MaxSched + 1
      BY <1>9, <1>a DEF JoinDone, TypeOK, IndexInv, Passing
    <2>3. spc' \in {"spawn", "release", "finish"}
      BY <1>9 DEF JoinDone, LoopHead
    <2> QED BY <1>9, <2>1, <2>2, <2>3 DEF JoinDone, TypeOK
  <1>10. CASE Finish
    BY <1>10 DEF Finish, NotReady, TypeOK
  <1>11. ASSUME NEW w \in Worker, Acquire(w) \/ EndMeasure(w) \/ PapiFails(w)
         PROVE  TypeOK'
    BY <1>11 DEF Acquire, EndMeasure, PapiFails, TypeOK, Dead
  <1>12. ASSUME NEW w \in Worker, WarmUp(w) PROVE TypeOK'
    BY <1>12, ConstantsAssumption DEF WarmUp, TypeOK
  <1>13. ASSUME NEW w \in Worker, BeginMeasure(w) PROVE TypeOK'
    BY <1>13 DEF BeginMeasure, TypeOK
  <1>14. ASSUME NEW w \in Worker, WakeOne(w) PROVE TypeOK'
    BY <1>14 DEF WakeOne, WaitingWorkers, TypeOK
  <1>15. CASE SpuriousWake
    BY <1>15 DEF SpuriousWake, WaitingWorkers, TypeOK
  <1>16. CASE Halted \/ UNCHANGED vars
    BY <1>16 DEF Halted, vars, TypeOK
  <1> QED BY <1>1, <1>2, <1>3, <1>4, <1>5, <1>5a, <1>5b, <1>6, <1>7, <1>8, <1>9, <1>10, <1>11,
             <1>12, <1>13, <1>14, <1>15, <1>16
          DEF Next, SchedulerStep, WorkerStep, WorkerControl

\* The owner of the mutex stays the worker in the critical section.
LEMMA MutexStep == IInv /\ [Next]_vars => MutexInv'
  <1> SUFFICES ASSUME IInv, [Next]_vars PROVE MutexInv'
    OBVIOUS
  <1>a. TypeOK /\ MutexInv /\ BornInv /\ HandleInv
    BY DEF IInv
  <1>b. \A w \in Worker : w # Free
    BY ConstantsAssumption DEF Worker, Free
  <1>1. ASSUME NEW m \in Methods, NEW v \in Svecs, Call(m, v) PROVE MutexInv'
    <2>1. \A w \in Worker : ~ Running(w) /\ ~ Running(w)'
      BY <1>1, <1>a DEF Call, HandleInv, Quiet, Running
    <2> QED BY <1>1, <1>a, <2>1 DEF Call, MutexInv
  <1>2. CASE Spawn
    BY <1>2, <1>a DEF Spawn, BornInv, MutexInv, Running, TypeOK
  <1>3. CASE NotifyAll
    BY <1>3, <1>a DEF NotifyAll, WaitingWorkers, MutexInv, Running, TypeOK
  <1>4. CASE NotifyOne
    BY <1>4, <1>a DEF NotifyOne, WaitingWorkers, MutexInv, Running, TypeOK
  <1>5. ASSUME NEW w \in Worker, Acquire(w) PROVE MutexInv'
    BY <1>5, <1>a, <1>b DEF Acquire, MutexFree, MutexInv, Running, TypeOK
  <1>6. ASSUME NEW w \in Worker, BeginMeasure(w) PROVE MutexInv'
    BY <1>6, <1>a DEF BeginMeasure, MutexInv, Running, TypeOK
  <1>7. ASSUME NEW w \in Worker, EndMeasure(w) PROVE MutexInv'
    BY <1>7, <1>a, <1>b DEF EndMeasure, MutexInv, Running, TypeOK
  <1>8. ASSUME NEW w \in Worker, WakeOne(w) PROVE MutexInv'
    BY <1>8, <1>a DEF WakeOne, WaitingWorkers, MutexInv, Running, TypeOK
  <1>9. CASE SpuriousWake
    BY <1>9, <1>a DEF SpuriousWake, WaitingWorkers, MutexInv, Running, TypeOK
  <1>10. ASSUME UNCHANGED <<wpc, mtx>> PROVE MutexInv'
    BY <1>10, <1>a DEF MutexInv, Running
  <1>11. CASE PinLive \/ PinExited \/ PinFails \/ CountersFail \/ PinJoined \/ Release
              \/ Await
    BY <1>11, <1>10 DEF PinLive, PinExited, PinFails, CountersFail, PinJoined, Release,
                        Await
  <1>12. CASE Join \/ JoinJoined \/ JoinDone \/ Finish
    BY <1>12, <1>10 DEF Join, JoinJoined, JoinDone, Finish
  <1>13. ASSUME NEW w \in Worker, WarmUp(w) \/ PapiFails(w) PROVE MutexInv'
    BY <1>13, <1>10 DEF WarmUp, PapiFails
  <1>14. CASE Halted \/ UNCHANGED vars
    BY <1>14, <1>10 DEF Halted, vars
  <1> QED BY <1>1, <1>2, <1>3, <1>4, <1>5, <1>6, <1>7, <1>8, <1>9, <1>11, <1>12,
             <1>13, <1>14
          DEF Next, SchedulerStep, WorkerStep, WorkerControl

\* A worker whose measurement has begun has run on a core.
LEMMA MeasuredStep == IInv /\ [Next]_vars => MeasuredInv'
  <1> SUFFICES ASSUME IInv, [Next]_vars PROVE MeasuredInv'
    OBVIOUS
  <1> USE DEF callVars, loopVars, threadVars
  <1>a. TypeOK /\ MeasuredInv
    BY DEF IInv
  <1>1. ASSUME NEW m \in Methods, NEW v \in Svecs, Call(m, v) PROVE MeasuredInv'
    BY <1>1 DEF Call, MeasuredInv
  <1>2. CASE Spawn
    BY <1>2, <1>a DEF Spawn, MeasuredInv, TypeOK
  <1>3. CASE PinLive
    <2>1. \A w \in Worker : measuredOn[w] \subseteq measuredOn'[w]
      BY <1>3, <1>a DEF PinLive, TypeOK
    <2> QED BY <1>3, <1>a, <2>1 DEF PinLive, MeasuredInv
  <1>4. CASE NotifyAll
    BY <1>4, <1>a DEF NotifyAll, WaitingWorkers, MeasuredInv, TypeOK
  <1>5. CASE NotifyOne
    BY <1>5, <1>a DEF NotifyOne, WaitingWorkers, MeasuredInv, TypeOK
  <1>6. ASSUME NEW w \in Worker, Acquire(w) PROVE MeasuredInv'
    BY <1>6, <1>a DEF Acquire, MeasuredInv, TypeOK
  <1>7. ASSUME NEW w \in Worker, BeginMeasure(w) PROVE MeasuredInv'
    BY <1>7, <1>a DEF BeginMeasure, MeasuredInv, TypeOK
  <1>8. ASSUME NEW w \in Worker, EndMeasure(w) PROVE MeasuredInv'
    BY <1>8, <1>a DEF EndMeasure, MeasuredInv, TypeOK
  <1>9. ASSUME NEW w \in Worker, WakeOne(w) PROVE MeasuredInv'
    BY <1>9, <1>a DEF WakeOne, WaitingWorkers, MeasuredInv, TypeOK
  <1>10. CASE SpuriousWake
    BY <1>10, <1>a DEF SpuriousWake, WaitingWorkers, MeasuredInv, TypeOK
  <1>11. ASSUME UNCHANGED <<wpc, measuredOn>> PROVE MeasuredInv'
    BY <1>11, <1>a DEF MeasuredInv
  <1>12. CASE PinExited \/ PinFails \/ CountersFail \/ PinJoined \/ Release \/ Await
    BY <1>12, <1>11 DEF PinExited, PinFails, CountersFail, PinJoined, Release, Await
  <1>13. CASE Join \/ JoinJoined \/ JoinDone \/ Finish
    BY <1>13, <1>11 DEF Join, JoinJoined, JoinDone, Finish
  <1>14. ASSUME NEW w \in Worker, WarmUp(w) \/ PapiFails(w) PROVE MeasuredInv'
    BY <1>14, <1>11 DEF WarmUp, PapiFails
  <1>15. CASE Halted \/ UNCHANGED vars
    BY <1>15, <1>11 DEF Halted, vars
  <1> QED BY <1>1, <1>2, <1>3, <1>4, <1>5, <1>6, <1>7, <1>8, <1>9, <1>10, <1>12,
             <1>13, <1>14, <1>15
          DEF Next, SchedulerStep, WorkerStep, WorkerControl

\* The index stays where the control state of the scheduler says.
LEMMA IndexStep == IInv /\ [Next]_vars => IndexInv'
  <1> SUFFICES ASSUME IInv, [Next]_vars PROVE IndexInv'
    OBVIOUS
  <1> USE DEF callVars, loopVars, threadVars
  <1>a. TypeOK /\ IndexInv /\ i \in Nat
    BY ConstantsAssumption DEF IInv, TypeOK
  <1>b. Len(svec) \in Nat
    BY <1>a, SvecType, ConstantsAssumption
  <1>1. ASSUME NEW m \in Methods, NEW v \in Svecs, Call(m, v) PROVE IndexInv'
    <2>1. Len(v) \in Nat /\ m \in CounterMethods
      BY ConstantsAssumption, LenProperties
    <2> QED BY <1>1, <2>1
            DEF Call, LoopHead, IndexInv, Scheduled, Passing, CounterMethods
  <1>2. CASE Spawn
    BY <1>2, <1>a DEF Spawn, IndexInv, Scheduled, Passing
  <1>3. CASE PinLive \/ PinExited
    <2>1. spc = "pin" /\ AfterPin /\ UNCHANGED <<svec, method>>
      BY <1>3 DEF PinLive, PinExited
    <2> QED BY <2>1, <1>a, <1>b DEF AfterPin, LoopHead, IndexInv, Scheduled, Passing
  <1>4. CASE PinFails \/ CountersFail \/ PinJoined \/ JoinJoined
    BY <1>4, <1>a DEF PinFails, CountersFail, PinJoined, JoinJoined, IndexInv, Scheduled,
                      Passing
  <1>5. CASE Release \/ NotifyAll \/ NotifyOne
    BY <1>5, <1>a DEF Release, NotifyAll, NotifyOne, IndexInv, Scheduled, Passing
  <1>6. CASE Await \/ SpuriousWake
    BY <1>6, <1>a DEF Await, SpuriousWake, IndexInv, Scheduled, Passing
  <1>7. CASE JoinDone
    BY <1>7, <1>a, <1>b DEF JoinDone, LoopHead, IndexInv, Scheduled, Passing
  <1>8. CASE Finish
    BY <1>8, <1>a DEF Finish, IndexInv, Scheduled, Passing
  <1>9. ASSUME NEW w \in Worker, WakeOne(w) PROVE IndexInv'
    BY <1>9, <1>a DEF WakeOne, IndexInv, Scheduled, Passing
  <1>10. ASSUME NEW w \in Worker, PapiFails(w) PROVE IndexInv'
    BY <1>10, <1>a DEF PapiFails, IndexInv, Scheduled, Passing
  <1>11. ASSUME UNCHANGED <<method, svec, i, spc>> PROVE IndexInv'
    BY <1>11, <1>a DEF IndexInv, Scheduled
  <1>12. CASE Join
    BY <1>12, <1>11 DEF Join
  <1>13. ASSUME NEW w \in Worker,
                Acquire(w) \/ WarmUp(w) \/ BeginMeasure(w) \/ EndMeasure(w)
         PROVE  IndexInv'
    BY <1>13, <1>11 DEF Acquire, WarmUp, BeginMeasure, EndMeasure
  <1>14. CASE Halted \/ UNCHANGED vars
    BY <1>14, <1>11 DEF Halted, vars
  <1> QED BY <1>1, <1>2, <1>3, <1>4, <1>5, <1>6, <1>7, <1>8, <1>9, <1>10, <1>12,
             <1>13, <1>14
          DEF Next, SchedulerStep, WorkerStep, WorkerControl

\* Workers go on being created in the order of the vector.
LEMMA BornStep == IInv /\ [Next]_vars => BornInv'
  <1> SUFFICES ASSUME IInv, [Next]_vars PROVE BornInv'
    OBVIOUS
  <1> USE DEF callVars, loopVars, threadVars
  <1>a. TypeOK /\ IndexInv /\ BornInv /\ i \in Nat \ {0}
    BY ConstantsAssumption DEF IInv, TypeOK
  <1>b. \A w \in Worker : w \in Nat
    BY ConstantsAssumption DEF Worker
  <1>1. ASSUME NEW m \in Methods, NEW v \in Svecs, Call(m, v) PROVE BornInv'
    <2>1. \A w \in Worker : ~ w < i' /\ wpc'[w] = "unborn"
      BY <1>1, ConstantsAssumption DEF Call, Worker
    <2>2. spc' = "spawn" => i' \in Worker
      <3>1. Len(v) \in Nat /\ Len(v) <= MaxSched /\ m \in CounterMethods
        BY ConstantsAssumption, LenProperties
      <3> QED BY <1>1, <3>1, ConstantsAssumption DEF Call, LoopHead, Worker
    <2>3. spc' \notin Passing \/ (Scheduled' /\ spc' = "release")
      BY <1>1 DEF Call, LoopHead, Scheduled, Passing
    <2> QED BY <2>1, <2>2, <2>3 DEF BornInv, Passing
  <1>2. CASE Spawn
    <2>1. i \in Worker /\ i <= Len(svec)
      BY <1>2, <1>a, SvecType, ConstantsAssumption DEF Spawn, IndexInv, Worker
    <2> QED BY <1>2, <1>a, <1>b, <2>1 DEF Spawn, BornInv, TypeOK, Passing, Scheduled
  <1>3. CASE PinLive \/ PinExited
    <2>1. spc = "pin" /\ AfterPin /\ UNCHANGED <<svec, method, wpc>>
      BY <1>3 DEF PinLive, PinExited
    <2>2. CASE Scheduled
      <3>1. i' = i + 1 /\ spc' \in {"spawn", "release"} /\ Scheduled'
        BY <2>1, <2>2 DEF AfterPin, LoopHead, Scheduled
      <3>2. spc' = "spawn" => i + 1 \in Worker
        BY <2>1, <2>2, <1>a, SvecType, ConstantsAssumption
        DEF AfterPin, LoopHead, Worker, Scheduled
      <3>3. \A w \in Worker : w < i + 1 => w < i \/ w = i
        BY <1>a, <1>b
      <3>4. \A w \in Worker : w <= i => w <= i + 1
        BY <1>a, <1>b
      <3>5. spc' = "spawn" => wpc[i + 1] = "unborn"
        BY <3>2, <1>a DEF BornInv
      <3> QED BY <2>1, <3>1, <3>3, <3>4, <3>5, <1>a DEF BornInv, Passing
    <2>3. CASE ~ Scheduled
      BY <2>1, <2>3, <1>a DEF AfterPin, BornInv, Passing, Scheduled
    <2> QED BY <2>2, <2>3
  <1>4. CASE PinFails \/ CountersFail \/ PinJoined \/ JoinJoined \/ Finish
    BY <1>4, <1>a
    DEF PinFails, CountersFail, PinJoined, JoinJoined, Finish, BornInv, Passing, Scheduled
  <1>5. CASE Release \/ Await
    BY <1>5, <1>a DEF Release, Await, BornInv, IndexInv, Passing, Scheduled
  <1>6. CASE NotifyAll
    BY <1>6, <1>a DEF NotifyAll, WaitingWorkers, BornInv, Passing, Scheduled, TypeOK
  <1>7. CASE NotifyOne
    <2>1. i \in Worker
      BY <1>7, <1>a, SvecType, ConstantsAssumption
      DEF NotifyOne, IndexInv, Passing, Worker
    <2>2. /\ \A w \in Worker : wpc'[w] = "unborn" <=> wpc[w] = "unborn"
          /\ spc = "notify" /\ ~ Scheduled /\ spc' = "await"
          /\ UNCHANGED <<method, svec, i>>
      BY <1>7, <1>a DEF NotifyOne, WaitingWorkers, TypeOK
    <2> QED BY <2>1, <2>2, <1>a DEF BornInv, Passing, Scheduled
  <1>8. CASE Join
    BY <1>8, <1>a DEF Join, BornInv, Passing, Scheduled
  <1>9. CASE JoinDone
    <2>1. CASE Scheduled
      BY <1>9, <2>1, <1>a DEF JoinDone, BornInv, Passing, Scheduled
    <2>2. CASE ~ Scheduled
      <3>1. i' = i + 1 /\ spc' \in {"spawn", "finish"} /\ UNCHANGED <<method, svec, wpc>>
        BY <1>9, <2>2 DEF JoinDone, LoopHead, Scheduled
      <3>2. spc' = "spawn" => i + 1 \in Worker
        BY <1>9, <2>2, <1>a, SvecType, ConstantsAssumption
        DEF JoinDone, LoopHead, Worker, Scheduled
      <3>3. \A w \in Worker : w < i + 1 => w < i \/ w = i
        BY <1>a, <1>b
      <3>4. \A w \in Worker : w <= i => w <= i + 1
        BY <1>a, <1>b
      <3>5. spc' = "spawn" => wpc[i + 1] = "unborn"
        BY <3>2, <1>a DEF BornInv
      <3>6. wpc[i] # "unborn"
        BY <1>9, <2>2, <1>a DEF JoinDone, BornInv, Passing
      <3> QED BY <3>1, <3>3, <3>4, <3>5, <3>6, <1>a DEF BornInv, Passing
    <2> QED BY <2>1, <2>2
  <1>10. ASSUME \A w \in Worker : wpc'[w] = "unborn" <=> wpc[w] = "unborn",
                spc' \in {spc} \cup Dead \/ (spc = "waiting" /\ spc' = "await"),
                UNCHANGED <<method, svec, i>>
         PROVE  BornInv'
    <2>1. i \in Worker \/ ~ (spc \in {"pin", "spawn"} \/ (~ Scheduled /\ spc \in Passing))
      BY <1>a, SvecType, ConstantsAssumption DEF IndexInv, Worker
    <2>2. /\ spc' = "spawn" => spc = "spawn"
          /\ spc' = "pin" => spc = "pin"
          /\ spc' \in Passing => spc \in Passing
      BY <1>10 DEF Dead, Passing
    <2> QED BY <2>1, <2>2, <1>10, <1>a DEF BornInv, Scheduled
  <1>11. ASSUME NEW w \in Worker, WorkerStep(w) \/ PapiFails(w) PROVE BornInv'
    <2>1. CASE WakeOne(w)
      BY <2>1, <1>10, <1>a DEF WakeOne, WaitingWorkers, TypeOK
    <2>2. CASE Acquire(w) \/ WarmUp(w) \/ BeginMeasure(w) \/ EndMeasure(w) \/ PapiFails(w)
      BY <2>2, <1>10, <1>a
      DEF Acquire, WarmUp, BeginMeasure, EndMeasure, PapiFails, TypeOK, Dead
    <2> QED BY <1>11, <2>1, <2>2 DEF WorkerStep, WorkerControl
  <1>12. CASE SpuriousWake
    BY <1>12, <1>10, <1>a DEF SpuriousWake, WaitingWorkers, TypeOK
  <1>13. CASE Halted \/ UNCHANGED vars
    BY <1>13, <1>a DEF Halted, vars, BornInv, Scheduled
  <1> QED BY <1>1, <1>2, <1>3, <1>4, <1>5, <1>6, <1>7, <1>8, <1>9, <1>11, <1>12, <1>13
          DEF Next, SchedulerStep

\* When the join loop has reached the end, all threads have ended.
LEMMA JoinedAll ==
  ASSUME TypeOK, HandleInv, spc = "join", j > Len(threads)
  PROVE  \A w \in Worker : Quiet(w)
  <1>1. Len(threads) \in Nat /\ j \in Nat
    BY LenProperties DEF TypeOK
  <1>2. \A k \in 1 .. Len(threads) : ~ (k >= j)
    BY <1>1
  <1> QED BY <1>2 DEF HandleInv, Passing

\* Every live thread keeps a handle that will be joined.
LEMMA HandleStep == IInv /\ [Next]_vars => HandleInv'
  <1> SUFFICES ASSUME IInv, [Next]_vars PROVE HandleInv'
    OBVIOUS
  <1> USE DEF callVars, loopVars, threadVars
  <1>a. TypeOK /\ HandleInv /\ BornInv
    BY DEF IInv
  <1>b. /\ Len(threads) \in Nat
        /\ j \in Nat
    BY <1>a, LenProperties DEF TypeOK
  <1>1. ASSUME NEW m \in Methods, NEW v \in Svecs, Call(m, v) PROVE HandleInv'
    BY <1>1 DEF Call, LoopHead, HandleInv, Quiet
  <1>2. CASE Spawn
    <2>1. i \in Worker
      <3>1. i \in Nat \ {0} /\ i <= Len(svec)
        BY <1>2, ConstantsAssumption DEF Spawn, IInv, IndexInv, TypeOK
      <3> QED BY <3>1, <1>a, SvecType, ConstantsAssumption DEF Worker
    <2>2. /\ Len(threads') = Len(threads) + 1
          /\ \A k \in 1 .. Len(threads) : threads'[k] = threads[k]
          /\ threads'[Len(threads) + 1] = i
      BY <1>2, <1>a, <2>1, AppendProperties DEF Spawn, TypeOK
    <2>3. spc = "spawn" /\ spc' = "pin"
      BY <1>2 DEF Spawn
    <2>4. ASSUME NEW w \in Worker, ~ Quiet(w)'
          PROVE  \E k \in 1 .. Len(threads') : threads'[k] = w
      <3>1. CASE w = i
        <4>1. Len(threads) + 1 \in 1 .. Len(threads')
          BY <2>2, <1>b
        <4> QED BY <4>1, <2>2, <3>1
      <3>2. CASE w # i
        <4>1. ~ Quiet(w)
          BY <1>2, <2>4, <3>2, <1>a DEF Spawn, Quiet, TypeOK
        <4>2. PICK k \in 1 .. Len(threads) : threads[k] = w
          BY <4>1, <2>3, <1>a DEF HandleInv
        <4>3. k \in 1 .. Len(threads')
          BY <2>2, <1>b
        <4> QED BY <4>2, <4>3, <2>2
      <3> QED BY <3>1, <3>2
    <2> QED BY <2>3, <2>4 DEF HandleInv
  <1>3. CASE PinLive \/ PinExited
    <2>1. spc = "pin" /\ spc' \in {"spawn", "release"} /\ UNCHANGED <<threads, wpc, j>>
      BY <1>3 DEF PinLive, PinExited, AfterPin, LoopHead, Scheduled
    <2> QED BY <2>1, <1>a DEF HandleInv, Quiet, Passing
  <1>4. CASE Release
    BY <1>4, <1>a DEF Release, HandleInv, Quiet, Passing
  <1>5. CASE NotifyAll
    <2>1. /\ \A w \in Worker : Quiet(w)' <=> Quiet(w)
          /\ spc = "notify" /\ spc' = "join" /\ j' = 1 /\ UNCHANGED threads
      BY <1>5, <1>a DEF NotifyAll, WaitingWorkers, Quiet, TypeOK
    <2> QED BY <2>1, <1>a, <1>b DEF HandleInv, Passing
  <1>6. CASE Await
    <2>1. /\ \A w \in Worker : Quiet(w)' <=> Quiet(w)
          /\ spc = "await" /\ UNCHANGED threads
          /\ (spc' = "join" /\ j' = 1) \/ spc' = "waiting"
      BY <1>6 DEF Await, Quiet
    <2> QED BY <2>1, <1>a, <1>b DEF HandleInv, Passing
  <1>7. CASE Join
    <2>1. /\ spc = "join" /\ spc' = "join" /\ j' = j + 1 /\ UNCHANGED wpc
          /\ j \in 1 .. Len(threads) /\ wpc[threads[j]] = "exited"
      BY <1>7, <1>a, <1>b DEF Join, Ended, TypeOK
    <2>2. /\ Len(threads') = Len(threads)
          /\ \A k \in 1 .. Len(threads) : k # j => threads'[k] = threads[k]
      BY <1>7, <1>a, <2>1, ExceptSeq DEF Join, TypeOK
    <2>3. ASSUME NEW w \in Worker, ~ Quiet(w)'
          PROVE  \E k \in 1 .. Len(threads') : threads'[k] = w /\ k >= j'
      <3>1. ~ Quiet(w)
        BY <2>1, <2>3 DEF Quiet
      <3>2. PICK k \in 1 .. Len(threads) : threads[k] = w /\ k >= j
        BY <3>1, <2>1, <1>a DEF HandleInv, Passing
      <3>3. k # j
        BY <3>1, <3>2, <2>1 DEF Quiet
      <3> QED BY <3>2, <3>3, <2>1, <2>2, <1>b
    <2> QED BY <2>1, <2>3 DEF HandleInv
  <1>8. CASE JoinDone
    <2>1. \A w \in Worker : Quiet(w)'
      BY <1>8, <1>a, JoinedAll DEF JoinDone, JoinLoopOver, Quiet
    <2> QED BY <2>1 DEF HandleInv
  <1>9. CASE Finish
    BY <1>9, <1>a DEF Finish, HandleInv, Quiet, Passing
  <1>10. ASSUME \A w \in Worker : Quiet(w) => Quiet(w)',
                spc' \in {spc} \cup Dead \/ (spc = "waiting" /\ spc' = "await"),
                UNCHANGED <<threads, j>>
         PROVE  HandleInv'
    <2>1. /\ spc' \in Passing \cup {"spawn"} => spc \in Passing \cup {"spawn"}
          /\ spc' = "join" => spc = "join"
          /\ spc' \in {"idle", "finish"} => spc \in {"idle", "finish"}
      BY <1>10 DEF Dead, Passing
    <2> QED BY <2>1, <1>10, <1>a DEF HandleInv
  <1>11. CASE PinFails \/ CountersFail \/ PinJoined \/ JoinJoined
    BY <1>11 DEF PinFails, CountersFail, PinJoined, JoinJoined, HandleInv, Passing
  <1>12. CASE NotifyOne
    <2>1. /\ \A w \in Worker : Quiet(w)' <=> Quiet(w)
          /\ spc = "notify" /\ spc' = "await" /\ UNCHANGED threads
      BY <1>12, <1>a DEF NotifyOne, WaitingWorkers, Quiet, TypeOK
    <2> QED BY <2>1, <1>a DEF HandleInv, Passing
  <1>13. ASSUME NEW w \in Worker, WorkerStep(w) \/ PapiFails(w) PROVE HandleInv'
    <2>1. CASE WakeOne(w)
      BY <2>1, <1>10, <1>a DEF WakeOne, WaitingWorkers, Quiet, TypeOK
    <2>2. CASE Acquire(w) \/ WarmUp(w) \/ BeginMeasure(w) \/ EndMeasure(w) \/ PapiFails(w)
      BY <2>2, <1>10, <1>a
      DEF Acquire, WarmUp, BeginMeasure, EndMeasure, PapiFails, Quiet, TypeOK, Dead
    <2> QED BY <1>13, <2>1, <2>2 DEF WorkerStep, WorkerControl
  <1>14. CASE SpuriousWake
    BY <1>14, <1>10, <1>a DEF SpuriousWake, WaitingWorkers, Quiet, TypeOK
  <1>15. CASE Halted \/ UNCHANGED vars
    BY <1>15, <1>10 DEF Halted, vars, Quiet
  <1> QED BY <1>1, <1>2, <1>3, <1>4, <1>5, <1>6, <1>7, <1>8, <1>9, <1>11, <1>12,
             <1>13, <1>14, <1>15
          DEF Next, SchedulerStep

\* A pass of counters_with_priority_schedule ends only when its thread has.
LEMMA OrderStep == IInv /\ [Next]_vars => OrderInv'
  <1> SUFFICES ASSUME IInv, [Next]_vars PROVE OrderInv'
    OBVIOUS
  <1> USE DEF callVars, loopVars, threadVars
  <1>a. TypeOK /\ OrderInv /\ BornInv /\ HandleInv /\ i \in Nat \ {0}
    BY ConstantsAssumption DEF IInv, TypeOK
  <1>b. \A w \in Worker : w \in Nat \ {0}
    BY ConstantsAssumption DEF Worker
  <1>1. ASSUME NEW m \in Methods, NEW v \in Svecs, Call(m, v) PROVE OrderInv'
    BY <1>1, <1>b DEF Call, OrderInv
  <1>2. ASSUME \A w \in Worker : w # i /\ wpc[w] = "exited" => wpc'[w] = "exited",
               UNCHANGED <<method, i>>
        PROVE  OrderInv'
    <2>1. \A w \in Worker : w < i => w # i
      BY <1>a, <1>b
    <2> QED BY <1>2, <2>1, <1>a DEF OrderInv, Scheduled
  <1>3. CASE Spawn
    BY <1>3, <1>2, <1>a DEF Spawn, TypeOK
  <1>4. CASE PinLive \/ PinExited
    <2>1. CASE Scheduled
      BY <1>4, <2>1 DEF PinLive, PinExited, OrderInv, Scheduled
    <2>2. CASE ~ Scheduled
      BY <1>4, <1>2, <2>2 DEF PinLive, PinExited, AfterPin
    <2> QED BY <2>1, <2>2
  <1>5. CASE PinFails \/ CountersFail \/ PinJoined \/ Release \/ Await \/ Join
             \/ JoinJoined \/ Finish
    BY <1>5, <1>2 DEF PinFails, CountersFail, PinJoined, Release, Await, Join,
                      JoinJoined, Finish
  <1>6. CASE NotifyAll
    BY <1>6, <1>2, <1>a DEF NotifyAll, WaitingWorkers, TypeOK
  <1>7. CASE NotifyOne
    BY <1>7, <1>2, <1>a DEF NotifyOne, WaitingWorkers, TypeOK
  <1>8. CASE JoinDone
    <2>1. CASE Scheduled
      BY <1>8, <2>1 DEF JoinDone, OrderInv, Scheduled
    <2>2. CASE ~ Scheduled
      <3>1. i' = i + 1 /\ UNCHANGED <<method, wpc>>
        BY <1>8, <2>2 DEF JoinDone
      <3>2. \A w \in Worker : w = i => wpc[w] = "exited"
        BY <1>8, <2>2, <1>a, JoinedAll DEF JoinDone, JoinLoopOver, BornInv, Passing, Quiet
      <3>3. \A w \in Worker : w < i + 1 => w < i \/ w = i
        BY <1>a, <1>b
      <3> QED BY <3>1, <3>2, <3>3, <1>a DEF OrderInv, Scheduled
    <2> QED BY <2>1, <2>2
  <1>9. ASSUME NEW w \in Worker, WorkerStep(w) \/ PapiFails(w) PROVE OrderInv'
    <2>1. CASE WakeOne(w)
      BY <2>1, <1>2, <1>a DEF WakeOne, WaitingWorkers, TypeOK
    <2>2. CASE Acquire(w) \/ WarmUp(w) \/ BeginMeasure(w) \/ EndMeasure(w) \/ PapiFails(w)
      BY <2>2, <1>2, <1>a
      DEF Acquire, WarmUp, BeginMeasure, EndMeasure, PapiFails, TypeOK
    <2> QED BY <1>9, <2>1, <2>2 DEF WorkerStep, WorkerControl
  <1>10. CASE SpuriousWake
    BY <1>10, <1>2, <1>a DEF SpuriousWake, WaitingWorkers, TypeOK
  <1>11. CASE Halted \/ UNCHANGED vars
    BY <1>11, <1>2 DEF Halted, vars
  <1> QED BY <1>1, <1>3, <1>4, <1>5, <1>6, <1>7, <1>8, <1>9, <1>10, <1>11
          DEF Next, SchedulerStep

-----------------------------------------------------------------------------

\* The parts of the invariant support each other through every step of the caller,
\* the scheduler and the threads.
LEMMA StepIInv == IInv /\ [Next]_vars => IInv'
  BY TypeStep, MutexStep, IndexStep, BornStep, HandleStep, OrderStep, MeasuredStep,
     JoinedStep, ReadyStep, CleanStep, FreshStep, NewStep, HeldStep, OwnStep, PlacedStep,
     PinnedStep
  DEF IInv

\* IInv holds in every reachable state.
THEOREM Invariance == Spec => []IInv
  BY InitIInv, StepIInv, PTL DEF Spec

\* At most one benchmark of a call runs at any time.
THEOREM MutualExclusion == Spec => []OneBenchmarkAtATime
  <1>1. IInv => OneBenchmarkAtATime
    BY DEF IInv, MutexInv, OneBenchmarkAtATime
  <1> QED BY Invariance, <1>1, PTL

\* counters_with_priority_schedule runs its schedules in order.
THEOREM Order == Spec => []PriorityOrder
  <1>1. ASSUME IInv PROVE PriorityOrder
    <2> SUFFICES ASSUME ~ Scheduled, NEW w \in Worker, wpc[w] # "unborn",
                        NEW u \in 1 .. w - 1
                 PROVE  wpc[u] = "exited"
      BY DEF PriorityOrder
    <2>1. w <= i
      BY <1>1 DEF IInv, BornInv
    <2>2. u \in Worker /\ u < i
      BY <2>1, <1>1, ConstantsAssumption DEF IInv, TypeOK, Worker
    <2> QED BY <2>2, <1>1 DEF IInv, OrderInv
  <1> QED BY Invariance, <1>1, PTL

\* When a method returns, every benchmark of its vector has been measured and
\* no thread can still write to the counters it returns.
THEOREM SafeReturn == Spec => []ReturnIsSafe
  <1>1. ASSUME IInv PROVE ReturnIsSafe
    <2>1. spc \in {"finish", "idle"} => \A w \in Worker : Quiet(w)
      BY <1>1 DEF IInv, HandleInv
    <2>2. ASSUME spc = "finish", NEW w \in 1 .. Len(svec)
          PROVE  measuredOn[w] # {}
      <3>1. w \in Worker /\ w < i
        BY <2>2, <1>1, SvecType, ConstantsAssumption DEF IInv, IndexInv, Worker
      <3>2. wpc[w] = "exited"
        BY <3>1, <2>1, <2>2, <1>1 DEF IInv, BornInv, Quiet
      <3> QED BY <3>1, <3>2, <1>1 DEF IInv, MeasuredInv
    <2> QED BY <2>1, <2>2 DEF ReturnIsSafe
  <1> QED BY Invariance, <1>1, PTL

\* In the first call on an object every benchmark of counters_with_schedule, and
\* the first of counters_with_priority_schedule, is measured on its own core.
THEOREM FirstCallPinned == Spec => []PinnedBeforeBenchmark
  <1>1. IInv => PinnedBeforeBenchmark
    BY DEF IInv
  <1> QED BY Invariance, <1>1, PTL

\* The scheduler starts to join the first thread of a call only when that thread's
\* benchmark is over, in every call on an object.
THEOREM ReadyIsFresh == Spec => []ReadyMeansMeasured
  <1>1. ASSUME IInv PROVE ReadyMeansMeasured
    <2> SUFFICES ASSUME ~ Scheduled, i = 1, spc = "join"
                 PROVE  wpc[1] \in {"notify", "exited"}
      BY DEF ReadyMeansMeasured
    <2>1. PICK w \in Worker : wpc[w] \in {"notify", "exited"}
      BY <1>1 DEF IInv, ReadyInv
    <2>2. w <= i
      BY <2>1, <1>1 DEF IInv, BornInv
    <2>3. w = 1
      BY <2>2, ConstantsAssumption DEF Worker
    <2> QED BY <2>1, <2>3
  <1> QED BY Invariance, <1>1, PTL

\* An object that is used for one call, or only through the priority method, never
\* pins or joins a thread that has been joined.
THEOREM FreshReusable == Spec => [](Fresh => Reusable)
  <1>1. IInv => (Fresh => Reusable)
    BY DEF IInv, FreshInv
  <1> QED BY Invariance, <1>1, PTL

\* A call that finds old handles in the object does not return.
THEOREM CleanCalls == Spec => []OnlyCleanCallsFinish
  <1>1. IInv => OnlyCleanCallsFinish
    BY DEF IInv, CleanInv
  <1> QED BY Invariance, <1>1, PTL

\* No joinable thread is destroyed when the vector of threads is cleared.
THEOREM ClearsJoined == Spec => ClearedJoined
  <1>1. ASSUME IInv, [Next]_vars, Len(threads') < Len(threads)
        PROVE  \A k \in 1 .. Len(threads) : threads[k] = NotJoinable
    <2>a. TypeOK /\ IndexInv /\ JoinedInv
      BY <1>1 DEF IInv
    <2>b. Len(threads) \in Nat
      BY <2>a, LenProperties DEF TypeOK
    <2>1. CASE JoinDone
      BY <2>1, <2>a, <2>b DEF JoinDone, JoinLoopOver, JoinedInv, TypeOK
    <2>2. CASE Join
      <3>1. j \in 1 .. Len(threads)
        BY <2>2, <2>a, <2>b DEF Join, TypeOK
      <3>2. Len(threads') = Len(threads)
        BY <2>2, <3>1, <2>a, ExceptSeq DEF Join, TypeOK
      <3> QED BY <3>2, <1>1, <2>b
    <2>3. CASE Spawn
      <3>1. i \in Worker
        BY <2>3, <2>a, SvecType, ConstantsAssumption DEF Spawn, IndexInv, Worker, TypeOK
      <3>2. Len(threads') = Len(threads) + 1
        BY <2>3, <3>1, <2>a, AppendHandle DEF Spawn
      <3> QED BY <3>2, <1>1, <2>b
    <2>4. CASE ~ Spawn /\ ~ Join /\ ~ JoinDone
      BY <2>4, <1>1, <2>b, ThreadsKept
    <2> QED BY <2>1, <2>2, <2>3, <2>4
  <1>2. IInv /\ [Next]_vars =>
          [Len(threads') < Len(threads) =>
             \A k \in 1 .. Len(threads) : threads[k] = NotJoinable]_vars
    BY <1>1
  <1> QED BY Invariance, <1>2, PTL DEF Spec, ClearedJoined

-----------------------------------------------------------------------------
(***************************************************************************)
(* CounterBenchmark implements SerialSchedule: each of its steps is a step *)
(* of the abstract schedule, or none that the caller can see.              *)
(***************************************************************************)

\* The caller's view of the workers.
States == [w \in Worker |-> CallState(w)]

\* A step that changes neither the call nor a worker's visible state is a
\* stuttering step of the abstract schedule.
LEMMA Stutter ==
  ASSUME UNCHANGED <<svec, method>>, CallPhase' = CallPhase,
         \A w \in Worker : CallState(w)' = CallState(w)
  PROVE  UNCHANGED SS!vars
  <1>1. Scheduled' = Scheduled
    BY DEF Scheduled
  <1> QED BY <1>1 DEF SS!vars

\* The same for steps of the scheduler inside a call.
LEMMA StutterBusy ==
  ASSUME UNCHANGED <<svec, method>>, CallPhase = "busy", CallPhase' = "busy",
         \A w \in Worker : CallState(w)' = CallState(w)
  PROVE  [SS!Next]_(SS!vars)
  BY Stutter

\* A worker's step is seen as the start or the end of its benchmark.
LEMMA WorkerRefines ==
  ASSUME IInv, NEW w \in Worker, WorkerStep(w)
  PROVE  [SS!Next]_(SS!vars)
  <1>a. TypeOK /\ MutexInv /\ BornInv /\ OrderInv /\ HandleInv
    BY DEF IInv
  <1>b. CallPhase = "busy"
    <2>1. spc # "idle"
      BY <1>a
      DEF WorkerStep, WorkerControl, Acquire, WarmUp, BeginMeasure, EndMeasure, WakeOne,
          HandleInv, Quiet
    <2>2. spc \notin Dead
      BY DEF WorkerStep, WorkerControl, Acquire, WarmUp, BeginMeasure, EndMeasure,
             WakeOne, Alive
    <2> QED BY <2>1, <2>2 DEF CallPhase
  <1>1. CASE Acquire(w)
    <2>1. CASE pause
      BY <1>1, <2>1, <1>a, Stutter DEF Acquire, CallState, CallPhase, Running, TypeOK, callVars, loopVars, threadVars
    <2>2. CASE ~ pause
      <3>1. /\ wpc' = [wpc EXCEPT ![w] = "warmup"]
            /\ UNCHANGED <<svec, method, spc>>
            /\ wpc[w] = "lock" /\ mtx = Free
        BY <1>1, <2>2 DEF Acquire, MutexFree, callVars, loopVars, threadVars
      <3>2. w \in 1 .. Len(svec)
        BY <3>1, <1>a, SvecType, ConstantsAssumption DEF BornInv, Worker
      <3>3. \A u \in Worker : CallState(u) # "running"
        BY <3>1, <1>a, ConstantsAssumption
        DEF MutexInv, CallState, Running, TypeOK, Worker, Free
      <3>4. ~ Scheduled => \A u \in 1 .. w - 1 : States[u] = "done"
        <4> SUFFICES ASSUME ~ Scheduled, NEW u \in 1 .. w - 1
                     PROVE  States[u] = "done"
          OBVIOUS
        <4>1. w <= i
          BY <3>1, <1>a DEF BornInv
        <4>2. u \in Worker /\ u < i
          BY <4>1, <1>a, ConstantsAssumption DEF Worker, TypeOK
        <4> QED BY <4>2, <1>a DEF OrderInv, CallState, States, Running
      <3>5. States' = [States EXCEPT ![w] = "running"] /\ States[w] = "todo"
        BY <3>1, <1>a DEF States, CallState, Running, TypeOK
      <3>6. CallPhase' = "busy" /\ Scheduled' = Scheduled /\ svec' = svec
        BY <3>1, <1>b DEF CallPhase, Scheduled
      <3>7. SS!Start(w)
        BY <3>2, <3>3, <3>4, <3>5, <3>6, <1>b DEF SS!Start, States, Worker
      <3> QED BY <3>7 DEF SS!Next, SS!Progress, Worker
    <2> QED BY <1>a, <2>1, <2>2 DEF TypeOK
  <1>2. CASE WarmUp(w) \/ BeginMeasure(w)
    BY <1>2, <1>a, Stutter
    DEF WarmUp, BeginMeasure, CallState, CallPhase, Running, TypeOK, callVars, loopVars, threadVars
  <1>3. CASE EndMeasure(w)
    <2>1. /\ wpc' = [wpc EXCEPT ![w] = "notify"]
          /\ UNCHANGED <<svec, method, spc>>
          /\ wpc[w] = "measuring"
      BY <1>3 DEF EndMeasure, callVars, loopVars, threadVars
    <2>2. States' = [States EXCEPT ![w] = "done"] /\ States[w] = "running"
      BY <2>1, <1>a DEF States, CallState, Running, TypeOK
    <2>3. CallPhase' = "busy" /\ Scheduled' = Scheduled /\ svec' = svec
      BY <2>1, <1>b DEF CallPhase, Scheduled
    <2>4. SS!Complete(w)
      BY <2>2, <2>3, <1>b DEF SS!Complete, States, Worker
    <2> QED BY <2>4 DEF SS!Next, SS!Progress, Worker
  <1>4. CASE WakeOne(w)
    <2>1. UNCHANGED <<svec, method>> /\ CallPhase' = CallPhase
      BY <1>4, <1>b DEF WakeOne, CallPhase, Dead, callVars, loopVars, threadVars
    <2>2. \A u \in Worker : CallState(u)' = CallState(u)
      BY <1>4, <1>a DEF WakeOne, WaitingWorkers, CallState, Running, TypeOK
    <2> QED BY <2>1, <2>2, Stutter
  <1> QED BY <1>1, <1>2, <1>3, <1>4 DEF WorkerStep, WorkerControl

\* A step of the scheduler is seen as the return of the call, the end of the
\* process, or not at all.
LEMMA SchedulerRefines ==
  ASSUME IInv, SchedulerStep
  PROVE  [SS!Next]_(SS!vars)
  <1> USE DEF callVars, loopVars, threadVars
  <1>a. TypeOK /\ BornInv /\ IndexInv /\ HandleInv
    BY DEF IInv
  <1>b. CallPhase = "busy"
    BY DEF SchedulerStep, Spawn, PinLive, PinExited, PinFails, CountersFail, PinJoined,
           Release,
           NotifyAll, NotifyOne, Await, Join, JoinJoined, JoinDone, Finish, CallPhase, Dead
  <1>1. CASE Spawn
    <2>1. \A w \in Worker : CallState(w)' = CallState(w)
      BY <1>1, <1>a DEF Spawn, BornInv, CallState, Running, TypeOK
    <2> QED BY <1>1, <2>1, <1>b, StutterBusy DEF Spawn, CallPhase, Dead
  <1>2. ASSUME UNCHANGED <<svec, method, wpc>>, CallPhase' = "busy"
        PROVE  [SS!Next]_(SS!vars)
    BY <1>2, <1>b, StutterBusy DEF CallState, Running
  <1>3. CASE PinLive \/ PinExited
    BY <1>3, <1>2 DEF PinLive, PinExited, AfterPin, LoopHead, CallPhase, Dead
  <1>4. CASE Release \/ Await \/ Join \/ JoinDone
    BY <1>4, <1>2 DEF Release, Await, Join, JoinDone, LoopHead, CallPhase, Dead
  <1>5. CASE NotifyAll
    <2>1. \A w \in Worker : CallState(w)' = CallState(w)
      BY <1>5, <1>a DEF NotifyAll, WaitingWorkers, CallState, Running, TypeOK
    <2> QED BY <1>5, <2>1, <1>b, StutterBusy DEF NotifyAll, CallPhase, Dead
  <1>6. CASE NotifyOne
    <2>1. \A w \in Worker : CallState(w)' = CallState(w)
      BY <1>6, <1>a DEF NotifyOne, WaitingWorkers, CallState, Running, TypeOK
    <2> QED BY <1>6, <2>1, <1>b, StutterBusy DEF NotifyOne, CallPhase, Dead
  <1>7. CASE PinFails \/ CountersFail \/ PinJoined \/ JoinJoined
    <2>1. CallPhase' = "dead" /\ UNCHANGED <<svec, method, wpc>>
      BY <1>7 DEF PinFails, CountersFail, PinJoined, JoinJoined, CallPhase, Dead
    <2>2. Scheduled' = Scheduled /\ States' = States
      BY <2>1 DEF Scheduled, States, CallState, Running
    <2>3. SS!Die
      BY <2>1, <2>2, <1>b DEF SS!Die, States
    <2> QED BY <2>3 DEF SS!Next, SS!Progress
  <1>8. CASE Finish
    <2>1. /\ CallPhase' = "idle" /\ UNCHANGED <<svec, method, wpc>>
          /\ spc = "finish"
      BY <1>8 DEF Finish, CallPhase, Dead
    <2>2. Scheduled' = Scheduled /\ States' = States
      BY <2>1 DEF Scheduled, States, CallState, Running
    <2>3. ASSUME NEW w \in 1 .. Len(svec) PROVE States[w] = "done"
      <3>1. w \in Worker /\ w < i
        BY <2>1, <1>a, SvecType, ConstantsAssumption DEF IndexInv, Worker
      <3>2. wpc[w] = "exited"
        BY <3>1, <2>1, <1>a DEF HandleInv, BornInv, Quiet
      <3> QED BY <3>1, <3>2 DEF States, CallState, Running
    <2>4. SS!Return
      BY <2>1, <2>2, <2>3, <1>b DEF SS!Return, States
    <2> QED BY <2>4 DEF SS!Next, SS!Progress
  <1> QED BY <1>1, <1>3, <1>4, <1>5, <1>6, <1>7, <1>8 DEF SchedulerStep

\* CounterBenchmark implements the safety part of SerialSchedule: a caller that
\* reasons about serial, complete and (for the priority method) ordered
\* execution need not know of threads, mutex and condition variable.
THEOREM Implementation == Spec => SS!Safe
  <1> USE DEF callVars, loopVars, threadVars
  <1>1. Init => SS!Init
    <2> SUFFICES ASSUME Init PROVE SS!Init
      OBVIOUS
    <2>1. Len(svec) = 0
      BY EmptySeq DEF Init
    <2>2. (~ Scheduled) \in BOOLEAN /\ CallPhase = "idle"
      BY DEF Init, Scheduled, CallPhase, Dead
    <2>3. States = SS!AllToDo
      BY DEF Init, States, CallState, Running, SS!AllToDo, Worker
    <2> QED BY <2>1, <2>2, <2>3 DEF SS!Init, States
  <1>2. ASSUME IInv, [Next]_vars PROVE [SS!Next]_(SS!vars)
    <2>1. ASSUME NEW m \in Methods, NEW v \in Svecs, Call(m, v)
          PROVE  [SS!Next]_(SS!vars)
      <3>1. CallPhase = "idle" /\ CallPhase' = "busy"
        BY <2>1 DEF Call, LoopHead, CallPhase, Dead
      <3>2. Len(svec') \in 0 .. MaxSched
        BY <2>1, ConstantsAssumption, LenProperties DEF Call
      <3>3. States' = SS!AllToDo
        BY <2>1 DEF Call, States, CallState, Running, SS!AllToDo, Worker
      <3>4. (~ Scheduled)' \in BOOLEAN
        BY DEF Scheduled
      <3>5. SS!Begin
        BY <3>1, <3>2, <3>3, <3>4 DEF SS!Begin, States
      <3> QED BY <3>5 DEF SS!Next
    <2>2. CASE SchedulerStep
      BY <2>2, <1>2, SchedulerRefines
    <2>3. ASSUME NEW w \in Worker, WorkerStep(w) PROVE [SS!Next]_(SS!vars)
      BY <2>3, <1>2, WorkerRefines
    <2>4. ASSUME NEW w \in Worker, PapiFails(w) PROVE [SS!Next]_(SS!vars)
      <3>1. CallPhase = "busy" /\ CallPhase' = "dead" /\ UNCHANGED <<svec, method, wpc>>
        BY <2>4, <1>2 DEF PapiFails, Alive, CallPhase, Dead, IInv, HandleInv, Quiet, Running
      <3>2. Scheduled' = Scheduled /\ States' = States
        BY <3>1 DEF Scheduled, States, CallState, Running
      <3>3. SS!Die
        BY <3>1, <3>2 DEF SS!Die, States
      <3> QED BY <3>3 DEF SS!Next, SS!Progress
    <2>5. CASE SpuriousWake
      <3>1. UNCHANGED <<svec, method>> /\ CallPhase' = CallPhase
        BY <2>5 DEF SpuriousWake, CallPhase, Dead
      <3>2. \A w \in Worker : CallState(w)' = CallState(w)
        BY <2>5, <1>2
        DEF SpuriousWake, WaitingWorkers, CallState, Running, IInv, TypeOK
      <3> QED BY <3>1, <3>2, Stutter
    <2>6. CASE Halted \/ UNCHANGED vars
      BY <2>6, Stutter DEF Halted, vars, CallPhase, CallState, Running
    <2> QED BY <1>2, <2>1, <2>2, <2>3, <2>4, <2>5, <2>6 DEF Next
  <1> QED BY <1>1, <1>2, Invariance, PTL DEF Spec, SS!Safe

=============================================================================
