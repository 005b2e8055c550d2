------------------------ MODULE CounterBenchmarkReuse ------------------------
(***************************************************************************)
(* Lemmas about the parts of the inductive invariant of CounterBenchmark   *)
(* that concern the state an object keeps from call to call: the thread    *)
(* handles, the gate and ready.                                            *)
(***************************************************************************)
EXTENDS CounterBenchmark, SequenceTheorems, TLAPS

\* The vector of the current call, once a call has begun, is a vector of
\* schedules of at most MaxSched elements.
LEMMA SvecType ==
  ASSUME TypeOK
  PROVE  /\ svec \in Seq(Schedule)
         /\ Len(svec) \in 0 .. MaxSched
  <1>1. svec \in Seq(Schedule)
    BY ConstantsAssumption, EmptySeq DEF TypeOK
  <1>2. Len(svec) \in Nat
    BY <1>1, LenProperties
  <1>3. Len(svec) <= MaxSched
    BY ConstantsAssumption, EmptySeq DEF TypeOK
  <1> QED BY <1>1, <1>2, <1>3, ConstantsAssumption

\* Elements of the current vector name a core.
LEMMA CoreOfSchedule ==
  ASSUME TypeOK, i <= Len(svec)
  PROVE  svec[i].core_id \in Core
  <1>1. i \in 1 .. Len(svec)
    BY SvecType DEF TypeOK
  <1>2. svec[i] \in Schedule
    BY <1>1, SvecType, ElementOfSeq
  <1> QED BY <1>2 DEF Schedule

\* The steps that leave the vector of threads alone.
LEMMA ThreadsKept ==
  ASSUME [Next]_vars, ~ Spawn, ~ Join, ~ JoinDone
  PROVE  UNCHANGED threads
  BY DEF Next, SchedulerStep, WorkerStep, WorkerControl, Call, PinLive, PinExited,
         PinFails, CountersFail,
         PinJoined, Release, NotifyAll, NotifyOne, Await, JoinJoined, Finish, Acquire,
         WarmUp, BeginMeasure, EndMeasure, WakeOne, PapiFails, SpuriousWake, Halted, vars

-----------------------------------------------------------------------------

\* The join loop joins one handle after the other.
LEMMA JoinedStep == IInv /\ [Next]_vars => JoinedInv'
  <1> SUFFICES ASSUME IInv, [Next]_vars, spc' = "join"
               PROVE  \A k \in 1 .. Len(threads') : k < j' => threads'[k] = NotJoinable
    BY DEF JoinedInv
  <1> USE DEF callVars, loopVars, threadVars
  <1>a. TypeOK /\ JoinedInv
    BY DEF IInv
  <1>1. CASE NotifyAll \/ Await
    <2>1. j' = 1
      BY <1>1 DEF NotifyAll, Await
    <2> QED BY <2>1
  <1>2. CASE Join
    <2>1. j \in 1 .. Len(threads) /\ j' = j + 1
      BY <1>2, <1>a, LenProperties DEF Join, TypeOK
    <2>2. threads' = [threads EXCEPT ![j] = NotJoinable] /\ Len(threads') = Len(threads)
      BY <1>2, <2>1, <1>a, ExceptSeq DEF Join, TypeOK
    <2>3. ASSUME NEW k \in 1 .. Len(threads), k < j + 1 PROVE threads'[k] = NotJoinable
      <3>1. k \in DOMAIN threads
        BY <1>a, LenProperties DEF TypeOK
      <3>2. CASE k = j
        BY <3>1, <3>2, <2>2
      <3>3. CASE k # j
        <4>1. k < j
          BY <2>1, <2>3, <3>3, <1>a DEF TypeOK
        <4> QED BY <1>2, <4>1, <3>1, <3>3, <2>2, <1>a DEF JoinedInv, Join
      <3> QED BY <3>2, <3>3
    <2> QED BY <2>1, <2>2, <2>3
  <1>3. CASE UNCHANGED <<threads, j, spc>>
    BY <1>3, <1>a DEF JoinedInv
  <1>4. ASSUME NEW m \in Methods, NEW v \in Svecs, Call(m, v) PROVE FALSE
    BY <1>4 DEF Call, LoopHead
  <1>5. ASSUME Spawn \/ PinLive \/ PinExited \/ PinFails \/ CountersFail \/ PinJoined
               \/ Release \/ NotifyOne
               \/ JoinJoined \/ JoinDone \/ Finish
        PROVE  FALSE
    BY <1>5 DEF Spawn, PinLive, PinExited, AfterPin, LoopHead, PinFails, CountersFail,
                PinJoined, Release,
                NotifyOne, JoinJoined, JoinDone, Finish
  <1>6. ASSUME NEW w \in Worker, WorkerStep(w) PROVE UNCHANGED <<threads, j, spc>>
    BY <1>6 DEF WorkerStep, WorkerControl, Acquire, WarmUp, BeginMeasure, EndMeasure, WakeOne
  <1>7. ASSUME NEW w \in Worker, PapiFails(w) PROVE FALSE
    BY <1>7 DEF PapiFails
  <1>8. CASE SpuriousWake \/ Halted \/ UNCHANGED vars
    BY <1>8, <1>3 DEF SpuriousWake, Halted, vars
  <1> QED BY <1>1, <1>2, <1>3, <1>4, <1>5, <1>6, <1>7, <1>8 DEF Next, SchedulerStep

\* A worker whose benchmark is over stays so until the next call.
LEMMA DoneStays ==
  ASSUME IInv, [Next]_vars, spc # "idle", NEW w \in Worker, wpc[w] \in {"notify", "exited"}
  PROVE  wpc'[w] \in {"notify", "exited"}
  <1> USE DEF callVars, loopVars, threadVars
  <1>a. TypeOK /\ BornInv
    BY DEF IInv
  <1>1. ASSUME NEW m \in Methods, NEW v \in Svecs, Call(m, v) PROVE FALSE
    BY <1>1 DEF Call
  <1>2. CASE Spawn
    BY <1>2, <1>a DEF Spawn, BornInv, TypeOK
  <1>3. CASE NotifyAll \/ NotifyOne \/ SpuriousWake
    BY <1>3, <1>a DEF NotifyAll, NotifyOne, SpuriousWake, WaitingWorkers, TypeOK
  <1>4. CASE UNCHANGED wpc
    BY <1>4
  <1>5. CASE PinLive \/ PinExited \/ PinFails \/ CountersFail \/ PinJoined \/ Release
             \/ Await \/ Join
             \/ JoinJoined \/ JoinDone \/ Finish
    BY <1>5, <1>4 DEF PinLive, PinExited, PinFails, CountersFail, PinJoined, Release,
                      Await, Join,
                      JoinJoined, JoinDone, Finish
  <1>6. ASSUME NEW u \in Worker, WorkerStep(u) \/ PapiFails(u)
        PROVE  wpc'[w] \in {"notify", "exited"}
    BY <1>6, <1>a DEF WorkerStep, WorkerControl, Acquire, WarmUp, BeginMeasure, EndMeasure,
                      WakeOne, WaitingWorkers, PapiFails, TypeOK
  <1>7. CASE Halted \/ UNCHANGED vars
    BY <1>7, <1>4 DEF Halted, vars
  <1> QED BY <1>1, <1>2, <1>3, <1>5, <1>6, <1>7 DEF Next, SchedulerStep

\* ready is set by a benchmark that ends, and reset by the return.
LEMMA ReadyStep == IInv /\ [Next]_vars => ReadyInv'
  <1> SUFFICES ASSUME IInv, [Next]_vars PROVE ReadyInv'
    OBVIOUS
  <1> USE DEF callVars, loopVars, threadVars
  <1>a. TypeOK /\ ReadyInv /\ IndexInv /\ HandleInv
    BY DEF IInv
  <1>1. ASSUME NEW m \in Methods, NEW v \in Svecs, Call(m, v) PROVE ReadyInv'
    BY <1>1, <1>a DEF Call, LoopHead, ReadyInv
  <1>2. ASSUME spc # "idle", spc' # "idle", UNCHANGED <<ready, method>>,
               spc' = "join" /\ ~ Scheduled => spc = "join" \/ ready
        PROVE  ReadyInv'
    <2>1. ready' => \E w \in Worker : wpc'[w] \in {"notify", "exited"}
      BY <1>2, <1>a, DoneStays DEF ReadyInv
    <2> QED BY <1>2, <2>1, <1>a DEF ReadyInv, Scheduled
  <1>3. CASE Spawn \/ PinLive \/ PinExited \/ PinFails \/ CountersFail \/ PinJoined
             \/ Release
    BY <1>3, <1>2 DEF Spawn, PinLive, PinExited, AfterPin, LoopHead, PinFails,
                      CountersFail, PinJoined,
                      Release
  <1>4. CASE NotifyAll \/ NotifyOne \/ Await
    BY <1>4, <1>2 DEF NotifyAll, NotifyOne, Await
  <1>5. CASE Join \/ JoinJoined \/ JoinDone
    BY <1>5, <1>2 DEF Join, JoinJoined, JoinDone, LoopHead
  <1>6. CASE Finish
    BY <1>6 DEF Finish, NotReady, ReadyInv
  <1>7. ASSUME NEW w \in Worker, EndMeasure(w) PROVE ReadyInv'
    <2>1. wpc'[w] = "notify" /\ ready' /\ UNCHANGED <<spc, method>>
      BY <1>7, <1>a DEF EndMeasure, TypeOK
    <2>2. spc # "idle"
      BY <1>7, <1>a DEF EndMeasure, HandleInv, Quiet
    <2> QED BY <2>1, <2>2 DEF ReadyInv
  <1>8. ASSUME NEW w \in Worker, WorkerControl(w) \/ PapiFails(w) PROVE ReadyInv'
    <2>1. spc # "idle"
      BY <1>8, <1>a DEF WorkerControl, Acquire, WarmUp, BeginMeasure, WakeOne, PapiFails,
                        Running, HandleInv, Quiet
    <2> QED BY <1>8, <2>1, <1>2
            DEF WorkerControl, Acquire, WarmUp, BeginMeasure, WakeOne, PapiFails
  <1>9. CASE SpuriousWake
    <2>1. spc # "idle"
      BY <1>9, <1>a DEF SpuriousWake, WaitingWorkers, HandleInv, Quiet
    <2> QED BY <1>9, <2>1, <1>2 DEF SpuriousWake
  <1>10. CASE Halted \/ UNCHANGED vars
    BY <1>10, <1>a DEF Halted, vars, ReadyInv, Scheduled
  <1> QED BY <1>1, <1>3, <1>4, <1>5, <1>6, <1>7, <1>8, <1>9, <1>10
          DEF Next, SchedulerStep, WorkerStep

\* A new thread's handle comes after those that are there.
LEMMA AppendHandle ==
  ASSUME TypeOK, i \in Worker, threads' = Append(threads, i)
  PROVE  /\ Len(threads') = Len(threads) + 1
         /\ \A k \in 1 .. Len(threads) : threads'[k] = threads[k]
         /\ threads'[Len(threads) + 1] = i
  <1>1. threads \in Seq(Worker \cup {NotJoinable}) /\ i \in Worker \cup {NotJoinable}
    BY DEF TypeOK
  <1> QED BY <1>1, AppendProperties

\* How many handles there are follows the loop over the vector, once a pin has
\* shown that there were none before the call.
LEMMA CleanStep == IInv /\ [Next]_vars => CleanInv'
  <1> SUFFICES ASSUME IInv, [Next]_vars PROVE CleanInv'
    OBVIOUS
  <1> USE DEF callVars, loopVars, threadVars
  <1>a. /\ TypeOK /\ CleanInv /\ IndexInv /\ BornInv /\ HandleInv /\ JoinedInv
        /\ i \in Nat \ {0} /\ j \in Nat /\ Len(svec) \in Nat
    BY SvecType, ConstantsAssumption DEF IInv, TypeOK
  <1>b. Len(threads) \in Nat
    BY <1>a, LenProperties DEF TypeOK
  <1>c. \A v \in Svecs \cup {<<>>} : v # <<>> <=> Len(v) # 0
    BY ConstantsAssumption, EmptySeq
  <1>d. svec # <<>> <=> Len(svec) # 0
    BY <1>a, <1>c DEF TypeOK
  <1>1. ASSUME NEW m \in Methods, NEW v \in Svecs, Call(m, v) PROVE CleanInv'
    <2>1. AllJoined /\ AllJoined'
      BY <1>1, <1>a DEF Call, CleanInv, AllJoined
    <2>2. i' = 1 /\ spc' \in {"spawn", "release", "finish"}
      BY <1>1 DEF Call, LoopHead
    <2>3. spc' # "spawn" => svec' = <<>>
      <3>1. Len(v) \in Nat
        BY ConstantsAssumption, LenProperties
      <3> QED BY <1>1, <3>1, <1>c DEF Call, LoopHead
    <2> QED BY <2>1, <2>2, <2>3 DEF CleanInv, OnlyCleanCallsFinish, Passing
  <1>2. CASE Spawn
    <2>1. i \in Worker
      BY <1>2, <1>a, SvecType, ConstantsAssumption DEF Spawn, IndexInv, Worker
    <2>2. /\ Len(threads') = Len(threads) + 1
          /\ \A k \in 1 .. Len(threads) : threads'[k] = threads[k]
      BY <1>2, <2>1, <1>a, AppendHandle DEF Spawn
    <2>3. spc = "spawn" /\ spc' = "pin" /\ UNCHANGED <<method, i>>
      BY <1>2 DEF Spawn
    <2>4. \/ Len(threads') = IF Scheduled' THEN i' ELSE 1
          \/ PinnedHandle' = NotJoinable
      <3>1. CASE i # 1
        BY <3>1, <2>2, <2>3, <1>a, <1>b DEF CleanInv, Scheduled
      <3>2. CASE i = 1 /\ Len(threads) = 0
        BY <3>2, <2>2, <2>3
      <3>3. CASE i = 1 /\ Len(threads) # 0
        <4>1. threads[1] = NotJoinable /\ threads'[1] = threads[1]
          BY <3>3, <2>2, <2>3, <1>a, <1>b DEF CleanInv, AllJoined
        <4> QED BY <3>3, <4>1, <2>3 DEF PinnedHandle, NotJoinable
      <3> QED BY <3>1, <3>2, <3>3
    <2> QED BY <2>3, <2>4 DEF CleanInv, OnlyCleanCallsFinish
  <1>3. CASE PinLive \/ PinExited
    <2>1. /\ spc = "pin" /\ PinnedHandle # NotJoinable /\ AfterPin
          /\ UNCHANGED <<threads, method, svec>>
      BY <1>3 DEF PinLive, PinExited
    <2>2. Len(threads) = IF Scheduled THEN i ELSE 1
      BY <2>1, <1>a DEF CleanInv
    <2>3. CASE Scheduled
      BY <2>1, <2>2, <2>3, <1>a DEF AfterPin, LoopHead, CleanInv, OnlyCleanCallsFinish,
                                    IndexInv, Passing, Scheduled
    <2>4. CASE ~ Scheduled
      BY <2>1, <2>2, <2>4 DEF AfterPin, CleanInv, OnlyCleanCallsFinish, Scheduled
    <2> QED BY <2>3, <2>4
  <1>4. ASSUME spc' \in Dead PROVE CleanInv'
    BY <1>4 DEF CleanInv, OnlyCleanCallsFinish, Passing, Dead
  <1>5. CASE PinFails \/ CountersFail \/ PinJoined \/ JoinJoined
    BY <1>5, <1>4 DEF PinFails, CountersFail, PinJoined, JoinJoined, Dead
  <1>6. ASSUME spc \in Passing \ {"pin"}, spc' \in Passing \ {"pin"},
               Len(threads') = Len(threads), UNCHANGED <<method, svec>>
        PROVE  CleanInv'
    BY <1>6, <1>a DEF CleanInv, OnlyCleanCallsFinish, Passing, Scheduled
  <1>7. CASE Release \/ NotifyAll \/ NotifyOne \/ Await
    BY <1>7, <1>6 DEF Release, NotifyAll, NotifyOne, Await, Passing
  <1>8. CASE Join
    <2>1. j \in 1 .. Len(threads)
      BY <1>8, <1>a, <1>b DEF Join, TypeOK
    <2>2. Len(threads') = Len(threads)
      BY <1>8, <2>1, <1>a, ExceptSeq DEF Join, TypeOK
    <2> QED BY <1>8, <2>2, <1>6 DEF Join, Passing
  <1>9. CASE JoinDone
    <2>1. spc = "join" /\ AllJoined /\ UNCHANGED <<method, svec>>
      BY <1>9, <1>a, <1>b DEF JoinDone, JoinLoopOver, JoinedInv, AllJoined
    <2>2. CASE Scheduled
      <3>1. spc' = "finish" /\ UNCHANGED threads
        BY <1>9, <2>2 DEF JoinDone
      <3> QED BY <2>1, <2>2, <3>1, <1>a
              DEF CleanInv, OnlyCleanCallsFinish, AllJoined, Passing, Scheduled
    <2>3. CASE ~ Scheduled
      <3>1. spc' \in {"spawn", "finish"} /\ i' = i + 1 /\ Len(threads') = 0
        BY <1>9, <2>1, <2>3, EmptySeq DEF JoinDone, Cleared, LoopHead, Scheduled
      <3>2. \A k \in 1 .. Len(threads') : FALSE
        BY <3>1
      <3> QED BY <2>1, <2>3, <3>1, <3>2, <1>a
              DEF CleanInv, OnlyCleanCallsFinish, AllJoined, Passing, Scheduled
    <2> QED BY <2>2, <2>3
  <1>10. CASE Finish
    BY <1>10, <1>a DEF Finish, CleanInv, OnlyCleanCallsFinish, AllJoined, Passing
  <1>11. ASSUME UNCHANGED <<spc, threads, method, svec, i>> PROVE CleanInv'
    BY <1>11, <1>a
    DEF CleanInv, OnlyCleanCallsFinish, AllJoined, PinnedHandle, Scheduled
  <1>12. ASSUME spc = "waiting", spc' = "await", UNCHANGED <<threads, method, svec>>
         PROVE  CleanInv'
    BY <1>12, <1>6 DEF Passing
  <1>13. ASSUME NEW w \in Worker, WorkerStep(w) PROVE CleanInv'
    BY <1>13, <1>11, <1>12
    DEF WorkerStep, WorkerControl, Acquire, WarmUp, BeginMeasure, EndMeasure, WakeOne
  <1>14. ASSUME NEW w \in Worker, PapiFails(w) PROVE CleanInv'
    BY <1>14, <1>4 DEF PapiFails, Dead
  <1>15. CASE SpuriousWake
    BY <1>15, <1>11, <1>12 DEF SpuriousWake
  <1>16. CASE Halted \/ UNCHANGED vars
    BY <1>16, <1>11 DEF Halted, vars
  <1> QED BY <1>1, <1>2, <1>3, <1>5, <1>7, <1>8, <1>9, <1>10, <1>13, <1>14, <1>15, <1>16
          DEF Next, SchedulerStep

-----------------------------------------------------------------------------

\* Between calls the only step is the next call.
LEMMA IdleOnlyCalls ==
  ASSUME IInv, [Next]_vars, spc = "idle", ~ UNCHANGED vars
  PROVE  \E m \in Methods, v \in Svecs : Call(m, v)
  <1>1. \A w \in Worker : Quiet(w)
    BY DEF IInv, HandleInv
  <1>2. ASSUME NEW w \in Worker, WorkerStep(w) \/ PapiFails(w) PROVE FALSE
    BY <1>1, <1>2 DEF WorkerStep, WorkerControl, Acquire, WarmUp, BeginMeasure, EndMeasure,
                      WakeOne, PapiFails, Running, Quiet
  <1>3. ~ SpuriousWake
    BY <1>1 DEF SpuriousWake, WaitingWorkers, Quiet
  <1>4. ~ SchedulerStep
    BY DEF SchedulerStep, Spawn, PinLive, PinExited, PinFails, CountersFail, PinJoined,
           Release, NotifyAll,
           NotifyOne, Await, Join, JoinJoined, JoinDone, Finish
  <1> QED BY <1>2, <1>3, <1>4 DEF Next, Halted

\* Nothing happens to an object before its first call.
LEMMA NewStep == IInv /\ [Next]_vars => NewInv'
  <1> SUFFICES ASSUME IInv, [Next]_vars, calls' = 0
               PROVE  spc' = "idle" /\ pause' /\ threads' = <<>>
    BY DEF NewInv
  <1> USE DEF callVars, loopVars, threadVars
  <1>1. ASSUME NEW m \in Methods, NEW v \in Svecs, Call(m, v) PROVE FALSE
    <2>1. calls' = calls + 1 /\ calls \in Nat
      BY <1>1 DEF Call, IInv, TypeOK
    <2> QED BY <2>1
  <1>2. UNCHANGED calls
    BY <1>1
    DEF Next, SchedulerStep, WorkerStep, WorkerControl, Spawn, PinLive, PinExited,
        PinFails, CountersFail,
        PinJoined, Release, NotifyAll, NotifyOne, Await, Join, JoinJoined, JoinDone, Finish,
        Acquire, WarmUp, BeginMeasure, EndMeasure, WakeOne, PapiFails, SpuriousWake, Halted,
        vars
  <1>3. spc = "idle" /\ pause /\ threads = <<>>
    BY <1>2 DEF IInv, NewInv
  <1>4. UNCHANGED vars
    BY <1>1, <1>3, IdleOnlyCalls
  <1> QED BY <1>3, <1>4 DEF vars

\* Where a call may have begun: it is the first one only if the object was new.
LEMMA FirstCall ==
  ASSUME IInv, NEW m \in Methods, NEW v \in Svecs, Call(m, v), calls' = 1
  PROVE  pause /\ threads = <<>>
  <1>1. calls = 0
    BY DEF Call, IInv, TypeOK
  <1> QED BY <1>1 DEF IInv, NewInv

\* A fresh object never comes to a handle of a joined thread: a call begins with
\* no handles, a pass pins the handle it has just added, and the join loop leaves
\* every handle it has joined behind.
LEMMA FreshStep == IInv /\ [Next]_vars => FreshInv'
  <1> SUFFICES ASSUME IInv, [Next]_vars, Fresh' PROVE FreshInv'
    BY DEF FreshInv
  <1> USE DEF callVars, loopVars, threadVars
  <1>a. /\ TypeOK /\ IndexInv /\ CleanInv /\ BornInv /\ NewInv
        /\ i \in Nat \ {0} /\ j \in Nat /\ Len(svec) \in Nat
    BY SvecType, ConstantsAssumption DEF IInv, TypeOK
  <1>b. Len(threads) \in Nat
    BY <1>a, LenProperties DEF TypeOK
  <1>1. ASSUME NEW m \in Methods, NEW v \in Svecs, Call(m, v) PROVE FreshInv'
    <2>1. threads = <<>>
      <3>1. CASE calls' = 1
        BY <3>1, <1>1, FirstCall
      <3>2. CASE calls' # 1
        <4>1. calls' = calls + 1 /\ calls \in Nat /\ spc = "idle"
          BY <1>1, <1>a DEF Call, TypeOK
        <4>2. PriorityOnly
          BY <4>1, <3>2 DEF Fresh
        <4> QED BY <4>1, <4>2 DEF IInv, FreshInv, Fresh
      <3> QED BY <3>1, <3>2
    <2>2. threads' = <<>> /\ Len(threads') = 0 /\ i' = 1
      BY <2>1, <1>1, EmptySeq DEF Call
    <2>3. spc' \in {"spawn", "release", "finish"}
      BY <1>1 DEF Call, LoopHead
    <2> QED BY <2>2, <2>3 DEF FreshInv, Reusable
  <1>2. ASSUME UNCHANGED calls PROVE Fresh /\ FreshInv
    BY <1>2 DEF Fresh, IInv
  <1>3. CASE Spawn
    <2>1. i \in Worker
      BY <1>3, <1>a, SvecType, ConstantsAssumption DEF Spawn, IndexInv, Worker
    <2>2. /\ Len(threads') = Len(threads) + 1
          /\ \A k \in 1 .. Len(threads) : threads'[k] = threads[k]
          /\ threads'[Len(threads) + 1] = i
      BY <1>3, <2>1, <1>a, AppendHandle DEF Spawn
    <2>3. /\ Len(threads) = IF Scheduled THEN i - 1 ELSE 0
          /\ \A k \in 1 .. Len(threads) : threads[k] # NotJoinable
      BY <1>2, <1>3 DEF Spawn, FreshInv
    <2>4. i # NotJoinable
      BY <1>a DEF NotJoinable
    <2>5. ASSUME NEW k \in 1 .. Len(threads') PROVE threads'[k] # NotJoinable
      <3>1. k \in 1 .. Len(threads) \/ k = Len(threads) + 1
        BY <2>2, <1>b
      <3> QED BY <3>1, <2>2, <2>3, <2>4
    <2>6. /\ spc' = "pin" /\ UNCHANGED <<method, i>>
          /\ Len(threads') = IF Scheduled THEN i ELSE 1
      BY <1>3, <2>2, <2>3, <1>a DEF Spawn
    <2> QED BY <2>5, <2>6 DEF FreshInv, Reusable, Scheduled
  <1>4. CASE PinLive \/ PinExited
    <2>1. /\ spc = "pin" /\ AfterPin /\ UNCHANGED <<threads, method, svec, calls>>
      BY <1>4 DEF PinLive, PinExited
    <2>2. /\ Len(threads) = IF Scheduled THEN i ELSE 1
          /\ \A k \in 1 .. Len(threads) : threads[k] # NotJoinable
      BY <2>1, <1>2 DEF FreshInv, Passing
    <2>3. /\ spc' \in {"spawn", "release"}
          /\ spc' = "spawn" => Scheduled /\ i' = i + 1
      BY <2>1 DEF AfterPin, LoopHead, Scheduled
    <2> QED BY <2>1, <2>2, <2>3, <1>a DEF FreshInv, Reusable, Scheduled
  <1>5. CASE PinFails \/ Release \/ NotifyAll \/ NotifyOne \/ Await
    <2>1. /\ spc \in Passing /\ spc # "join" /\ UNCHANGED <<threads, calls>>
          /\ spc' \in {"exit_failure", "notify", "join", "await", "waiting"}
      BY <1>5 DEF PinFails, Release, NotifyAll, NotifyOne, Await, Passing
    <2>2. \A k \in 1 .. Len(threads) : threads[k] # NotJoinable
      BY <2>1, <1>2 DEF FreshInv
    <2> QED BY <2>1, <2>2 DEF FreshInv, Reusable
  <1>6. ASSUME PinJoined PROVE FALSE
    <2>1. spc = "pin" /\ PinnedHandle = NotJoinable /\ UNCHANGED calls
      BY <1>6 DEF PinJoined
    <2>2. /\ Len(threads) = IF Scheduled THEN i ELSE 1
          /\ \A k \in 1 .. Len(threads) : threads[k] # NotJoinable
      BY <2>1, <1>2 DEF FreshInv, Passing
    <2> QED BY <2>1, <2>2, <1>a DEF PinnedHandle
  <1>7. ASSUME JoinJoined PROVE FALSE
    <2>1. /\ spc = "join" /\ j \in 1 .. Len(threads) /\ threads[j] = NotJoinable
          /\ UNCHANGED calls
      BY <1>7, <1>a, <1>b DEF JoinJoined, TypeOK
    <2> QED BY <2>1, <1>2, <1>a DEF FreshInv, Passing
  <1>8. CASE Join
    <2>1. /\ j \in 1 .. Len(threads) /\ j' = j + 1 /\ spc = "join" /\ spc' = "join"
          /\ threads' = [threads EXCEPT ![j] = NotJoinable] /\ UNCHANGED calls
      BY <1>8, <1>a, <1>b DEF Join, TypeOK
    <2>2. /\ Len(threads') = Len(threads)
          /\ \A k \in 1 .. Len(threads) : k # j => threads'[k] = threads[k]
      BY <2>1, <1>a, ExceptSeq DEF TypeOK
    <2>3. ASSUME NEW k \in 1 .. Len(threads) PROVE threads'[k] # NotJoinable \/ k < j + 1
      <3>1. CASE k <= j
        BY <3>1, <1>a
      <3>2. CASE ~ k <= j
        BY <3>2, <2>1, <2>2, <1>2, <1>a, <1>b DEF FreshInv, Passing
      <3> QED BY <3>1, <3>2
    <2> QED BY <2>1, <2>2, <2>3 DEF FreshInv, Reusable
  <1>9. CASE JoinDone
    <2>1. CASE Scheduled
      <3>1. spc' = "finish" /\ ~ PriorityOnly
        BY <1>9, <2>1, <1>a DEF JoinDone, Scheduled, PriorityOnly, TypeOK
      <3> QED BY <3>1 DEF FreshInv, Reusable, Passing
    <2>2. CASE ~ Scheduled
      <3>1. /\ threads' = <<>> /\ Len(threads') = 0 /\ UNCHANGED method
            /\ spc' \in {"spawn", "finish"}
        BY <1>9, <2>2, EmptySeq DEF JoinDone, Cleared, LoopHead, Scheduled
      <3> QED BY <3>1, <2>2 DEF FreshInv, Reusable, Scheduled
    <2> QED BY <2>1, <2>2
  <1>10. CASE Finish
    <2>1. /\ spc = "finish" /\ spc' = "idle" /\ UNCHANGED <<threads, calls>>
      BY <1>10 DEF Finish
    <2> QED BY <2>1, <1>2 DEF FreshInv, Reusable, Passing
  <1>11. ASSUME UNCHANGED <<threads, calls, method, i, j>>,
                spc' \in {spc, "exit_papi"} \/ (spc = "waiting" /\ spc' = "await")
         PROVE  FreshInv'
    <2>1. Fresh /\ FreshInv
      BY <1>2, <1>11
    <2>2. CASE spc' = spc
      BY <1>11, <2>1, <2>2 DEF FreshInv, Reusable, Scheduled
    <2>3. CASE spc' = "exit_papi"
      BY <2>3 DEF FreshInv, Reusable, Passing
    <2>4. CASE spc = "waiting" /\ spc' = "await"
      BY <1>11, <2>1, <2>4 DEF FreshInv, Reusable, Passing
    <2> QED BY <1>11, <2>2, <2>3, <2>4
  <1>12. ASSUME NEW w \in Worker, WorkerStep(w) \/ PapiFails(w) PROVE FreshInv'
    BY <1>11, <1>12 DEF WorkerStep, WorkerControl, Acquire, WarmUp, BeginMeasure, EndMeasure,
                        WakeOne, PapiFails
  <1>13. CASE CountersFail \/ SpuriousWake \/ Halted \/ UNCHANGED vars
    BY <1>11, <1>13 DEF CountersFail, SpuriousWake, Halted, vars
  <1> QED BY <1>1, <1>3, <1>4, <1>5, <1>6, <1>7, <1>8, <1>9, <1>10, <1>12, <1>13
          DEF Next, SchedulerStep

\* Threads that are held back were so before, or the call begins.
LEMMA HeldBefore ==
  ASSUME IInv, [Next]_vars, Held', ~ \E m \in Methods, v \in Svecs : Call(m, v)
  PROVE  /\ Held
         /\ UNCHANGED <<pause, calls, method, svec>>
         /\ (UNCHANGED <<spc, i, threads>>) \/ Spawn \/ PinLive \/ PinExited
  <1> USE DEF callVars, loopVars, threadVars
  <1>a. i \in Nat \ {0}
    BY ConstantsAssumption DEF IInv, TypeOK
  <1>1. CASE Spawn
    BY <1>1 DEF Spawn, Held, Scheduled
  <1>2. CASE PinLive \/ PinExited
    BY <1>2 DEF PinLive, PinExited, AfterPin, Held, Scheduled
  <1>3. ASSUME UNCHANGED <<pause, calls, method, svec, spc, i, threads>>
        PROVE  Held
    BY <1>3 DEF Held, Scheduled
  <1>4. ASSUME PinFails \/ CountersFail \/ PinJoined \/ Release \/ NotifyAll
               \/ NotifyOne \/ Await
        PROVE  FALSE
    BY <1>4 DEF PinFails, CountersFail, PinJoined, Release, NotifyAll, NotifyOne, Await,
                Held
  <1>5. ASSUME Join \/ JoinJoined \/ Finish PROVE FALSE
    BY <1>5 DEF Join, JoinJoined, Finish, Held
  <1>6. ASSUME JoinDone PROVE FALSE
    <2>1. CASE Scheduled
      BY <1>6, <2>1 DEF JoinDone, Held
    <2>2. CASE ~ Scheduled
      <3>1. i' = i + 1 /\ ~ Scheduled'
        BY <1>6, <2>2 DEF JoinDone, Scheduled
      <3> QED BY <3>1, <1>a DEF Held
    <2> QED BY <2>1, <2>2
  <1>7. ASSUME NEW w \in Worker, WorkerStep(w)
        PROVE  UNCHANGED <<pause, calls, method, svec, spc, i, threads>>
    BY <1>7 DEF WorkerStep, WorkerControl, Acquire, WarmUp, BeginMeasure, EndMeasure,
                WakeOne, Held
  <1>8. ASSUME NEW w \in Worker, PapiFails(w) PROVE FALSE
    BY <1>8 DEF PapiFails, Held
  <1>9. CASE SpuriousWake \/ Halted \/ UNCHANGED vars
    BY <1>9, <1>3 DEF SpuriousWake, Halted, vars, Held
  <1> QED BY <1>1, <1>2, <1>3, <1>4, <1>5, <1>6, <1>7, <1>8, <1>9 DEF Next, SchedulerStep

\* Nobody passes the closed gate.
LEMMA HeldStep == IInv /\ [Next]_vars => HeldInv'
  <1> SUFFICES ASSUME IInv, [Next]_vars, Held'
               PROVE  pause' /\ \A w \in Worker : wpc'[w] \in {"unborn", "lock", "waiting"}
    BY DEF HeldInv
  <1> USE DEF callVars, loopVars, threadVars
  <1>1. ASSUME NEW m \in Methods, NEW v \in Svecs, Call(m, v)
        PROVE  pause' /\ \A w \in Worker : wpc'[w] \in {"unborn", "lock", "waiting"}
    <2>1. pause
      BY <1>1, FirstCall DEF Held
    <2> QED BY <1>1, <2>1 DEF Call
  <1>2. ASSUME ~ \E m \in Methods, v \in Svecs : Call(m, v)
        PROVE  pause' /\ \A w \in Worker : wpc'[w] \in {"unborn", "lock", "waiting"}
    <2>1. Held /\ UNCHANGED pause
      BY <1>2, HeldBefore
    <2>2. pause /\ \A w \in Worker : wpc[w] \in {"unborn", "lock", "waiting"}
      BY <2>1 DEF IInv, HeldInv
    <2>3. spc \in {"spawn", "pin", "release"} /\ TypeOK
      BY <2>1 DEF Held, IInv
    <2>4. CASE Spawn \/ SpuriousWake
      BY <2>1, <2>2, <2>3, <2>4 DEF Spawn, SpuriousWake, WaitingWorkers, TypeOK
    <2>5. CASE PinLive \/ PinExited \/ PinFails \/ CountersFail \/ PinJoined \/ Release
      BY <2>1, <2>2, <2>5 DEF PinLive, PinExited, PinFails, CountersFail, PinJoined,
                              Release
    <2>6. ASSUME NotifyAll \/ NotifyOne \/ Await \/ Join \/ JoinJoined \/ JoinDone \/ Finish
          PROVE  FALSE
      BY <2>3, <2>6 DEF NotifyAll, NotifyOne, Await, Join, JoinJoined, JoinDone, Finish
    <2>7. ASSUME NEW w \in Worker, WorkerStep(w) \/ PapiFails(w)
          PROVE  \A u \in Worker : wpc'[u] \in {"unborn", "lock", "waiting"}
      BY <2>2, <2>3, <2>7 DEF WorkerStep, WorkerControl, Acquire, WarmUp, BeginMeasure,
                              EndMeasure, WakeOne, PapiFails, Running, TypeOK
    <2>8. CASE Halted \/ UNCHANGED vars
      BY <2>1, <2>2, <2>8 DEF Halted, vars
    <2> QED BY <1>2, <2>1, <2>2, <2>4, <2>5, <2>6, <2>7, <2>8 DEF Next, SchedulerStep
  <1> QED BY <1>1, <1>2

\* Each handle is of the thread of its pass.
LEMMA OwnStep == IInv /\ [Next]_vars => OwnInv'
  <1> SUFFICES ASSUME IInv, [Next]_vars, Held', spc' # "release"
               PROVE  /\ Len(threads') = IF spc' = "pin" THEN i' ELSE i' - 1
                      /\ \A k \in 1 .. Len(threads') : threads'[k] = k
    BY DEF OwnInv
  <1> USE DEF callVars, loopVars, threadVars
  <1>a. TypeOK /\ IndexInv /\ OwnInv /\ i \in Nat \ {0}
    BY ConstantsAssumption DEF IInv, TypeOK
  <1>b. Len(threads) \in Nat
    BY <1>a, LenProperties DEF TypeOK
  <1>1. ASSUME NEW m \in Methods, NEW v \in Svecs, Call(m, v)
        PROVE  /\ Len(threads') = IF spc' = "pin" THEN i' ELSE i' - 1
               /\ \A k \in 1 .. Len(threads') : threads'[k] = k
    <2>1. Len(threads') = 0 /\ i' = 1 /\ spc' # "pin"
      BY <1>1, FirstCall, EmptySeq DEF Call, LoopHead, Held
    <2> QED BY <2>1
  <1>2. ASSUME ~ \E m \in Methods, v \in Svecs : Call(m, v)
        PROVE  /\ Len(threads') = IF spc' = "pin" THEN i' ELSE i' - 1
               /\ \A k \in 1 .. Len(threads') : threads'[k] = k
    <2>1. Held
      BY <1>2, HeldBefore
    <2>2. CASE UNCHANGED <<spc, i, threads>>
      BY <2>1, <2>2, <1>a DEF OwnInv
    <2>3. CASE Spawn
      <3>1. i \in Worker
        BY <2>3, <1>a, SvecType, ConstantsAssumption DEF Spawn, IndexInv, Worker
      <3>2. /\ Len(threads') = Len(threads) + 1
            /\ \A k \in 1 .. Len(threads) : threads'[k] = threads[k]
            /\ threads'[Len(threads) + 1] = i
        BY <3>1, <2>3, <1>a, AppendHandle DEF Spawn
      <3>3. /\ Len(threads) = i - 1
            /\ \A k \in 1 .. Len(threads) : threads[k] = k
        BY <2>1, <2>3, <1>a DEF Spawn, OwnInv
      <3>4. spc' = "pin" /\ i' = i /\ Len(threads') = i
        BY <2>3, <3>2, <3>3, <1>a DEF Spawn
      <3>5. ASSUME NEW k \in 1 .. i PROVE threads'[k] = k
        <4>1. k \in 1 .. Len(threads) \/ k = Len(threads) + 1
          BY <3>3, <1>a
        <4> QED BY <4>1, <3>2, <3>3, <1>a
      <3> QED BY <3>4, <3>5
    <2>4. CASE PinLive \/ PinExited
      <3>1. spc = "pin" /\ AfterPin /\ UNCHANGED <<threads, method>>
        BY <2>4 DEF PinLive, PinExited
      <3>2. spc' = "spawn" /\ i' = i + 1
        BY <3>1 DEF AfterPin, LoopHead, Held
      <3> QED BY <2>1, <3>1, <3>2, <1>a DEF OwnInv
    <2> QED BY <1>2, <2>2, <2>3, <2>4, HeldBefore
  <1> QED BY <1>1, <1>2

\* A thread that is pinned while it is held back is that of the current pass.
LEMMA PinsOwn ==
  ASSUME IInv, Held, spc = "pin"
  PROVE  PinnedHandle = i /\ i \in Worker /\ wpc[i] \in {"unborn", "lock", "waiting"}
  <1>a. TypeOK /\ IndexInv /\ OwnInv /\ HeldInv /\ i \in Nat \ {0}
    BY ConstantsAssumption DEF IInv, TypeOK
  <1>1. i \in Worker
    BY <1>a, SvecType, ConstantsAssumption DEF IndexInv, Worker
  <1>2. Len(threads) = i /\ threads[i] = i
    BY <1>a DEF OwnInv
  <1>3. PinnedHandle = i
    BY <1>2 DEF PinnedHandle, Held
  <1> QED BY <1>1, <1>3, <1>a DEF HeldInv

\* Any other pin of the first call is in a later pass of the priority method; it
\* does not touch the first thread, which has ended.
LEMMA PinsOther ==
  ASSUME IInv, calls = 1, spc = "pin", ~ Held, 1 \in Worker
  PROVE  ~ Scheduled /\ i # 1 /\ wpc[1] = "exited"
  <1>1. ~ Scheduled /\ i # 1
    BY DEF Held
  <1>2. 1 < i
    BY <1>1, ConstantsAssumption DEF IInv, TypeOK
  <1> QED BY <1>1, <1>2 DEF IInv, OrderInv

\* Pinning puts a thread on its core, and no thread that was there leaves it.
LEMMA PlacedStep == IInv /\ [Next]_vars => PlacedInv'
  <1> SUFFICES ASSUME IInv, [Next]_vars, calls' = 1, spc' \notin Dead, NEW w \in Worker,
                      (Scheduled \/ w = 1)', wpc'[w] # "unborn", ~ (spc' = "pin" /\ w = i')
               PROVE  coreOf'[w] = svec'[w].core_id
    BY DEF PlacedInv
  <1> USE DEF callVars, loopVars, threadVars
  <1>a. TypeOK /\ PlacedInv /\ HeldInv /\ i \in Nat \ {0}
    BY ConstantsAssumption DEF IInv, TypeOK
  <1>1. ASSUME NEW m \in Methods, NEW v \in Svecs, Call(m, v) PROVE FALSE
    BY <1>1 DEF Call
  <1>2. ASSUME UNCHANGED <<calls, method, svec>>, spc \notin Dead, wpc[w] # "unborn",
               ~ (spc = "pin" /\ w = i), coreOf'[w] = coreOf[w]
        PROVE  coreOf'[w] = svec'[w].core_id
    BY <1>2, <1>a DEF PlacedInv, Scheduled
  <1>3. CASE Spawn
    <2>1. w # i
      BY <1>3 DEF Spawn
    <2> QED BY <1>3, <2>1, <1>2, <1>a DEF Spawn, TypeOK, Dead
  <1>4. CASE PinLive \/ PinExited
    <2>1. spc = "pin" /\ UNCHANGED <<calls, method, svec, wpc>>
      BY <1>4 DEF PinLive, PinExited
    <2>2. CASE Held
      <3>1. PinnedHandle = i /\ i \in Worker /\ wpc[i] \in {"unborn", "lock", "waiting"}
        BY <2>1, <2>2, PinsOwn
      <3>2. coreOf' = [coreOf EXCEPT ![i] = svec[i].core_id]
        BY <1>4, <3>1 DEF PinLive, PinExited
      <3>3. CASE w = i
        BY <3>2, <3>3, <2>1, <1>a DEF TypeOK
      <3>4. CASE w # i
        BY <3>2, <3>4, <2>1, <1>2, <1>a DEF TypeOK, Dead
      <3> QED BY <3>3, <3>4
    <2>3. CASE ~ Held
      <3>1. w = 1 /\ i # 1 /\ wpc[1] = "exited"
        BY <2>1, <2>3, PinsOther DEF Scheduled, Held
      <3>2. coreOf'[1] = coreOf[1]
        BY <1>4, <3>1, <1>a DEF PinLive, PinExited, TypeOK
      <3> QED BY <3>1, <3>2, <2>1, <1>2 DEF Dead
    <2> QED BY <2>2, <2>3
  <1>5. ASSUME PinFails \/ CountersFail \/ PinJoined \/ JoinJoined PROVE FALSE
    BY <1>5 DEF PinFails, CountersFail, PinJoined, JoinJoined, Dead
  <1>6. CASE Release \/ Await \/ Join \/ JoinDone \/ Finish
    BY <1>6, <1>2 DEF Release, Await, Join, JoinDone, Finish, Dead
  <1>7. CASE NotifyAll \/ NotifyOne
    BY <1>7, <1>2, <1>a DEF NotifyAll, NotifyOne, WaitingWorkers, TypeOK, Dead
  <1>8. ASSUME NEW u \in Worker, WorkerStep(u)
        PROVE  /\ UNCHANGED <<calls, method, svec, coreOf, i>> /\ spc \notin Dead
               /\ wpc[w] # "unborn"
               /\ spc' = spc \/ spc = "waiting"
    BY <1>8, <1>a
    DEF WorkerStep, WorkerControl, Acquire, WarmUp, BeginMeasure, EndMeasure, WakeOne,
        WaitingWorkers, Alive, TypeOK
  <1>9. ASSUME NEW u \in Worker, PapiFails(u) PROVE FALSE
    BY <1>9 DEF PapiFails, Dead
  <1>10. CASE SpuriousWake
    BY <1>10, <1>2, <1>a DEF SpuriousWake, WaitingWorkers, Alive, TypeOK
  <1>11. CASE Halted \/ UNCHANGED vars
    BY <1>11, <1>2 DEF Halted, vars
  <1> QED BY <1>1, <1>2, <1>3, <1>4, <1>5, <1>6, <1>7, <1>8, <1>9, <1>10, <1>11
          DEF Next, SchedulerStep

\* A benchmark that was held back is measured on its core, and is not moved while
\* it is measured.
LEMMA PinnedStep == IInv /\ [Next]_vars => PinnedBeforeBenchmark'
  <1> SUFFICES ASSUME IInv, [Next]_vars, calls' = 1, NEW w \in 1 .. Len(svec'),
                      (Scheduled \/ w = 1)'
               PROVE  measuredOn'[w] \subseteq {svec'[w].core_id}
    BY DEF PinnedBeforeBenchmark
  <1> USE DEF callVars, loopVars, threadVars
  <1>a. TypeOK /\ PlacedInv /\ HeldInv /\ PinnedBeforeBenchmark /\ i \in Nat \ {0}
    BY ConstantsAssumption DEF IInv, TypeOK
  <1>1. ASSUME NEW m \in Methods, NEW v \in Svecs, Call(m, v)
        PROVE  measuredOn'[w] \subseteq {svec'[w].core_id}
    <2>1. w \in Worker
      BY <1>1, ConstantsAssumption, LenProperties DEF Call, Worker
    <2> QED BY <1>1, <2>1 DEF Call
  <1>2. ASSUME UNCHANGED <<calls, method, svec>>, measuredOn'[w] = measuredOn[w]
        PROVE  measuredOn'[w] \subseteq {svec'[w].core_id}
    BY <1>2, <1>a DEF PinnedBeforeBenchmark, Scheduled
  <1>3. CASE PinLive
    <2>1. spc = "pin" /\ UNCHANGED <<calls, method, svec>>
      BY <1>3 DEF PinLive
    <2>2. CASE Held
      BY <1>2, <1>3, <2>1, <2>2, PinsOwn DEF PinLive
    <2>3. CASE ~ Held
      <3>1. w = 1 /\ w \in Worker
        BY <2>1, <2>3, SvecType, ConstantsAssumption, <1>a DEF Held, Scheduled, Worker
      <3>2. wpc[1] = "exited"
        BY <2>1, <2>3, <3>1, PinsOther
      <3>3. measuredOn'[1] = measuredOn[1]
        BY <1>3, <3>2, <1>a DEF PinLive, TypeOK
      <3> QED BY <3>1, <3>3, <2>1, <1>2
    <2> QED BY <2>2, <2>3
  <1>4. ASSUME NEW u \in Worker, BeginMeasure(u)
        PROVE  measuredOn'[w] \subseteq {svec'[w].core_id}
    <2>1. /\ wpc[u] = "warmup" /\ spc \notin Dead /\ UNCHANGED <<calls, method, svec>>
          /\ measuredOn' = [measuredOn EXCEPT ![u] = {coreOf[u]}]
      BY <1>4 DEF BeginMeasure, Alive
    <2>2. CASE u # w
      BY <2>1, <2>2, <1>2, <1>a DEF TypeOK
    <2>3. CASE u = w
      <3>1. ~ (spc = "pin" /\ w = i)
        BY <2>1, <2>3, PinsOwn DEF Held, Scheduled
      <3>2. coreOf[w] = svec[w].core_id
        BY <2>1, <2>3, <3>1, <1>a DEF PlacedInv, Scheduled
      <3> QED BY <2>1, <2>3, <3>2, <1>a DEF TypeOK
    <2> QED BY <2>2, <2>3
  <1>5. CASE Spawn \/ PinExited \/ PinFails \/ CountersFail \/ PinJoined \/ Release
             \/ NotifyAll \/ NotifyOne
    BY <1>5, <1>2 DEF Spawn, PinExited, PinFails, CountersFail, PinJoined, Release,
                      NotifyAll, NotifyOne
  <1>6. CASE Await \/ Join \/ JoinJoined \/ JoinDone \/ Finish
    BY <1>6, <1>2 DEF Await, Join, JoinJoined, JoinDone, Finish
  <1>7. ASSUME NEW u \in Worker,
               Acquire(u) \/ WarmUp(u) \/ EndMeasure(u) \/ WakeOne(u) \/ PapiFails(u)
        PROVE  measuredOn'[w] \subseteq {svec'[w].core_id}
    BY <1>7, <1>2 DEF Acquire, WarmUp, EndMeasure, WakeOne, PapiFails
  <1>8. CASE SpuriousWake \/ Halted \/ UNCHANGED vars
    BY <1>8, <1>2 DEF SpuriousWake, Halted, vars
  <1> QED BY <1>1, <1>3, <1>4, <1>5, <1>6, <1>7, <1>8
          DEF Next, SchedulerStep, WorkerStep, WorkerControl

=============================================================================
