-------------------------- MODULE CounterBenchmark --------------------------
(***************************************************************************)
(* The thread scheduler of the measurement library, class CounterBenchmark *)
(* of src/library/include/thread_utils.h, and the threads it creates.      *)
(*                                                                         *)
(* The caller owns one CounterBenchmark object and calls its two methods,  *)
(* counters_with_schedule and counters_with_priority_schedule, one call    *)
(* after the other.  A call takes a vector of schedules (a core and a      *)
(* benchmark each), creates one thread per schedule, pins it, lets it run  *)
(* its benchmark and returns one counter per schedule.  Scheduler and      *)
(* threads synchronise through one mutex, one condition variable and the   *)
(* atomics pause and ready.                                                *)
(*                                                                         *)
(* A lock_guard block of the scheduler is one step: it only needs the      *)
(* mutex to be free.  A thread holds the mutex over its whole benchmark,   *)
(* so for threads the owner is a variable.  Waiting on the condition       *)
(* variable is the control state "waiting"; a notified or spuriously woken *)
(* process goes back to where it takes the mutex and tests its predicate.  *)
(*                                                                         *)
(* A definition whose comment begins with "Mistake" stands for a plausible *)
(* error in the definition that follows it.  No specification uses it; the *)
(* properties are tried against it.                                        *)
(***************************************************************************)
EXTENDS Integers, Sequences

CONSTANTS
  Core,        \* cores a thread can be pinned to
  MasterCore,  \* the core the constructor pins the calling thread to
  Benchmark,   \* the benchmark functions a schedule can name
  MaxSched,    \* the longest vector of schedules a call is given
  Svecs,       \* the vectors of schedules the caller may pass
  Methods,     \* the methods the caller uses on this object
  Warmup,      \* the warmup argument of a call
  MaxCalls     \* bound: calls on one object

\* One element of svec: the members of struct Schedule the scheduler uses.
Schedule == [core_id : Core, benchmark : Benchmark]

CounterMethods == {"counters_with_schedule", "counters_with_priority_schedule"}

ASSUME ConstantsAssumption ==
  /\ MasterCore \in Core
  /\ MaxSched \in Nat
  /\ Svecs \subseteq Seq(Schedule)
  /\ \A v \in Svecs : Len(v) <= MaxSched
  /\ Methods \subseteq CounterMethods
  /\ Warmup \in Nat
  /\ MaxCalls \in Nat

VARIABLES
  pause, ready,  \* the two atomics
  threads,       \* the member vector of std::thread, as thread handles
  mtx,           \* the thread that owns the mutex, or Free
  masterCore,    \* the core the calling thread is pinned to
  calls,         \* number of calls made so far
  method, svec,  \* the method and argument of the current call
  i, j,          \* its schedule index and its join index
  spc,           \* control state of the calling thread
  wpc,           \* control state of the thread of each schedule
  warm,          \* warm-up invocations each thread has made
  coreOf,        \* the core each thread is pinned to
  measuredOn     \* history: the cores each measured benchmark ran on

callVars == <<calls, method, svec>>
loopVars == <<i, j>>
threadVars == <<warm, coreOf, measuredOn>>
vars == <<pause, ready, threads, mtx, masterCore, callVars, i, j,
          spc, wpc, warm, coreOf, measuredOn>>

Worker      == 1 .. MaxSched  \* the thread of schedule w is worker w
Free        == 0              \* nobody owns the mutex
NotJoinable == 0              \* handle of a joined std::thread

\* Control states in which the process is gone.
Dead == {"exit_failure", "exit_papi", "pin_joined", "join_joined"}

Scheduled == method = "counters_with_schedule"

\* A worker between entering and leaving the critical section.
Running(w) == wpc[w] \in {"warmup", "measuring"}

\* Mistake: the mutex is not taken.
Unprotected == TRUE

\* The mutex can be locked.
MutexFree == mtx = Free

\* A worker that has not been created, or whose thread has ended.
Quiet(w) == wpc[w] \in {"unborn", "exited"}

-----------------------------------------------------------------------------

\* The constructor.
Init ==
  /\ pause = TRUE /\ ready = FALSE
  /\ threads = <<>>
  /\ mtx = Free
  /\ masterCore = MasterCore
  /\ calls = 0 /\ method \in Methods /\ svec = <<>>
  /\ i = 1 /\ j = 1
  /\ spc = "idle"
  /\ wpc = [w \in Worker |-> "unborn"]
  /\ warm = [w \in Worker |-> 0]
  /\ coreOf = [w \in Worker |-> MasterCore]
  /\ measuredOn = [w \in Worker |-> {}]

\* Mistake: the loop takes one element too many.
LoopHeadPastEnd(m, v, k) ==
  IF k <= Len(v) + 1 THEN "spawn"
  ELSE IF m = "counters_with_schedule" THEN "release" ELSE "finish"

\* Where the loop over svec goes with index k: its body, or what follows it.
LoopHead(m, v, k) ==
  IF k <= Len(v) THEN "spawn"
  ELSE IF m = "counters_with_schedule" THEN "release" ELSE "finish"

\* A call begins: the vector of counters is new, so is every thread.
Call(m, v) ==
  /\ spc = "idle" /\ calls < MaxCalls
  /\ calls' = calls + 1 /\ method' = m /\ svec' = v
  /\ i' = 1
  /\ spc' = LoopHead(m, v, 1)
  /\ wpc' = [w \in Worker |-> "unborn"]
  /\ warm' = [w \in Worker |-> 0]
  /\ coreOf' = [w \in Worker |-> MasterCore]
  /\ measuredOn' = [w \in Worker |-> {}]
  /\ UNCHANGED <<pause, ready, threads, mtx, masterCore, j>>

\* counters{ svec.size() }: PAPI fails in the constructor of a counter, before there
\* is a thread: exit_with_err.
CountersFail ==
  /\ spc = "spawn" /\ i = 1
  /\ spc' = "exit_papi"
  /\ UNCHANGED <<pause, ready, threads, mtx, masterCore, callVars, loopVars, wpc, threadVars>>

\* threads.push_back(std::thread(...)): a thread inherits its creator's core.
Spawn ==
  /\ spc = "spawn"
  /\ threads' = Append(threads, i)
  /\ wpc' = [wpc EXCEPT ![i] = "lock"]
  /\ coreOf' = [coreOf EXCEPT ![i] = masterCore]
  /\ spc' = "pin"
  /\ UNCHANGED <<pause, ready, mtx, masterCore, callVars, loopVars, warm, measuredOn>>

\* Mistake: both methods pin the first thread.
PinnedFirst == threads[1]

\* The handle pin_to_core is called on: threads[i], or always threads[0].
PinnedHandle == threads[IF Scheduled THEN i ELSE 1]

\* After pinning, counters_with_schedule loops and the other method goes on.
AfterPin ==
  IF Scheduled
  THEN /\ i' = i + 1
       /\ spc' = LoopHead(method, svec, i + 1)
  ELSE /\ spc' = "release"
       /\ UNCHANGED i

\* The thread is still there: it moves, in the middle of a benchmark or not.
PinLive ==
  /\ spc = "pin"
  /\ PinnedHandle # NotJoinable
  /\ wpc[PinnedHandle] # "exited"
  /\ coreOf' = [coreOf EXCEPT ![PinnedHandle] = svec[i].core_id]
  /\ measuredOn' = IF wpc[PinnedHandle] = "measuring"
                   THEN [measuredOn EXCEPT ![PinnedHandle] = @ \cup {svec[i].core_id}]
                   ELSE measuredOn
  /\ AfterPin
  /\ UNCHANGED <<pause, ready, threads, mtx, masterCore, callVars, j, wpc, warm>>

\* The thread has ended and is not joined: its kernel thread id is 0 by then,
\* and an affinity call with thread id 0 is applied to the caller.
PinExited ==
  /\ spc = "pin"
  /\ PinnedHandle # NotJoinable
  /\ wpc[PinnedHandle] = "exited"
  /\ masterCore' = svec[i].core_id
  /\ AfterPin
  /\ UNCHANGED <<pause, ready, threads, mtx, callVars, j, wpc, threadVars>>

\* pthread_setaffinity_np reports an error: exit(EXIT_FAILURE).
PinFails ==
  /\ spc = "pin"
  /\ PinnedHandle # NotJoinable
  /\ spc' = "exit_failure"
  /\ UNCHANGED <<pause, ready, threads, mtx, masterCore, callVars, loopVars,
                 wpc, threadVars>>

\* The handle is of a joined thread: there is no thread to pass on (undefined).
PinJoined ==
  /\ spc = "pin"
  /\ PinnedHandle = NotJoinable
  /\ spc' = "pin_joined"
  /\ UNCHANGED <<pause, ready, threads, mtx, masterCore, callVars, loopVars,
                 wpc, threadVars>>

\* The lock_guard block that opens the gate.
Release ==
  /\ spc = "release" /\ MutexFree
  /\ pause' = FALSE
  /\ spc' = "notify"
  /\ UNCHANGED <<ready, threads, mtx, masterCore, callVars, loopVars, wpc, threadVars>>

WaitingWorkers == {w \in Worker : wpc[w] = "waiting"}

\* cv.notify_all() of counters_with_schedule.
NotifyAll ==
  /\ spc = "notify" /\ Scheduled
  /\ wpc' = [w \in Worker |-> IF w \in WaitingWorkers THEN "lock" ELSE wpc[w]]
  /\ spc' = "join" /\ j' = 1
  /\ UNCHANGED <<pause, ready, threads, mtx, masterCore, callVars, i, threadVars>>

\* cv.notify_one() of counters_with_priority_schedule.
NotifyOne ==
  /\ spc = "notify" /\ ~ Scheduled
  /\ \/ \E w \in WaitingWorkers : wpc' = [wpc EXCEPT ![w] = "lock"]
     \/ WaitingWorkers = {} /\ UNCHANGED wpc
  /\ spc' = "await"
  /\ UNCHANGED <<pause, ready, threads, mtx, masterCore, callVars, loopVars, threadVars>>

\* unique_lock and cv.wait(lck, ready): test the predicate, go on or wait.
Await ==
  /\ spc = "await" /\ MutexFree
  /\ IF ready THEN spc' = "join" /\ j' = 1
              ELSE spc' = "waiting" /\ UNCHANGED j
  /\ UNCHANGED <<pause, ready, threads, mtx, masterCore, callVars, i, wpc, threadVars>>

\* Mistake: the benchmark being over is enough.
EndedOrDone(w) == wpc[w] \in {"notify", "exited"}

\* What th.join() waits for.
Ended(w) == wpc[w] = "exited"

\* th.join() on the j-th handle, which waits for the thread to end.
Join ==
  /\ spc = "join" /\ j <= Len(threads)
  /\ threads[j] # NotJoinable
  /\ Ended(threads[j])
  /\ threads' = [threads EXCEPT ![j] = NotJoinable]
  /\ j' = j + 1
  /\ UNCHANGED <<pause, ready, mtx, masterCore, callVars, i, spc, wpc, threadVars>>

\* th.join() on a joined handle throws std::system_error, caught nowhere.
JoinJoined ==
  /\ spc = "join" /\ j <= Len(threads)
  /\ threads[j] = NotJoinable
  /\ spc' = "join_joined"
  /\ UNCHANGED <<pause, ready, threads, mtx, masterCore, callVars, loopVars,
                 wpc, threadVars>>

\* Mistake: the last thread is not joined.
JoinLoopShort == j >= Len(threads)

JoinLoopOver == j > Len(threads)

\* Mistake: the threads stay in the object.
NotCleared == threads

\* threads.clear()
Cleared == <<>>

\* The join loop is over; only counters_with_priority_schedule clears.
JoinDone ==
  /\ spc = "join" /\ JoinLoopOver
  /\ IF Scheduled
     THEN /\ spc' = "finish"
          /\ UNCHANGED <<threads, i>>
     ELSE /\ threads' = Cleared
          /\ i' = i + 1
          /\ spc' = LoopHead(method, svec, i + 1)
  /\ UNCHANGED <<pause, ready, mtx, masterCore, callVars, j, wpc, threadVars>>

\* Mistake: ready is not reset.
StillReady == ready

\* ready = false
NotReady == FALSE

\* The last two assignments of both methods, and the return.
Finish ==
  /\ spc = "finish"
  /\ ready' = NotReady /\ pause' = FALSE
  /\ spc' = "idle"
  /\ UNCHANGED <<threads, mtx, masterCore, callVars, loopVars, wpc, threadVars>>

-----------------------------------------------------------------------------

Alive == spc \notin Dead

\* counter_thread_fn takes the mutex and tests not_paused: it waits on the
\* condition variable, or goes on with the mutex held.
Acquire(w) ==
  /\ wpc[w] = "lock" /\ Alive /\ MutexFree
  /\ IF pause
     THEN wpc' = [wpc EXCEPT ![w] = "waiting"] /\ UNCHANGED mtx
     ELSE wpc' = [wpc EXCEPT ![w] = "warmup"] /\ mtx' = w
  /\ UNCHANGED <<pause, ready, threads, masterCore, callVars, loopVars, spc, threadVars>>

\* One warm-up invocation of the benchmark.
WarmUp(w) ==
  /\ wpc[w] = "warmup" /\ Alive /\ warm[w] < Warmup
  /\ warm' = [warm EXCEPT ![w] = @ + 1]
  /\ UNCHANGED <<pause, ready, threads, mtx, masterCore, callVars, loopVars,
                   spc, wpc, coreOf, measuredOn>>

\* counter.reset(), and the measured invocation starts.
BeginMeasure(w) ==
  /\ wpc[w] = "warmup" /\ Alive /\ warm[w] = Warmup
  /\ wpc' = [wpc EXCEPT ![w] = "measuring"]
  /\ measuredOn' = [measuredOn EXCEPT ![w] = {coreOf[w]}]
  /\ UNCHANGED <<pause, ready, threads, mtx, masterCore, callVars, loopVars,
                   spc, warm, coreOf>>

\* The measured invocation ends: counter.end(), ready = true, unlock.
EndMeasure(w) ==
  /\ wpc[w] = "measuring" /\ Alive
  /\ wpc' = [wpc EXCEPT ![w] = "notify"]
  /\ ready' = TRUE
  /\ mtx' = Free
  /\ UNCHANGED <<pause, threads, masterCore, callVars, loopVars, spc, threadVars>>

\* Mistake: the thread ends without a notification.
EndSilently(w) ==
  /\ wpc[w] = "notify" /\ Alive
  /\ wpc' = [wpc EXCEPT ![w] = "exited"]
  /\ UNCHANGED <<pause, ready, threads, mtx, masterCore, callVars, loopVars,
                   spc, threadVars>>

\* cv.notify_one() wakes the scheduler or a waiting worker; the thread ends.
WakeOne(w) ==
  /\ wpc[w] = "notify" /\ Alive
  /\ \/ /\ spc = "waiting"
        /\ spc' = "await"
        /\ wpc' = [wpc EXCEPT ![w] = "exited"]
     \/ \E u \in WaitingWorkers :
          /\ wpc' = [wpc EXCEPT ![w] = "exited", ![u] = "lock"]
          /\ UNCHANGED spc
     \/ /\ spc # "waiting" /\ WaitingWorkers = {}
        /\ wpc' = [wpc EXCEPT ![w] = "exited"]
        /\ UNCHANGED spc
  /\ UNCHANGED <<pause, ready, threads, mtx, masterCore, callVars, loopVars, threadVars>>

\* A PAPI call made by the thread fails: exit_with_err ends the process.
PapiFails(w) ==
  /\ Running(w) /\ Alive
  /\ spc' = "exit_papi"
  /\ UNCHANGED <<pause, ready, threads, mtx, masterCore, callVars, loopVars,
                 wpc, threadVars>>

\* Condition variables may wake without a notification.
SpuriousWake ==
  /\ Alive
  /\ \/ /\ spc = "waiting" /\ spc' = "await"
        /\ UNCHANGED wpc
     \/ /\ \E w \in WaitingWorkers : wpc' = [wpc EXCEPT ![w] = "lock"]
        /\ UNCHANGED spc
  /\ UNCHANGED <<pause, ready, threads, mtx, masterCore, callVars, loopVars, threadVars>>

-----------------------------------------------------------------------------

\* The steps of a call that has begun.
SchedulerStep ==
  \/ CountersFail \/ Spawn
  \/ PinLive \/ PinExited \/ PinFails \/ PinJoined
  \/ Release
  \/ NotifyAll \/ NotifyOne
  \/ Await
  \/ Join \/ JoinJoined \/ JoinDone
  \/ Finish

WorkerControl(w) == Acquire(w) \/ WarmUp(w) \/ BeginMeasure(w) \/ WakeOne(w)

WorkerStep(w) == WorkerControl(w) \/ EndMeasure(w)

\* The process has ended, or the caller makes no further call.
Halted ==
  /\ spc \in Dead \/ (spc = "idle" /\ calls = MaxCalls)
  /\ UNCHANGED vars

Next ==
  \/ \E m \in Methods, v \in Svecs : Call(m, v)
  \/ SchedulerStep
  \/ \E w \in Worker : WorkerStep(w) \/ PapiFails(w)
  \/ SpuriousWake
  \/ Halted

\* The operating system runs every thread that can run; that a call is made,
\* that PAPI fails and that a wait ends spuriously is not promised.
Fairness ==
  /\ WF_vars(SchedulerStep)
  /\ \A w \in Worker : WF_vars(WorkerStep(w))

Spec == Init /\ [][Next]_vars /\ Fairness

-----------------------------------------------------------------------------

\* Every variable keeps the type its declaration in the code gives it.
TypeOK ==
  /\ pause \in BOOLEAN /\ ready \in BOOLEAN
  /\ threads \in Seq(Worker \cup {NotJoinable})
  /\ mtx \in Worker \cup {Free}
  /\ masterCore \in Core
  /\ calls \in Nat /\ method \in Methods /\ svec \in Svecs \cup {<<>>}
  /\ i \in 1 .. MaxSched + 1 /\ j \in Nat \ {0}
  /\ spc \in {"idle", "spawn", "pin", "release", "notify", "await", "waiting",
              "join", "finish"} \cup Dead
  /\ wpc \in [Worker -> {"unborn", "lock", "waiting", "warmup", "measuring",
                         "notify", "exited"}]
  /\ warm \in [Worker -> 0 .. Warmup]
  /\ coreOf \in [Worker -> Core]
  /\ measuredOn \in [Worker -> SUBSET Core]

\* The benchmarks of a call run one at a time, warm-up included, whatever the
\* order in which threads are created, woken and scheduled: no measurement is
\* disturbed by another one (counter_thread_fn holds the mutex throughout).
OneBenchmarkAtATime == \A u, w \in Worker : Running(u) /\ Running(w) => u = w

\* counters_with_priority_schedule runs the schedules in the order of the
\* vector: a thread exists only when all earlier threads have ended.
PriorityOrder ==
  ~ Scheduled =>
    \A w \in Worker : wpc[w] # "unborn" => \A u \in 1 .. w - 1 : wpc[u] = "exited"

\* When a method returns its counters, no thread is left that still refers to
\* them (the lambdas capture them by reference), and every schedule has been
\* measured: no counter is returned empty.
ReturnIsSafe ==
  /\ spc \in {"finish", "idle"} => \A w \in Worker : Quiet(w)
  /\ spc = "finish" => \A w \in 1 .. Len(svec) : measuredOn[w] # {}

\* In the first call on an object the gate is still closed while threads are
\* placed: every benchmark of counters_with_schedule, and the first one of
\* counters_with_priority_schedule, is measured on its schedule's core only.
PinnedBeforeBenchmark ==
  calls = 1 =>
    \A w \in 1 .. Len(svec) :
      Scheduled \/ w = 1 => measuredOn[w] \subseteq {svec[w].core_id}

\* Clearing the vector of threads never destroys one that can still be joined,
\* which would terminate the program (~thread of a joinable std::thread).
ClearedJoined ==
  [][Len(threads') < Len(threads) =>
       \A k \in 1 .. Len(threads) : threads[k] = NotJoinable]_vars

\* counters_with_schedule leaves its joined threads in the object, so a later
\* non-empty call of either method cannot return: only a call that started from
\* an empty vector of threads does.
OnlyCleanCallsFinish ==
  spc = "finish" /\ svec # <<>> => Len(threads) = IF Scheduled THEN Len(svec) ELSE 0

\* A joined thread is never pinned or joined: so for an object that is used for
\* one call, or through counters_with_priority_schedule only.
Reusable == spc \notin {"pin_joined", "join_joined"}

\* The scheduler starts to join the first thread of a call only after that
\* thread's benchmark has ended, in every call on the object: ready has been
\* reset by the call before.
ReadyMeansMeasured ==
  ~ Scheduled /\ i = 1 /\ spc = "join" => wpc[1] \in {"notify", "exited"}

\* A call that has begun returns, or ends the process: no wake-up is lost
\* between the gate, the benchmark's end and the joins.
EveryCallEnds == spc # "idle" ~> spc \in {"idle"} \cup Dead

-----------------------------------------------------------------------------

\* What a caller sees of the threads, and of the call.
CallState(w) ==
  CASE wpc[w] \in {"unborn", "lock", "waiting"} -> "todo"
    [] Running(w) -> "running"
    [] wpc[w] \in {"notify", "exited"} -> "done"

CallPhase == IF spc \in Dead THEN "dead" ELSE IF spc = "idle" THEN "idle" ELSE "busy"

SS == INSTANCE SerialSchedule WITH
        size    <- Len(svec),
        ordered <- ~ Scheduled,
        phase   <- CallPhase,
        state   <- [w \in Worker |-> CallState(w)]

\* The class implements a serial schedule: the benchmarks of a call are run one
\* after the other, each once, in order for counters_with_priority_schedule,
\* the call returns when all are done, and it does not block for ever.
RunsSerially == SS!Spec

-----------------------------------------------------------------------------
(***************************************************************************)
(* Why it works: the inductive invariant behind the safety properties.     *)
(***************************************************************************)

\* The parts of a pass of counters_with_priority_schedule after its spawn.
Passing == {"pin", "release", "notify", "await", "waiting", "join"}

\* The owner of the mutex is the worker in the critical section.
MutexInv == \A w \in Worker : Running(w) <=> mtx = w

\* Where the loop over svec is.
IndexInv ==
  /\ spc \in {"spawn", "pin"} => i <= Len(svec)
  /\ ~ Scheduled /\ spc \in Passing => i <= Len(svec)
  /\ Scheduled /\ spc \in {"release", "notify", "join"} => i = Len(svec) + 1
  /\ spc = "finish" => i = Len(svec) + 1
  /\ spc \in {"await", "waiting"} => ~ Scheduled

\* Workers are created in the order of the vector, as far as the loop has come.
BornInv ==
  /\ \A w \in Worker : wpc[w] # "unborn" => w <= Len(svec) /\ w <= i
  /\ \A w \in Worker : w < i => wpc[w] # "unborn"
  /\ spc = "spawn" => wpc[i] = "unborn"
  /\ spc = "pin" \/ (~ Scheduled /\ spc \in Passing) => wpc[i] # "unborn"

\* Every live thread has a handle that has not been joined yet.
HandleInv ==
  /\ spc \in Passing \cup {"spawn"} =>
       \A w \in Worker : ~ Quiet(w) =>
         \E k \in 1 .. Len(threads) : threads[k] = w /\ (spc = "join" => k >= j)
  /\ spc \in {"idle", "finish"} => \A w \in Worker : Quiet(w)

\* counters_with_priority_schedule begins a pass when all passes before ended.
OrderInv == ~ Scheduled => \A w \in Worker : w < i => wpc[w] = "exited"

\* A worker that has begun its measurement has run somewhere.
MeasuredInv ==
  \A w \in Worker : wpc[w] \in {"measuring", "notify", "exited"} => measuredOn[w] # {}

\* Every handle is of a joined thread.
AllJoined == \A k \in 1 .. Len(threads) : threads[k] = NotJoinable

\* The join loop has joined what it has come past.
JoinedInv ==
  spc = "join" => \A k \in 1 .. Len(threads) : k < j => threads[k] = NotJoinable

\* Between two calls ready is off; it is on only if some benchmark has ended.
ReadyInv ==
  /\ spc = "idle" => ~ ready
  /\ ready => \E w \in Worker : wpc[w] \in {"notify", "exited"}
  /\ ~ Scheduled /\ spc = "join" => ready

\* A call that started with old handles goes no further than to pin the first
\* of them; in any other the handles are those of its own threads.
CleanInv ==
  /\ spc \in {"idle", "finish"} \/ (spc = "spawn" /\ i = 1) => AllJoined
  /\ spc = "spawn" /\ i # 1 => Len(threads) = IF Scheduled THEN i - 1 ELSE 0
  /\ spc = "pin" => \/ Len(threads) = IF Scheduled THEN i ELSE 1
                    \/ PinnedHandle = NotJoinable
  /\ spc \in Passing \ {"pin"} /\ svec # <<>> =>
       Len(threads) = IF Scheduled THEN Len(svec) ELSE 1
  /\ OnlyCleanCallsFinish

\* In the first call: the passes whose threads are still held back.
Held == calls = 1 /\ (Scheduled \/ i = 1) /\ spc \in {"spawn", "pin", "release"}

\* Before the first call the object is as the constructor left it.
NewInv == calls = 0 => spc = "idle" /\ pause /\ threads = <<>>

\* While threads are held back the gate is closed and nobody has come through.
HeldInv == Held => pause /\ \A w \in Worker : wpc[w] \in {"unborn", "lock", "waiting"}

\* Each handle of the first call is of the thread that was created with it.
OwnInv ==
  Held /\ spc # "release" =>
    /\ Len(threads) = IF spc = "pin" THEN i ELSE i - 1
    /\ \A k \in 1 .. Len(threads) : threads[k] = k

\* A thread that was held back is on its core from the end of its pass on, and is
\* not moved any more.
PlacedInv ==
  calls = 1 /\ spc \notin Dead =>
    \A w \in Worker :
      (Scheduled \/ w = 1) /\ wpc[w] # "unborn" /\ ~ (spc = "pin" /\ w = i) =>
        coreOf[w] = svec[w].core_id

\* The object cannot hold threads of an earlier call: there was none, or all
\* calls are of the method that clears them.
PriorityOnly == Methods = {"counters_with_priority_schedule"}
Fresh == calls <= 1 \/ PriorityOnly

\* On such an object the handles are those of the current pass, joinable as far as
\* the join loop has not come.
FreshInv ==
  Fresh =>
    /\ Reusable
    /\ spc \in {"idle", "finish"} /\ PriorityOnly => threads = <<>>
    /\ spc = "spawn" => Len(threads) = IF Scheduled THEN i - 1 ELSE 0
    /\ spc = "pin" => Len(threads) = IF Scheduled THEN i ELSE 1
    /\ spc \in Passing \cup {"spawn"} =>
         \A k \in 1 .. Len(threads) : threads[k] # NotJoinable \/ (spc = "join" /\ k < j)

IInv ==
  /\ TypeOK /\ MutexInv /\ IndexInv /\ BornInv /\ HandleInv /\ OrderInv /\ MeasuredInv
  /\ JoinedInv /\ ReadyInv /\ CleanInv /\ FreshInv
  /\ NewInv /\ HeldInv /\ OwnInv /\ PlacedInv /\ PinnedBeforeBenchmark

=============================================================================
