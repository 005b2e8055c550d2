--------------------------- MODULE SerialSchedule ---------------------------
(***************************************************************************)
(* What CounterBenchmark promises its caller.  A call hands over `size'     *)
(* benchmarks; they are executed one at a time, each exactly once, in the  *)
(* order of the vector if the call asked for that; the call returns when   *)
(* all of them are done.  Something may go wrong while the call is busy    *)
(* that ends the process.  Threads, mutex and condition variable are gone. *)
(***************************************************************************)
EXTENDS Naturals

CONSTANT MaxSched  \* the largest number of benchmarks of a call

VARIABLES
  size,     \* number of benchmarks of the current call
  ordered,  \* whether they are to run in the order of their indices
  phase,    \* "idle", "busy", "dead"
  state     \* of each benchmark: "todo", "running", "done"

vars == <<size, ordered, phase, state>>

AllToDo == [w \in 1 .. MaxSched |-> "todo"]

Init ==
  /\ size = 0 /\ ordered \in BOOLEAN
  /\ phase = "idle"
  /\ state = AllToDo

\* The caller hands over benchmarks.
Begin ==
  /\ phase = "idle"
  /\ phase' = "busy"
  /\ size' \in 0 .. MaxSched /\ ordered' \in BOOLEAN
  /\ state' = AllToDo

\* A benchmark starts: nothing else runs, and it is its turn.
Start(w) ==
  /\ phase = "busy" /\ w \in 1 .. size
  /\ state[w] = "todo"
  /\ \A u \in 1 .. MaxSched : state[u] # "running"
  /\ ordered => \A u \in 1 .. w - 1 : state[u] = "done"
  /\ state' = [state EXCEPT ![w] = "running"]
  /\ UNCHANGED <<size, ordered, phase>>

Complete(w) ==
  /\ phase = "busy" /\ state[w] = "running"
  /\ state' = [state EXCEPT ![w] = "done"]
  /\ UNCHANGED <<size, ordered, phase>>

Return ==
  /\ phase = "busy"
  /\ \A w \in 1 .. size : state[w] = "done"
  /\ phase' = "idle"
  /\ UNCHANGED <<size, ordered, state>>

Die ==
  /\ phase = "busy" /\ phase' = "dead"
  /\ UNCHANGED <<size, ordered, state>>

Progress == (\E w \in 1 .. MaxSched : Start(w) \/ Complete(w)) \/ Return \/ Die

Next == Begin \/ Progress

Safe == Init /\ [][Next]_vars

\* A call that has begun ends.
Spec == Safe /\ WF_vars(Progress)

=============================================================================
