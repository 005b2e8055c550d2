--------------------------- MODULE PAPILLCounter ---------------------------
(***************************************************************************)
(* One counter, class PAPILLCounter of src/library/lib/counter.cpp, from   *)
(* the constructor to the last print.  In the benchmarks the thread of a   *)
(* schedule adds the events, invokes the benchmark for warm-up, resets the *)
(* counter, invokes it once more and ends; the caller prints.              *)
(* icache_linear.cpp has no threads: it resets the counter in front of     *)
(* every invocation and prints after each.                                 *)
(*                                                                         *)
(* An invocation takes some cycles, and every event is taken to occur as   *)
(* often, so that one number says which invocation a result comes from.    *)
(* Events are counted only: `cset' is the size of the vector of that name. *)
(***************************************************************************)
EXTENDS Integers, Sequences, SequencesExt

CONSTANTS
  Programs,    \* the ways in which programs use a counter
  Costs,       \* the cycles an invocation may take
  HwCounters   \* what PAPI_num_counters may return

\* A program names some events, has a number of invocations for warm-up, and
\* prints the statistics a number of times in the end, or after each invocation.
\* Its benchmark pushes the cycles to vec_cycles_measured, assigns them to
\* cycles_measured, or takes none.
Program == [events : Nat, warmup : Nat, style : {"push", "assign", "none"},
            prints : Nat, inline : BOOLEAN]

ASSUME CounterAssumption ==
  /\ Programs \subseteq Program
  /\ Costs \subseteq Nat \ {0}
  /\ HwCounters \subseteq Nat

VARIABLES
  prog,             \* the program
  max_hw_cntrs,     \* hardware counters of the processor
  cset, measured,   \* number of events, and the values read for them
  vec_cycles_measured, cycles_measured,
  event_set,        \* state of PAPI's event set
  invocations,      \* invocations of the benchmark that have ended
  cost,             \* history: the cycles of the last one
  printed,          \* history: the blocks that were printed
  prints,           \* calls of stats() or print_stats() in the end
  pc                \* control state

setVars == <<prog, max_hw_cntrs, cset>>
cycleVars == <<vec_cycles_measured, cycles_measured>>
invocationVars == <<invocations, cost>>
printVars == <<printed, prints>>
vars == <<setVars, measured, cycleVars, event_set, invocationVars, printVars, pc>>

Init ==
  /\ prog \in Programs
  /\ max_hw_cntrs = 0 /\ cset = 0 /\ measured = <<>>
  /\ vec_cycles_measured = <<>> /\ cycles_measured = 0
  /\ event_set = "none"
  /\ invocations = 0 /\ cost = 0
  /\ printed = <<>> /\ prints = 0
  /\ pc = "construct"

\* The constructor's init(): a machine without counters ends the program.
Construct(n) ==
  /\ pc = "construct"
  /\ max_hw_cntrs' = n
  /\ pc' = IF n = 0 THEN "exit" ELSE "new"
  /\ UNCHANGED <<prog, cset, measured, cycleVars, event_set, invocationVars, printVars>>

\* What comes after n invocations: in front of the last one, which is to be
\* measured, a reset; and after it the end.
After(n) ==
  CASE n > prog.warmup                           -> "end"
    [] n = prog.warmup                           -> "reset"
    [] n < prog.warmup /\ prog.inline            -> "reset"
    [] n < prog.warmup /\ ~prog.inline           -> "invoke"

\* add(events): a new event set.
Add ==
  /\ pc = "new" /\ prog.events <= max_hw_cntrs
  /\ cset' = cset + prog.events
  /\ event_set' = "stopped"
  /\ pc' = After(0)
  /\ UNCHANGED <<prog, max_hw_cntrs, measured, cycleVars, invocationVars, printVars>>

\* More events than counters: exit_with_err.
AddTooMany ==
  /\ pc = "new" /\ prog.events > max_hw_cntrs
  /\ pc' = "exit"
  /\ UNCHANGED <<setVars, measured, cycleVars, event_set, invocationVars, printVars>>

\* The benchmark calls start().
Start ==
  /\ pc = "invoke"
  /\ cset > 0 => event_set = "stopped"
  /\ event_set' = IF cset > 0 THEN "running" ELSE event_set
  /\ pc' = "running"
  /\ UNCHANGED <<setVars, measured, cycleVars, invocationVars, printVars>>

\* Mistake: read() appends the values, as PMCCounter::read does.
AppendedValues(c) == measured \o [e \in 1 .. cset |-> c]

\* read(): measured is resized to the events and filled by PAPI_stop.
ReadValues(c) == IF cset > 0 THEN [e \in 1 .. cset |-> c] ELSE measured

\* The benchmark calls read() and notes the cycles.
Stop(c) ==
  /\ pc = "running"
  /\ cset > 0 => event_set = "running"
  /\ measured' = ReadValues(c)
  /\ event_set' = IF cset > 0 THEN "stopped" ELSE event_set
  /\ vec_cycles_measured' = IF prog.style = "push" THEN Append(vec_cycles_measured, c)
                                                   ELSE vec_cycles_measured
  /\ cycles_measured' = IF prog.style = "assign" THEN c ELSE cycles_measured
  /\ cost' = c
  /\ invocations' = invocations + 1
  /\ pc' = IF prog.inline THEN "print" ELSE After(invocations')
  /\ UNCHANGED <<setVars, printVars>>

\* Mistake: reset() leaves the cycles of the warm-up.
KeptCycles == vec_cycles_measured

\* vec_cycles_measured.clear(), only for a counter with events
ResetCycles == IF cset > 0 THEN <<>> ELSE vec_cycles_measured

\* reset(), which does nothing at all for a counter without events.
Reset ==
  /\ pc = "reset"
  /\ measured' = IF cset > 0 THEN [e \in 1 .. cset |-> 0] ELSE measured
  /\ vec_cycles_measured' = ResetCycles
  /\ pc' = "invoke"
  /\ UNCHANGED <<setVars, cycles_measured, event_set, invocationVars, printVars>>

\* end(): the event set is cleaned up and destroyed.
End ==
  /\ pc = "end"
  /\ event_set = "stopped"
  /\ event_set' = "none"
  /\ pc' = "stats"
  /\ UNCHANGED <<setVars, measured, cycleVars, invocationVars, printVars>>

\* The mean of the cycles, or 0 if there are none.
Mean(v) == IF v = <<>> THEN 0 ELSE FoldSeq(+, 0, v) \div Len(v)

\* stats_to_stream: prints the events, then adds the mean to the cycles and
\* prints these; a counter without events and cycles prints nothing.
StatsToStream ==
  /\ UNCHANGED <<setVars, measured, vec_cycles_measured, event_set, invocationVars>>
  /\ IF cset = 0 /\ vec_cycles_measured = <<>>
     THEN UNCHANGED <<cycles_measured, printed>>
     ELSE /\ cycles_measured' = cycles_measured + Mean(vec_cycles_measured)
          /\ printed' = Append(printed, [events |-> measured, cycles |-> cycles_measured',
                                         cost |-> cost])

\* print_stats() after an invocation.
PrintInline ==
  /\ pc = "print"
  /\ StatsToStream
  /\ pc' = After(invocations)
  /\ UNCHANGED prints

\* stats() or print_stats() in the end.
Stats ==
  /\ pc = "stats" /\ prints < prog.prints
  /\ StatsToStream
  /\ prints' = prints + 1
  /\ UNCHANGED pc

\* A call of PAPI reports an error: exit_with_err.
PapiError ==
  /\ pc \in {"construct", "new", "invoke", "running", "reset", "end"}
  /\ pc \in {"invoke", "running", "reset"} => cset > 0
  /\ pc' = "exit"
  /\ UNCHANGED <<setVars, measured, cycleVars, event_set, invocationVars, printVars>>

Done ==
  /\ pc = "exit" \/ (pc = "stats" /\ prints = prog.prints)
  /\ UNCHANGED vars

Next ==
  \/ \E n \in HwCounters : Construct(n)
  \/ Add \/ AddTooMany
  \/ Start
  \/ \E c \in Costs : Stop(c)
  \/ Reset
  \/ End
  \/ PrintInline \/ Stats
  \/ PapiError
  \/ Done

Spec == Init /\ [][Next]_vars

-----------------------------------------------------------------------------

\* counter.cpp:235 asserts this whenever statistics are printed.
AssertHolds == pc \in {"print", "stats"} => Len(measured) = cset

\* The i-th block that is printed shows the invocation measured last at that time, in
\* its events and in its cycles, and nothing of the warm-up or of the invocations that
\* were printed before.  Only for cycles that were pushed does it matter that it is the
\* i-th: every print adds the mean to cycles_measured again, so that the first block
\* is right, and the second one of PRODUCER_CONSUMER holds twice the cycles.
PrintsMeasured ==
  \A i \in DOMAIN printed :
    LET b == printed[i]
    IN  /\ b.events = [e \in 1 .. cset |-> b.cost]
        /\ b.cycles = CASE prog.style = "none"   -> 0
                        [] prog.style = "assign" -> b.cost
                        [] prog.style = "push"   -> i * b.cost

-----------------------------------------------------------------------------
(* Why it works.  Cycles that a benchmark pushes are averaged over all       *)
(* invocations since they were last cleared: such a program prints in the    *)
(* end only, and has events if it warms up.                                  *)

SoundUse ==
  prog.style = "push" => ~prog.inline /\ (prog.events > 0 \/ prog.warmup = 0)

TypeInv ==
  /\ prog \in Program
  /\ max_hw_cntrs \in Nat /\ cset \in Nat /\ invocations \in Nat
  /\ cost \in Nat /\ prints \in Nat
  /\ printed \in Seq(ToSet(printed))
  /\ event_set \in {"none", "stopped", "running"}
  /\ pc \in {"construct", "new", "reset", "invoke", "running", "print", "end",
             "stats", "exit"}

\* What each control state says of the calls made before it.
ControlInv ==
  /\ pc \in {"construct", "new"} =>
       cset = 0 /\ measured = <<>> /\ invocations = 0 /\ printed = <<>>
  /\ pc \notin {"construct", "new", "exit"} => cset = prog.events
  /\ pc \in {"reset", "invoke", "running"} => invocations <= prog.warmup
  /\ pc = "reset" => prog.inline \/ invocations = prog.warmup
  /\ pc = "print" => prog.inline
  /\ pc # "stats" => prints = 0

\* Whatever came before, the values are those of the last invocation when it is over.
EventsInv ==
  /\ cset = 0 => measured = <<>>
  /\ pc \in {"print", "end", "stats"} => measured = [e \in 1 .. cset |-> cost]

\* The cycles, in each of the styles.
CyclesInv ==
  /\ prog.style # "push" => vec_cycles_measured = <<>>
  /\ prog.style = "none" => cycles_measured = 0
  /\ prog.style = "assign" /\ pc \in {"print", "end", "stats"} => cycles_measured = cost
  /\ prog.style = "push" =>
       /\ Len(printed) = prints /\ cycles_measured = prints * cost
       /\ invocations = 0 => vec_cycles_measured = <<>>
       /\ pc \in {"invoke", "running"} /\ invocations = prog.warmup => vec_cycles_measured = <<>>
       /\ pc \in {"end", "stats"} => vec_cycles_measured = <<cost>>

\* The inductive invariant: what is printed comes from the invocation measured last,
\* because reading overwrites the values of every earlier one, and the reset in front
\* of the measured invocation clears the cycles that the warm-up has pushed.
CounterInv ==
  /\ TypeInv /\ ControlInv /\ EventsInv
  /\ SoundUse => CyclesInv /\ PrintsMeasured

=============================================================================
