------------------------- MODULE MCCounterBenchmark -------------------------
(***************************************************************************)
(* Small instances of CounterBenchmark, and what the comments of the code  *)
(* say of it that it does not do.                                          *)
(***************************************************************************)
EXTENDS CounterBenchmark

CONSTANTS c0, c1, c2, bench

On(c) == [core_id |-> c, benchmark |-> bench]

MCCore      == {c0, c1, c2}
MCBenchmark == {bench}

\* Three schedules of which two share a core, as run_test builds them.
ThreeOnTwo == {<<On(c1), On(c2), On(c1)>>}

\* Vectors of up to three schedules, the empty one included.
UpToThree == ThreeOnTwo \cup {<<>>, <<On(c1)>>, <<On(c2), On(c1)>>}

OnlyPriority == {"counters_with_priority_schedule"}

-----------------------------------------------------------------------------

\* thread_utils.h:138 says of counter_thread_fn "Wait for scheduler": a
\* benchmark does not run while the scheduler creates and places threads.
WaitsForScheduler ==
  \A w \in Worker : Running(w) => spc \notin {"spawn", "pin", "release"}

\* thread_utils.h:95 says "Scheduler thread (always core 0)".
SchedulerStaysOnCore0 == masterCore = MasterCore

=============================================================================
