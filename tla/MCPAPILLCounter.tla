-------------------------- MODULE MCPAPILLCounter --------------------------
(***************************************************************************)
(* The ways in which the programs of the repository use a counter.         *)
(***************************************************************************)
EXTENDS PAPILLCounter

Use(e, w, s, p) ==
  [events |-> e, warmup |-> w, style |-> s, prints |-> p, inline |-> FALSE]

\* icache_linear.cpp, with one invocation for each footprint.
InlineUse(e, n) ==
  [events |-> e, warmup |-> n - 1, style |-> "none", prints |-> 0, inline |-> TRUE]

\* All programs but cacheline.cpp, each with as many events, invocations and prints
\* as it has or more: priority_schedule.cpp; diff_core_diff_bench.cpp, cache.cpp and
\* reader_writer.cpp, which print once inside the scheduler and once more;
\* a_measurement.cpp; the measured benchmark of run_test; its producers and
\* consumers, whose statistics counters_with_schedule prints and then run_test; its
\* recipes, whose counters are skipped; more events than there are counters;
\* rd_latency.cpp and the flushers, which measure nothing; and icache_linear.cpp.
SoundUses ==
  {Use(3, 0, "assign", 1), Use(3, 5, "assign", 2), Use(2, 5, "push", 1),
   Use(1, 0, "push", 1), Use(1, 0, "push", 2), Use(0, 0, "push", 0),
   Use(0, 0, "assign", 1), Use(4, 0, "push", 1), Use(0, 0, "none", 1),
   InlineUse(1, 5)}

\* cacheline.cpp: no events, three warm-up invocations.
CachelineUse == {Use(0, 3, "push", 1)}

=============================================================================
