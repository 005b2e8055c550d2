SPECIFICATION SpecTest
CONSTANTS
  Core <- MCCore
  MasterCore = 0
  Benchmark <- Benchmarks
  MaxSched = 4
  Svecs <- MCSvecs
  Methods <- CounterMethods
  Warmup = 0
  MaxCalls = 1
  ArchCfg <- TwoLines
  Terminated = TRUE
  TailFlushed = FALSE
  Forwarding = FALSE
  Tests <- FlagTests
  Placements <- Local
  MaxTests = 3
INVARIANTS
  TestInv
  FlushedFirst
  PinnedBeforeBenchmark
  Reusable
  FlagsBounded
PROPERTY EveryTestEnds
