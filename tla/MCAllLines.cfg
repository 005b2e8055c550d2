SPECIFICATION SpecTest
CONSTANTS
  Core <- MCCore
  MasterCore = 0
  Benchmark <- Benchmarks
  MaxSched = 7
  Svecs <- MCSvecs
  Methods <- CounterMethods
  Warmup = 0
  MaxCalls = 1
  ArchCfg <- TwoLines
  Terminated = TRUE
  TailFlushed = TRUE
  Forwarding = FALSE
  Tests <- ExclusiveTests
  Placements <- Local
  MaxTests = 1
INVARIANT
  AllLinesInitialised
