SPECIFICATION SpecTest
CONSTANTS
  Core <- MCCore
  MasterCore = 0
  Benchmark <- Benchmarks
  MaxSched = 8
  Svecs <- MCSvecs
  Methods <- CounterMethods
  Warmup = 0
  MaxCalls = 1
  ArchCfg <- ThreeLines
  Terminated = TRUE
  TailFlushed = TRUE
  Forwarding = TRUE
  Tests <- CoherenceTests
  Placements <- Global
  MaxTests = 1
INVARIANTS
  RecipeSound
  KindSound
  FlushedFirst
  MeasuredFromOutside
