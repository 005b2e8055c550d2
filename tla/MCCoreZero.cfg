SPECIFICATION Spec
CONSTANTS
  c0 = c0
  c1 = c1
  c2 = c2
  bench = bench
  Core <- MCCore
  MasterCore = c0
  Benchmark <- MCBenchmark
  MaxSched = 3
  Svecs <- ThreeOnTwo
  Methods <- OnlyPriority
  Warmup = 0
  MaxCalls = 1
INVARIANT
  SchedulerStaysOnCore0
