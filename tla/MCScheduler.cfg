SPECIFICATION Spec
CONSTANTS
  c0 = c0
  c1 = c1
  c2 = c2
  bench = bench
  Core <- MCCore
  MasterCore = c0
  Benchmark <- MCBenchmark
  MaxSched = 3
  Svecs <- UpToThree
  Methods <- CounterMethods
  Warmup = 1
  MaxCalls = 3
INVARIANTS
  IInv
  OneBenchmarkAtATime
  ReturnIsSafe
  PinnedBeforeBenchmark
  PriorityOrder
  ReadyMeansMeasured
  OnlyCleanCallsFinish
PROPERTIES
  ClearedJoined
  EveryCallEnds
  RunsSerially
