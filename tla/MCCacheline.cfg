SPECIFICATION Spec
CONSTANTS
  Programs <- CachelineUse
  Costs = {60, 120}
  HwCounters = {0, 3}
INVARIANT PrintsMeasured
