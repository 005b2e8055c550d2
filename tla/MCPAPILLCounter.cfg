SPECIFICATION Spec
CONSTANTS
  Programs <- SoundUses
  Costs = {60, 120}
  HwCounters = {0, 3}
INVARIANTS
  AssertHolds
  PrintsMeasured
  CounterInv
