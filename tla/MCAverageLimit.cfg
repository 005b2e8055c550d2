SPECIFICATION SpecSweep
CONSTANTS
  Half = 16
  Inputs <- SignedRange
  Cycles <- SmallOrLargest
  Rounds = {3}
  SizeCount = 1
INVARIANT ExactAverage
