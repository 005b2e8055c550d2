SPECIFICATION SpecList
CONSTANTS
  N = 4
  Size = 16
  Stride = 4
  PtrSizes = {2}
  Builders = {"allocateRandomArray"}
  Iterations = 2
INVARIANT HundredLoads
