SPECIFICATION SpecList
CONSTANTS
  N = 5
  Size = 20
  Stride = 4
  PtrSizes = {2, 8}
  Builders = {"setup", "set_shuffled_linked_list", "init_stride", "allocateRandomArray"}
  Iterations = 1
INVARIANTS
  IInv
  SingleCycle
  CandidateLeft
  VisitsEveryNode
  StartsBehind
  OnlyCloseOverruns
