SPECIFICATION SpecSweep
CONSTANTS
  Half = 16
  Inputs <- RoomForSize
  Cycles <- SmallOrRoomy
  Rounds <- UpToFive
  SizeCount = 2
INVARIANTS
  IInv
  SweepInv
  NothingWrapped
  ExactAverage
  AveragesOwnTests
