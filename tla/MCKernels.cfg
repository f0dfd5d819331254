SPECIFICATION KernelsSpec
CONSTANTS
  N = 4
  Halvings <- MCHalvings
  MaxLength = 6
  None = None
  Models <- MCModels
  MaxContext = 3
  Block = 3
  HeadGroup = 2
  MaxDim = 4
  Garbage = Garbage
INVARIANTS
  OutputsAreWhole
  RaceFree
  SameBarrier
  AsDefined
  NothingStrays
