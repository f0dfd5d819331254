SPECIFICATION Spec
CONSTANTS
  NumLayers = 2
  MaxContext = 2
  Values <- MCValues
  FreshValues <- MCFreshValues
  Result <- MCResult
  None = None
INVARIANTS
  RaceFree
PROPERTIES
  ImplementsInOrder
