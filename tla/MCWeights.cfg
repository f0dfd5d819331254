CONSTANTS
  Tensors <- MCTensors
  Places <- MCPlaces
SPECIFICATION Spec
INVARIANTS
  TypeOK
  ReadsTheFormat
  ReadsInside
  OnlyQ4TablesRefused
CHECK_DEADLOCK FALSE
