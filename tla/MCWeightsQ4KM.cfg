CONSTANTS
  Tensors <- Q4KMTensors
  Places <- OnPc
SPECIFICATION Spec
INVARIANTS
  PromisedRuns
CHECK_DEADLOCK FALSE
