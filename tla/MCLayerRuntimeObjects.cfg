SPECIFICATION Spec
CONSTANTS
  small = small
  wide = wide
  Models <- MCModels
  Dims <- MCDims
  NoModel = NoModel
  NumLayers = 2
  Contexts = {1, 2}
  Requests <- MCRequests
  NoRequest = NoRequest
  SetsPerLayer = 2
  MaxSets = 4
  FailureSets = {{"command_objects"}}
INVARIANT ObjectsReady
