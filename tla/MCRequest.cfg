SPECIFICATION RequestSpec
CONSTANTS
  small = small
  wide = wide
  Models <- MCModels
  Dims <- MCDims
  NoModel = NoModel
  NumLayers = 3
  Contexts = {1, 2}
  Requests <- MCRequests
  NoRequest = NoRequest
  SetsPerLayer = 2
  MaxSets = 5
  FailureSets <- MCFailureSets
  Word = 8
  Basis = 5
  Prime = 3
  ExclusiveOr <- MCExclusiveOr
  MaxRank = 2
  MaxName = 2
  MaxPayload = 14
  Tensors <- MCTensors
  Ranges <- MCLayerRanges
  Backends = {0, 1, 2, 3}
  MaxChanges = 1
  None = None
INVARIANTS
  TypeOK
  WorkFits
  CachesFitUnlessLost
  ObjectsReadyUnlessLost
  Understood
  ExactlyDecoded
  AnswerFits
PROPERTY NeverWornOut
