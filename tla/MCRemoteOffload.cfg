SPECIFICATION FairSpec
CONSTANTS
  a = a
  b = b
  wa = wa
  wb = wb
  Clients <- MCClients
  Contents <- MCContents
  Offload <- MCOffload
  Weight <- MCWeight
  NoClient = NoClient
  NoContent = NoContent
  NoInput = NoInput
  NoReply = NoReply
  NumLayers = 3
  NumTensors = 2
  MaxContext = 2
  MaxTurns = 2
  ListenQueue = 1
  Interactive = {a}
  Supported = {a, b}
  MayVanish = {a}
INVARIANTS
  OwnResults
  OwnRows
  UploadedHeld
PROPERTIES
  RequestsAnswered
  SessionsEnd
