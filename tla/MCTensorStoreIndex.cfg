SPECIFICATION Spec
CONSTANTS
  n1 = n1
  n2 = n2
  n3 = n3
  n4 = n4
  c1 = c1
  c2 = c2
  bad = bad
  Names <- MCNames
  Contents <- MCContents
  Acceptable <- MCAcceptable
  Meta <- MCMeta
  NoContent = NoContent
  NoTensor = NoTensor
  IdSpace = 4
INVARIANT IndexComplete
