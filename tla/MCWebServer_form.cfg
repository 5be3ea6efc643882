SPECIFICATION Spec

CONSTANTS
  NULL = NULL
  NeedAuthentication <- MCNeedAuthentication
  Answering <- MCAnswering
  Contents <- MCContents
  Maps <- MCMaps
  Plains <- MCEscaped
  Multiparts <- MCMultiparts
  Names <- MCNames
  DATA_MAX = 2
  REQUESTS = 2
  PARTS = 2

INVARIANTS
  FormsAreTransparent
