SPECIFICATION Spec

CONSTANTS
  NULL = NULL
  NeedAuthentication <- MCNeedAuthentication
  Answering <- MCAnswering
  Contents <- MCContents
  Maps <- MCMaps
  Plains <- MCPlains
  Multiparts <- MCMultiparts
  Names <- MCNames
  DATA_MAX = 2
  REQUESTS = 2
  PARTS = 2

INVARIANTS
  TypeOK
  AnsweredOnce
  ContextIsOwned
  DispatchedRight
  ParametersAreReceived
  UnauthorizedIsRefused
