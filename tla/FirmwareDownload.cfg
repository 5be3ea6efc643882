SPECIFICATION Spec
CONSTANTS
  Conns = {c1, c2}
  SIGLEN = 2
  IMAGELEN = 2
  REQUESTS = 2
  PARTS = 2
INVARIANTS
  SplitExact
  HandlesAreOwned
  OutcomeToldOnce
PROPERTIES
  FinishedIsVerified
  FinishedRestarts
