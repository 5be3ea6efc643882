SPECIFICATION Spec
CONSTANTS
  Conns = {c1}
  SIGLEN = 1
  IMAGELEN = 1
  REQUESTS = 1
  PARTS = 1
INVARIANTS
  FinishedImageBoots
