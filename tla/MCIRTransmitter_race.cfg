SPECIFICATION Spec
CONSTANTS
  BITS = 1
  BUFFITEMS = 5
  Task = {t1, t2}
  Requests <- MCSharedRequests
  None = None
  Nobody = Nobody
  Garbage = Garbage
INVARIANTS
  FaithfulTransmission
