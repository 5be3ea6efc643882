SPECIFICATION Spec
CONSTANTS
  BITS = 8
  BUFFITEMS = 256
  Task = {t1}
  Requests <- MCLongRequests
  None = None
  Nobody = Nobody
  Garbage = Garbage
INVARIANTS
  FitsBuffer
