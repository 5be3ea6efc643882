SPECIFICATION Spec
CONSTANTS
  BITS = 8
  BUFFITEMS = 256
  Task = {t1}
  Requests <- MCSerialRequests
  None = None
  Nobody = Nobody
  Garbage = Garbage
INVARIANTS
  TypeOK
  FitsBuffer
  CarrierAgrees
PROPERTIES
  ImplementsAtomic
