SPECIFICATION Spec
CONSTANTS
  HDR = 3
  REQMAX = 4
  Size <- MCOneSize
  TxFormat = {1}
  Sendable = {1}
  MIXED = 4
  Faults = {"killed"}
INVARIANTS
  InputBufferHasRoom
