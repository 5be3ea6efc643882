SPECIFICATION Spec
CONSTANTS
  HDR = 2
  REQMAX = 5
  Size <- MCSize
  TxFormat = {1, 2}
  Sendable = {1}
  MIXED = 4
  Faults = {"idle", "stall", "killed", "vanish", "error"}
INVARIANTS
  CleanHandover
  FramesIntact
  AnswerIsOwn
  OwnHeaderOwnBody
PROPERTIES
  AtMostOnce
  RetryIsSafe
  Answered
  ConnectionEnds
