SPECIFICATION Spec
CONSTANTS
  Nobody = Nobody
  Threads <- MCThreads
  Domain <- MCDomain
  Entry <- MCEntry
  Requests <- MCRequests
  LENGTH = 2
  ADJUSTED = 4
  INTERVAL = 2
  TIMEOUT = 1
  CLOCK_MAX = 6
  RESTARTS = 1
INVARIANTS
  DigestReady
  CheckIsExact
  EventsHeldBriefly
  EventsInOrder
PROPERTIES
  Reconnects
  TimeIsAdjusted
