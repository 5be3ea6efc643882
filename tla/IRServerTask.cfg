SPECIFICATION Spec
CONSTANTS
  MULTIPLICITY = 2
  MAXFD = 4
  Conns = {c1, c2, c3}
  NoFd = NoFd
INVARIANTS
  TypeOK
  SlotPartition
  SocketOwnership
  SetUpExclusive
PROPERTIES
  RefusedOnlyWhenBusy
  ListDiscipline
  BacklogDrains
  SlotReturns
