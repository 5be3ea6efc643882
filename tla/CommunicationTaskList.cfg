SPECIFICATION Spec
CONSTANTS
  MULTIPLICITY = 4
  NULL = NULL
INVARIANTS
  NeverAborts
  WellLinked
PROPERTIES
  ImplementsTaskQueue
