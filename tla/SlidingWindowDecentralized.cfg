SPECIFICATION Spec
CONSTANTS
  NodesNumber = 2
  Window = 1
  Life = 2
  SyncPeriod = 1
  QueueCap = 1
  Requests <- MCFour
  MaxTime = 2
INVARIANTS
  TypeOK
  WindowHeld
  RateHeld
PROPERTIES
  RetriesFirst
  ImplementsLimiter
