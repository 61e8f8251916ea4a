SPECIFICATION Spec
CONSTANTS
  MaxTime = 5
  MaxSetBacks = 1
  Start = 1
  Word = 64
  QueueCap = 1
  TimeDelta = 2
  RequestsToProcess = 1
  Requests <- MCEachAttempt
INVARIANTS
  TypeOK
  LongRunRate
  PeakRate
PROPERTIES
  ImplementsLimiter
