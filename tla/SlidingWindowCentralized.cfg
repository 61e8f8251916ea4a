SPECIFICATION Spec
CONSTANTS
  MaxTime = 4
  MaxSetBacks = 1
  Start = 1
  Word = 64
  QueueCap = 1
  Window = 1
  Life = 2
  Requests <- MCEachAttempt
INVARIANTS
  TypeOK
  RateHeld
PROPERTIES
  RetriesFirst
  ImplementsLimiter
