SPECIFICATION Spec
CONSTANTS
  MaxTime = 7
  MaxSetBacks = 2
  Start = 1
  Word = 64
  TokensToAdd = 2
  RefillTime = 2
  MaxCapacity = 2
  RefillRate = 2
  Unit = 3
INVARIANTS
  TypeOK
  RateHeld
