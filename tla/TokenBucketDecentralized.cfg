SPECIFICATION Spec
CONSTANTS
  MaxTime = 4
  MaxSetBacks = 1
  Start = 1
  Word = 64
  NodesNumber = 2
  MaxCapacity = 1
  RefillRate = 1
  Unit = 2
  SyncPeriod = 1
  RefillPeriod = 1
INVARIANTS
  TypeOK
  NodeConforms
PROPERTIES
  SpentNeverFalls
