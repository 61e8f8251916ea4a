\* The thread stops when the workload is done.
CHECK_DEADLOCK FALSE
SPECIFICATION PacingSpec
CONSTANTS
  MaxTime = 50
  MaxSetBacks = 1
  Start = 11
  Word = 128
  DurationSeconds = 1
  SlotsPerSecond = 3
  SpikeReach = 1
  RpsMin = 1
  RpsMax = 9
  Scale = 2
  Sines <- MCSines
  Slot = 4
  MaxLate = 2
INVARIANTS
  PacingTypeOK
  WellPaced
PROPERTIES
  Finishes
