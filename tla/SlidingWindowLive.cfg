SPECIFICATION LiveSpec
CONSTANTS
  NodesNumber = 2
  Window = 1
  Life = 2
  SyncPeriod = 1
  QueueCap = 1
  Requests <- MCTwo
  MaxTime = 2
PROPERTIES
  AllAnswered
