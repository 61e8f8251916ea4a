SPECIFICATION FairSpec
CONSTANTS
  WorkersNumber = 2
  Users = 2
  RetryDelay <- MCShortDelay
  MaxTime = 1
INVARIANTS
  TypeOK
  JournalComplete
  TwinsDiffer
  AttemptsInTurn
  Chronology
  RetriesKept
PROPERTIES
  Termination
