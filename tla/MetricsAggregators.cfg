\* main returns once the means are printed.
CHECK_DEADLOCK FALSE
SPECIFICATION Spec
CONSTANTS
  Users = {u1, u2}
  MaxTime = 5
  MaxLines = 4
  Lags = {0, 1}
  RetryDelay = 1
  Duration = 4
  Span = 2
  WarmUp = 1
  Capacity = 1
  Word = 64
  Journals = 6
  Parts = 24
  Others = {0, 6, 60}
INVARIANTS
  TypeOK
  RpsRight
  FlightsRight
  UsersRight
  MeanIsRobust
