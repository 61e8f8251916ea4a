SPECIFICATION FairSpec
CONSTANTS
  Requests = {r1, r2}
PROPERTIES
  LetsEveryRequestPass
CHECK_DEADLOCK FALSE
