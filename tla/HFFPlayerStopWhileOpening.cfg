CONSTANTS
  MaxSessions = 1
SPECIFICATION FairSpec
PROPERTY StopReturns
CHECK_DEADLOCK FALSE
