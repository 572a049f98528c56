CONSTANTS
  MaxSessions = 2
SPECIFICATION FairSpec
INVARIANTS TypeOK OpenWhenUsed SeekFindsItOpen StopLeavesNothing StopSticks StopOutsideRun
PROPERTIES ClosedIsLast StopEndsPlayback
CHECK_DEADLOCK FALSE
