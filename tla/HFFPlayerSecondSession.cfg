CONSTANTS
  MaxSessions = 2
SPECIFICATION Spec
INVARIANT QueuesUsable
CHECK_DEADLOCK FALSE
