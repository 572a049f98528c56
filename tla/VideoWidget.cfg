CONSTANTS
  Sources = {"file", "network"}
  LoopPlayback = TRUE
  RetryInterval = 2
  RetryMax = 4
  MaxPending = 4
SPECIFICATION FairSpec
INVARIANTS WidgetInv RestartsApart
PROPERTIES RetryGoesOn ClosedStaysClosed
CHECK_DEADLOCK FALSE
