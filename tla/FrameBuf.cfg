CONSTANTS
  CacheNum = 3
  Lengths = {1, 2, 3}
  Pictures = {"p1", "p2"}
SPECIFICATION Spec
INVARIANTS RingInv FailsOnlyGrown
PROPERTY ImplementsCache
CHECK_DEADLOCK FALSE
