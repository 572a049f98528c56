CONSTANTS
  Sizes = {2, 3}
  StreamLen = 3
  Silence = 3
  BufferSize = 3
  MaxFrames = 2
  MaxEpochs = 3
SPECIFICATION FairSpec
INVARIANTS BufferInv FewOldFrames ClockOfTheSound
PROPERTIES HeardOnceInOrder CallbackReturns
CHECK_DEADLOCK FALSE
