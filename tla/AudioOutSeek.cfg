CONSTANTS
  Sizes = {3}
  StreamLen = 4
  Silence = 2
  BufferSize = 3
  MaxFrames = 3
  MaxEpochs = 2
SPECIFICATION Spec
INVARIANT SeekIsSafe
CHECK_DEADLOCK FALSE
