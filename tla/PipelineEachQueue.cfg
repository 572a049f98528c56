CONSTANTS
  FileLen = 8
  Kind <- MCKind
  PktSize <- MCPktSize
  HasAudio = TRUE
  SeekPoints <- MCSeekPoints
  MaxSeeks = 1
  MaxQueue = 1
  MaxBytes = 2
  MinPrebuffer = 2
  CodecDelay = 1
  FrameCache = 1
SPECIFICATION Spec
INVARIANT EachQueueBounded
