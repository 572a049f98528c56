CONSTANTS
  Gaps = {8}
  OddGaps <- MCOddGaps
  Costs = {2}
  Stalls = {60, 1100}
  AudioGaps = {60, 1100}
  Starts <- MCStarts
  Readings <- MCReadings
  FrameTime = 8
  MaxTroubles = 2
  MaxLead = 150
SPECIFICATION Spec
PROPERTIES RunsAheadOnlyByLongDelay MeetsAudio BackOnSchedule
CHECK_DEADLOCK FALSE
