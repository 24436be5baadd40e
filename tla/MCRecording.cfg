SPECIFICATION FairSpec
CONSTANTS
  PANEL = TRUE
  BLOCKS_PER_VIDEO = 2
  VIDEO_CAP = 1
  AUDIO_CAP = 6
  SURPLUS_MAX = 4
INVARIANTS
  VideoNotAhead
  OneClock
PROPERTIES
  FreshAfterOpen
  StopEnds
CHECK_DEADLOCK FALSE
