SPECIFICATION FairSpec
CONSTANTS
  Frontends = {f1}
  None = None
  CAP = 3
  WRAP = 6
  MAX_AHEAD = 1
  OUT_BLOCKS = 1
PROPERTIES
  Fifos
  BlocksArrive
  ShimLetsGo
CHECK_DEADLOCK FALSE
