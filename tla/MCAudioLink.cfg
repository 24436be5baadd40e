SPECIFICATION Spec
CONSTANTS
  Frontends = {f1, f2}
  None = None
  CAP = 3
  WRAP = 6
  MAX_AHEAD = 1
  OUT_BLOCKS = 1
SYMMETRY Symmetry
INVARIANTS
  OneConsumer
  NoOverrun
CHECK_DEADLOCK FALSE
