SPECIFICATION FairSpec
CONSTANTS
  Mixes <- MCMixes
  MAX_MODES = 2
INVARIANTS
  ReturnClean
PROPERTIES
  BothEnd
  HandoffFollows
CHECK_DEADLOCK FALSE
