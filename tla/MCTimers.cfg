\* A modulus of 1 and 2 of a full count of 3; references of 1 and 2 intervals
\* more, which divide the wrap and which do not, and the one that wraps; two ticks late at most.
SPECIFICATION FairSpec
CONSTANTS
  Used <- MCUsed
  Limits = {0, 1, 2}
  FULL = 3
  Refs = {0, 1, 2, 3}
  WRAP = 4
  LATE = 2
  LAG_MAX = 8
INVARIANTS
  FullPeriod
  MatchesCounted
PROPERTIES
  TimersGoOn
