\* A hold of two ticks; two deliveries outstanding are as good as any more. A
\* transfer has one word more than the FIFO takes, and two can be told apart.
SPECIFICATION PortFairSpec
CONSTANTS
  HOLD_ON = TRUE
  HOLD_MAX = 1
  OUT_MAX = 2
  Dests = {"track1", "track2", "sum"}
  DEPTH = 2
  WORDS = 3
INVARIANTS
  RightPlace
PROPERTIES
  NoTear
  Delivery
  CodecGoesOn
