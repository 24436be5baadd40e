\* The real table of eight states; a hold of two quanta is the longest there
\* is, and the longest chain has three channels.
SPECIFICATION FairSpec
CONSTANTS
  CHANNELS = {0, 1, 6, 7}
  NoLink = NoLink
  LINK_DEPTH = 4
  STATES = 8
  GATE_MAX = 2
INVARIANTS
  NoStaleDispatch
  NeverAborts
PROPERTIES
  CompletionsKept
  InOrder
  BlocksClose
