SPECIFICATION FairSpec
CONSTANTS
  WORDS = 2
  BYTE = 3
  GATE_MAX = 3
  WR_POLL_MAX = 3
  CARD_PRESENT = TRUE
  VCPU_STALLS = FALSE
INVARIANTS
  TransferWhole
  NoStaleCompletion
  NoWedge
  NoSpin
PROPERTIES
  Completes
