CONSTANTS
  UsbMixes = {{"in0", "out0"}, {"in1"}, {"out1"}, {"in3"}}
  Iso = {"in3"}
  PACKET = 2
  Lengths = {1, 2}
  MaxChain = 2
SPECIFICATION UsbSpec
INVARIANT NobodyWaits
PROPERTIES OpAnswered BringsUp
CHECK_DEADLOCK FALSE
