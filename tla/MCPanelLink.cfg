CONSTANTS
  FIFO_DEPTH = 1
  QUEUE_DEPTH = 2
  FIVE = 2
  TEN = 2
  SOCK = 2
  MK1 = FALSE
  Mixes = {{"keys", "query"}, {"fader", "query"}, {"lamps", "query", "requery"}, {"keys", "reset"}, {"fader", "reset"}, {"query", "requery", "reset"}}
SPECIFICATION PanelSpec
INVARIANTS
  NothingStuck
PROPERTIES
  Converge
  Answered
CHECK_DEADLOCK FALSE
