\* Three lines: a turn may outlive the step that started it, and three controls
\* want the two slots. The blocks of a step, its window and its deadline are few
\* and differ, so that each can be over before the other.
SPECIFICATION FairSpec
CONSTANTS
  KINDS = {"tap", "wait", "turn", "freeturn", "click"}
  STEPS = 3
  ENCODERS = {"enc1", "enc2"}
  SLOTS = 2
  HOLD = 1
  GAP = 1
  SETTLE = 1
  VERIFY = 2
  TIMEOUT = 6
  OVER = 2
  DETENTS = 2
INVARIANTS
  OneRampPerControl
PROPERTIES
  GoneSeen
  WalkGoesOn
CHECK_DEADLOCK FALSE
