SPECIFICATION InputSpec
CONSTANTS
  one = one
  f1 = f1
  trig = trig
  track = track
  func = func
  knobA = knobA
  knobB = knobB
  pot = pot
  encA = encA
  encB = encB
  nothing = nothing
  Keys = {one, f1}
  Digits = {one}
  Buttons = {trig, func}
  Knobs = {knobA, knobB}
  Pot = pot
  Switch <- MCSwitch
  Bound <- MCBound
  Nothing = nothing
  InputMixes <- MCInputMixes
  MAX_QUEUE = 2
INVARIANTS
  LetGo
  DragAsMeant
CHECK_DEADLOCK FALSE
