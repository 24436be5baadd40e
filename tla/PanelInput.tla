------------------------------ MODULE PanelInput ------------------------------
(***************************************************************************)
(* How hands become keys on the panel: the event loop of main.c and the    *)
(* gestures of skin.c.  A key of the keyboard or of the drawn panel is held *)
(* down, a knob is dragged, push-dragged or tapped, the wheel turns one,   *)
(* and a script clicks and drags through the same code.                    *)
(*                                                                         *)
(* queue holds the events SDL has pumped.  An event is looked at later     *)
(* than it happened, and with the modifiers of that later time.            *)
(***************************************************************************)
EXTENDS Naturals, Sequences

CONSTANTS
  Keys,          \* of the keyboard
  Digits,        \* those that choose an encoder with alt
  Buttons,       \* keys of the drawn panel
  Knobs, Pot,    \* encoders, and the headphones volume, which has no switch
  Switch(_),     \* the panel key under a knob
  Bound(_, _),   \* the panel key of a keyboard key, without and with ctrl
  Nothing,
  InputMixes,    \* bound: sets of what is at work in one behaviour
  MAX_QUEUE

ASSUME InputAssumption ==
  /\ Digits \subseteq Keys
  /\ Pot \notin Knobs
  /\ Nothing \notin Buttons \union Knobs \union {Pot}
  /\ \A k \in Knobs : Switch(k) # Nothing
  /\ Buttons \intersect {Switch(k) : k \in Knobs} = {}
  /\ InputMixes \subseteq SUBSET {"keys", "mouse", "wheel", "script"}
  /\ MAX_QUEUE \in Nat \ {0}

VARIABLES
  atWork,        \* keyboard, mouse, wheel, script: those of this behaviour
  \* the hands
  fingers,       \* keyboard keys that are down
  mouse,         \* what the pressed mouse button was pressed on, or Nothing
  ctrl, alt,
  queue,
  \* the skin
  btn, enc, push, turned,
  tap,           \* tap_id: the knob whose switch is to be released
  click,         \* a scripted click: Nothing, or what it holds down
  active_enc,
  keys,          \* the panel's key snapshot
  \* history
  shared,        \* something else bears on the switch of the knob in hand
  slipped        \* the keys that a slip has left down, see below

handVars == <<atWork, fingers, mouse, ctrl, alt>>
uiVars == <<btn, enc, push, turned>>
inputVars == <<handVars, queue, uiVars, tap, click, active_enc, keys, shared, slipped>>

Hits == Buttons \union Knobs \union {Pot}
Switches == {Switch(k) : k \in Knobs}
PanelKeys == Buttons \union Switches \union ({Bound(k, c) : k \in Keys, c \in BOOLEAN} \ {Nothing})
Events == [what : {"key"}, at : Keys, down : BOOLEAN]
            \union [what : {"mouse", "move", "wheel"}, at : Hits \union {Nothing}, down : BOOLEAN]

InputTypeOK ==
  /\ atWork \in InputMixes
  /\ fingers \subseteq Keys
  /\ mouse \in Hits \union {Nothing}
  /\ {ctrl, alt, push, turned, shared} \subseteq BOOLEAN
  /\ queue \in Seq(Events) /\ Len(queue) <= MAX_QUEUE
  /\ btn \in Buttons \union {Nothing}
  /\ enc \in Knobs \union {Pot, Nothing}
  /\ tap \in Knobs \union {Nothing}
  /\ click \in Hits \union {Nothing}
  /\ active_enc \in Knobs
  /\ keys \subseteq PanelKeys /\ slipped \subseteq keys

InputInit ==
  /\ atWork \in InputMixes
  /\ fingers = {} /\ mouse = Nothing /\ ctrl = FALSE /\ alt = FALSE
  /\ queue = <<>>
  /\ btn = Nothing /\ enc = Nothing /\ push = FALSE /\ turned = FALSE
  /\ tap = Nothing /\ click = Nothing
  /\ active_enc \in Knobs
  /\ keys = {}
  /\ shared = FALSE /\ slipped = {}

-----------------------------------------------------------------------------
(* What a key of the panel is down for *)

\* What a keyboard key is looked up as.
Found(k, withCtrl, withAlt) == IF withAlt /\ k \in Digits THEN Nothing ELSE Bound(k, withCtrl)

\* The keyboard keys that are down, or whose release is still to be handled.
Release(k) == [what |-> "key", at |-> k, down |-> FALSE]
Bearing == fingers \union {k \in Keys : \E i \in 1 .. Len(queue) : queue[i] = Release(k)}

TypedWith(withCtrl, withAlt) == {Found(k, withCtrl, withAlt) : k \in Bearing}

GestureHolds ==
  (IF btn = Nothing THEN {} ELSE {btn}) \union (IF enc \in Knobs /\ push THEN {Switch(enc)} ELSE {})

TapHolds == IF tap = Nothing THEN {} ELSE {Switch(tap)}

\* A step that leaves down what is lost; a key that comes up is no slip any more.
Slips(lost) == slipped' = (slipped \union lost) \intersect keys'

\* Does a key that is pressed or released belong to the knob in hand?
Shares(id) == shared' = (shared \/ (enc \in Knobs /\ id = Switch(enc)))

-----------------------------------------------------------------------------
(* The hands *)

Pumped(what, at, down) ==
  /\ Len(queue) < MAX_QUEUE
  /\ queue' = Append(queue, [what |-> what, at |-> at, down |-> down])
  /\ UNCHANGED <<atWork, uiVars, tap, click, active_enc, keys, shared, slipped>>

PressKey(k) ==
  /\ k \notin fingers
  /\ fingers' = fingers \union {k}
  /\ Pumped("key", k, TRUE)
  /\ UNCHANGED <<mouse, ctrl, alt>>

ReleaseKey(k) ==
  /\ k \in fingers
  /\ fingers' = fingers \ {k}
  /\ Pumped("key", k, FALSE)
  /\ UNCHANGED <<mouse, ctrl, alt>>

\* SDL_GetModState() is what it is when an event is handled: a key that is down
\* may not be found again.
Modifier ==
  /\ \/ ctrl' = ~ ctrl /\ UNCHANGED alt
     \/ alt' = ~ alt /\ UNCHANGED ctrl
  /\ UNCHANGED <<atWork, fingers, mouse, queue, uiVars, tap, click, active_enc, keys, shared>>
  /\ Slips(TypedWith(ctrl, alt) \ TypedWith(ctrl', alt'))

MousePress(t) ==
  /\ mouse = Nothing
  /\ mouse' = t
  /\ Pumped("mouse", t, TRUE)
  /\ UNCHANGED <<fingers, ctrl, alt>>

MouseRelease ==
  /\ mouse # Nothing
  /\ mouse' = Nothing
  /\ Pumped("mouse", mouse, FALSE)
  /\ UNCHANGED <<fingers, ctrl, alt>>

MouseMove ==
  /\ mouse # Nothing
  /\ Pumped("move", mouse, TRUE)
  /\ UNCHANGED handVars

Wheel(t) ==
  /\ Pumped("wheel", t, TRUE)
  /\ UNCHANGED handVars

-----------------------------------------------------------------------------
(* The event loop *)

Head1 == Head(queue)
Handle(what) ==
  /\ queue # <<>> /\ Head1.what = what
  /\ queue' = Tail(queue)
  /\ UNCHANGED <<handVars, click>>

\* panel_key()
PanelKey(id, down) ==
  keys' = IF id = Nothing THEN keys ELSE IF down THEN keys \union {id} ELSE keys \ {id}

\* SDL_KEYDOWN and SDL_KEYUP: alt and a digit choose the wheel's encoder;
\* any other key is looked up with the ctrl of now.
KeyEvent ==
  /\ Handle("key")
  /\ LET id == Found(Head1.at, ctrl, alt) IN PanelKey(id, Head1.down) /\ Shares(id)
  /\ IF alt /\ Head1.at \in Digits /\ Head1.down THEN \E k \in Knobs : active_enc' = k ELSE UNCHANGED active_enc
  /\ Slips({})
  /\ UNCHANGED <<uiVars, tap>>

\* SDL_MOUSEWHEEL: the knob under it, or the chosen one; with ctrl the switch is
\* pressed, and released again, within the event.
WheelEvent ==
  /\ Handle("wheel")
  /\ LET k == IF Head1.at \in Knobs \union {Pot} THEN Head1.at ELSE active_enc
         id == IF ctrl /\ k # Pot THEN Switch(k) ELSE Nothing
     IN PanelKey(id, FALSE) /\ Shares(id)
  /\ Slips({})
  /\ UNCHANGED <<uiVars, tap, active_enc>>

\* Mutant of MouseDown: a drag does not forget the push of the one before.
MouseDownKeepsPush(t, withCtrl) ==
  \/ /\ t \in Buttons
     /\ btn' = t
     /\ PanelKey(t, TRUE)
     /\ UNCHANGED <<enc, push, turned, shared>>
  \/ /\ t \in Knobs \union {Pot}
     /\ enc' = t
     /\ turned' = FALSE
     /\ push' = (push \/ (withCtrl /\ t # Pot))
     /\ PanelKey(IF withCtrl /\ t # Pot THEN Switch(t) ELSE Nothing, TRUE)
     /\ shared' = (t \in Knobs /\ Switch(t) \in keys)
     /\ UNCHANGED btn

\* skin_mouse_down() on what skin_hit() found
MouseDown(t, withCtrl) ==
  \/ /\ t \in Buttons
     /\ btn' = t
     /\ PanelKey(t, TRUE)
     /\ UNCHANGED <<enc, push, turned, shared>>
  \/ /\ t \in Knobs \union {Pot}
     /\ enc' = t
     /\ turned' = FALSE
     /\ push' = (withCtrl /\ t # Pot)
     /\ PanelKey(IF push' THEN Switch(t) ELSE Nothing, TRUE)
     /\ shared' = (t \in Knobs /\ Switch(t) \in keys)
     /\ UNCHANGED btn

\* Mutant of MouseUp: a push-drag that has turned leaves its switch alone.
MouseUpNoPush ==
  /\ btn' = Nothing
  /\ enc' = Nothing
  /\ LET pushed == enc \in Knobs /\ push /\ ~ turned
         tapped == enc \in Knobs /\ ~ push /\ ~ turned
     IN /\ keys' = (keys \ ({btn} \union (IF pushed THEN {Switch(enc)} ELSE {})))
                     \union (IF tapped THEN {Switch(enc)} ELSE {})
        /\ tap' = IF tapped THEN enc ELSE tap
  /\ Slips(TapHolds \ TapHolds')
  /\ shared' = FALSE
  /\ UNCHANGED <<push, turned>>

\* skin_mouse_up(): a push-drag releases its switch, a plain click on a knob
\* presses it and leaves the release to skin_tick().
MouseUp ==
  /\ btn' = Nothing
  /\ enc' = Nothing
  /\ LET pushed == enc \in Knobs /\ push
         tapped == enc \in Knobs /\ ~ push /\ ~ turned
     IN /\ keys' = (keys \ ({btn} \union (IF pushed THEN {Switch(enc)} ELSE {})))
                     \union (IF tapped THEN {Switch(enc)} ELSE {})
        /\ tap' = IF tapped THEN enc ELSE tap
  /\ Slips(TapHolds \ TapHolds')
  /\ shared' = FALSE
  /\ UNCHANGED <<push, turned>>

MouseEvent ==
  /\ Handle("mouse")
  /\ \/ /\ Head1.down
        /\ MouseDown(Head1.at, ctrl)
        /\ Slips(GestureHolds \ GestureHolds')
        /\ UNCHANGED tap
     \/ ~ Head1.down /\ MouseUp
  /\ UNCHANGED active_enc

\* skin_mouse_motion(): by a detent or by less than one; the pot turns nothing
\* on the panel.
MoveEvent ==
  /\ Handle("move")
  /\ \/ enc \in Knobs /\ turned' = TRUE
     \/ UNCHANGED turned
  /\ UNCHANGED <<btn, enc, push, tap, active_enc, keys, shared, slipped>>

\* skin_tick(), with no event left: 90 ms have passed since the tap ...
TickTap ==
  /\ queue = <<>> /\ tap # Nothing
  /\ PanelKey(Switch(tap), FALSE) /\ Shares(Switch(tap))
  /\ tap' = Nothing
  /\ Slips({})
  /\ UNCHANGED <<handVars, queue, uiVars, click, active_enc>>

\* ... or 150 ms since the scripted click.
TickClick ==
  /\ queue = <<>> /\ click # Nothing
  /\ click' = Nothing
  /\ queue' = <<[what |-> "mouse", at |-> click, down |-> FALSE]>>
  /\ UNCHANGED <<handVars, uiVars, tap, active_enc, keys, shared, slipped>>

-----------------------------------------------------------------------------
(* A step of a script, before the events *)

\* skin_script_click(): nothing while another click is down.
ScriptClick(t) ==
  /\ queue = <<>> /\ click = Nothing
  /\ click' = t
  /\ queue' = <<[what |-> "mouse", at |-> t, down |-> TRUE]>>
  /\ UNCHANGED <<handVars, uiVars, tap, active_enc, keys, shared, slipped>>

\* skin_script_drag() on a knob: press, detents, release, all at once; without a
\* detent it is a tap.  What the mouse had in hand is dropped.
ScriptDrag(t, withPush, detents) ==
  /\ queue = <<>>
  /\ LET tapped == ~ withPush /\ ~ detents
     IN /\ keys' = (keys \ ({btn} \union (IF withPush THEN {Switch(t)} ELSE {})))
                     \union (IF tapped THEN {Switch(t)} ELSE {})
        /\ tap' = IF tapped THEN t ELSE tap
  /\ btn' = Nothing /\ enc' = Nothing
  /\ push' = withPush /\ turned' = detents
  /\ Slips((GestureHolds \union TapHolds) \ TapHolds')
  /\ shared' = FALSE
  /\ UNCHANGED <<handVars, queue, click, active_enc>>

Hands ==
  \/ "keys" \in atWork /\ \E k \in Keys : PressKey(k) \/ ReleaseKey(k)
  \/ Modifier
  \/ "mouse" \in atWork /\ (MouseRelease \/ MouseMove \/ \E t \in Hits : MousePress(t))
  \/ "wheel" \in atWork /\ \E t \in Knobs \union {Pot, Nothing} : Wheel(t)
InputLoop == KeyEvent \/ WheelEvent \/ MouseEvent \/ MoveEvent \/ TickTap \/ TickClick
Script ==
  /\ "script" \in atWork
  /\ \/ \E t \in Hits : ScriptClick(t)
     \/ \E t \in Knobs, withPush, detents \in BOOLEAN : ScriptDrag(t, withPush, detents)

InputNext == Hands \/ InputLoop \/ Script
InputSpec == InputInit /\ [][InputNext]_inputVars

-----------------------------------------------------------------------------
\* What is to release a key of the panel is over.
Still == fingers = {} /\ mouse = Nothing /\ click = Nothing /\ tap = Nothing /\ queue = <<>>

\* Whatever the hands and a script do together, and however late it is looked
\* at, a key of the panel stays down that nobody holds for one of three slips
\* only: ctrl or alt was changed while the key was down, and its release is
\* found as another (main.c:666-671); a tap of a second knob took the one place
\* for a release that is owed (skin.c:1096); or a gesture began inside another
\* (skin.c:1036-1046).  Only that key stays, and only until it is pressed again.
LetGo == Still => keys \subseteq slipped

\* The detents of a drag come with the switch of the knob down exactly when the
\* drag was begun with ctrl (skin.c:1041-1045, 1071-1080), unless the switch was
\* down before or the keyboard, the wheel or the end of a tap has pressed or
\* released it since: push and turned outlive the drag they are about.
DragAsMeant == enc \in Knobs => shared \/ (push <=> Switch(enc) \in keys)

\* "A plain click on a knob taps its switch" (skin.c:354-355): with nobody at the
\* keyboard and nothing under way no switch is down.
TapEnds == Still => keys \intersect Switches = {}
=============================================================================
