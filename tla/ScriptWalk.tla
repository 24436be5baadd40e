------------------------------ MODULE ScriptWalk ------------------------------
(***************************************************************************)
(* The scripted walk (script.c): one step per line, each an action and     *)
(* perhaps a condition, evaluated by script_step() in every pass of the    *)
(* main loop; and the slides and turns that run along (R[], ramp_advance). *)
(*                                                                         *)
(* The walk's clock is the guest's, the blocks of audio the audio thread   *)
(* has taken, and it goes on while a pass is under way: every look at it   *)
(* is a step of its own.  Times are in blocks, and each deadline is kept   *)
(* as the time that is left.  What a slide sends on its way is left out,   *)
(* as are screenshots, marks and the other actions without a state.        *)
(***************************************************************************)
EXTENDS Integers

CONSTANTS
  KINDS,      \* the kinds of step the walk may hold
  STEPS,      \* its lines
  ENCODERS,   \* the encoders it turns
  SLOTS,      \* the entries of R
  HOLD, GAP, SETTLE, VERIFY, TIMEOUT,   \* TAP_HOLD_MS and so on, per step
  OVER,       \* over_ms of a slide or turn
  DETENTS     \* times of a turn

Fader == "fader"
Controls == ENCODERS \union {Fader}

ASSUME WalkAssumption ==
  /\ KINDS \subseteq {"tap", "wait", "turn", "freeturn", "click"}
  /\ STEPS \in Nat
  /\ Fader \notin ENCODERS
  /\ SLOTS \in Nat \ {0}
  /\ HOLD \in Nat /\ GAP \in Nat /\ SETTLE \in Nat /\ VERIFY \in Nat /\ TIMEOUT \in Nat
  /\ OVER \in Nat \ {0} /\ DETENTS \in Nat \ {0}

VARIABLES
  pc,         \* "top" of a pass, "eval" in the loop of script_step(), "ended"
  lines,      \* of the script not read yet
  failed,
  have_step, step, phase, taps_left, gone_streak,
  t_phase, t_verify, t_deadline, t_wait,
  R,
  pressed,    \* is the key of the tap down?
  shown,      \* is the text the step names on the screen?
  lamp,       \* is the lamp as the step wants it?
  hidden,     \* did the last look fall into a repaint of that text?
  seenGone    \* did one of the looks since the text was last read, and since
              \* the last tap, find it really gone?

stepVars == <<have_step, step, phase, taps_left, gone_streak>>
timeVars == <<t_phase, t_verify, t_deadline, t_wait>>
lookVars == <<hidden, seenGone>>
guestVars == <<shown, lamp>>
scriptVars == <<pc, lines, failed, stepVars, timeVars, R, pressed, lookVars>>
vars == <<scriptVars, guestVars>>

Off == [on |-> FALSE, control |-> Fader, left |-> 0, done |-> 0]

NoStep == [action |-> "none", cond |-> "none", taps |-> 1, control |-> Fader,
           ride |-> FALSE, wait |-> 0, timed |-> FALSE]

-----------------------------------------------------------------------------
(* parse(): the steps there are *)

Screen == {"text", "gone", "lamp"}

StepRecords ==
  [action : {"none", "tap", "ramp", "click"}, cond : Screen \union {"none", "blocks"},
   taps : 1 .. 2, control : Controls, ride : BOOLEAN, wait : {0, 1, OVER}, timed : BOOLEAN]

\* A tap with a condition of the screen has a deadline, always.
Taps ==
  {s \in [action : {"tap"}, cond : Screen \union {"none"}, taps : 1 .. 2, control : {Fader},
          ride : BOOLEAN, wait : {0}, timed : BOOLEAN] : s.timed = (s.cond # "none")}

\* A wait has one if the line gives it, and it is advisory.
Waits ==
  [action : {"none"}, cond : Screen, taps : {1}, control : {Fader}, ride : {FALSE},
   wait : {0}, timed : BOOLEAN]
    \union {[NoStep EXCEPT !.cond = "blocks", !.wait = 1]}

\* "The slide IS the wait", unless the step has a condition of its own.
Turns ==
  {[NoStep EXCEPT !.action = "ramp", !.control = c, !.cond = "blocks", !.wait = OVER]
     : c \in Controls}

FreeTurns ==
  {[NoStep EXCEPT !.action = "ramp", !.control = c, !.cond = "blocks"] : c \in Controls}

\* "click" and "drag" are looked up in the skin and may not be there.
Clicks == {[NoStep EXCEPT !.action = "click"]}

Steps ==
  UNION {CASE k = "tap" -> Taps [] k = "wait" -> Waits [] k = "turn" -> Turns
           [] k = "freeturn" -> FreeTurns [] k = "click" -> Clicks
         : k \in KINDS}

Init ==
  /\ pc = "top" /\ lines = STEPS /\ failed = FALSE
  /\ have_step = FALSE /\ step = NoStep /\ phase = "act"
  /\ taps_left = 0 /\ gone_streak = 0
  /\ t_phase = 0 /\ t_verify = 0 /\ t_deadline = 0 /\ t_wait = 0
  /\ R = [i \in 0 .. SLOTS - 1 |-> Off]
  /\ pressed = FALSE
  /\ shown \in BOOLEAN /\ lamp \in BOOLEAN
  /\ hidden = FALSE /\ seenGone = FALSE

-----------------------------------------------------------------------------
(* Slides and turns *)

Drives(i, c) == R[i].on /\ R[i].control = c

\* Mutant of Chosen: the first free slot, whether or not one drives c already.
ChosenFree(i, c) ==
  \/ ~ R[i].on /\ \A j \in 0 .. i - 1 : R[j].on
  \/ i = 0 /\ \A j \in 0 .. SLOTS - 1 : R[j].on

\* ramp_slot(): the slot that drives c already, else the first free one, else
\* the first.
Chosen(i, c) ==
  \/ Drives(i, c) /\ \A j \in 0 .. i - 1 : ~ Drives(j, c)
  \/ /\ \A j \in 0 .. SLOTS - 1 : ~ Drives(j, c)
     /\ \/ ~ R[i].on /\ \A j \in 0 .. i - 1 : R[j].on
        \/ i = 0 /\ \A j \in 0 .. SLOTS - 1 : R[j].on

StartRamp(c) ==
  \E i \in 0 .. SLOTS - 1 :
    /\ Chosen(i, c)
    /\ R' = [R EXCEPT ![i] = [on |-> TRUE, control |-> c, left |-> OVER, done |-> 0]]

\* One pass of a slide or turn in flight; a turn sends the detents that are due.
Advance(r) ==
  LET due == (DETENTS * (OVER - r.left)) \div OVER IN
  IF ~ r.on THEN r
  ELSE IF r.control = Fader THEN (IF r.left = 0 THEN Off ELSE r)
  ELSE IF due = DETENTS THEN Off ELSE [r EXCEPT !.done = due]

\* The top of script_step(): ramp_advance().
AdvanceRamps ==
  /\ pc = "top"
  /\ pc' = "eval"
  /\ R' = [i \in 0 .. SLOTS - 1 |-> Advance(R[i])]
  /\ UNCHANGED <<lines, failed, stepVars, timeVars, pressed, lookVars>>

-----------------------------------------------------------------------------
(* The loop of script_step() *)

ReadStep ==
  /\ pc = "eval" /\ ~ have_step /\ lines > 0
  /\ lines' = lines - 1
  /\ step' \in Steps
  /\ have_step' = TRUE /\ phase' = "act" /\ gone_streak' = 0
  /\ t_deadline' = IF step'.timed THEN TIMEOUT ELSE 0
  /\ seenGone' = FALSE
  /\ UNCHANGED <<pc, failed, taps_left, t_phase, t_verify, t_wait, R, pressed, hidden>>

EndOfScript ==
  /\ pc = "eval" /\ ~ have_step
  /\ \/ lines = 0 /\ UNCHANGED failed
     \/ lines > 0 /\ failed' = TRUE        \* a line that is no step
  /\ pc' = "ended"
  /\ UNCHANGED <<lines, stepVars, timeVars, R, pressed, lookVars>>

Evaluating(p) == pc = "eval" /\ have_step /\ phase = p
Return == pc' = "top"

TapDown ==
  /\ pressed' = TRUE
  /\ phase' = "held"
  /\ t_phase' = HOLD
  /\ hidden' = FALSE /\ seenGone' = FALSE

StartPolling ==
  /\ phase' = "poll"
  /\ t_wait' = step.wait

ActTap ==
  /\ Evaluating("act") /\ step.action = "tap"
  /\ Return
  /\ IF step.ride THEN StartRamp(Fader) ELSE UNCHANGED R
  /\ taps_left' = step.taps
  /\ TapDown
  /\ UNCHANGED <<lines, failed, have_step, step, gone_streak, t_verify, t_deadline, t_wait>>

ActOther ==
  /\ Evaluating("act") /\ step.action # "tap"
  /\ Return
  /\ IF step.action = "ramp" THEN StartRamp(step.control) ELSE UNCHANGED R
  /\ StartPolling
  /\ UNCHANGED <<lines, failed, have_step, step, taps_left, gone_streak, t_phase, t_verify,
                 t_deadline, pressed, lookVars>>

ActFails ==
  /\ Evaluating("act") /\ step.action = "click"
  /\ pc' = "ended" /\ failed' = TRUE
  /\ UNCHANGED <<lines, stepVars, timeVars, R, pressed, lookVars>>

\* A phase whose time is not up ends the pass.
NotYet ==
  /\ \E p \in {"held", "gap", "settle"} : Evaluating(p)
  /\ t_phase > 0
  /\ Return
  /\ UNCHANGED <<lines, failed, stepVars, timeVars, R, pressed, lookVars>>

\* The key goes up: another tap is to follow, or the step is done, or it is
\* judged once the Octatrack has had time to act.
Release ==
  /\ Evaluating("held") /\ t_phase = 0
  /\ pressed' = FALSE
  /\ taps_left' = taps_left - 1
  /\ \/ /\ taps_left > 1
        /\ Return
        /\ phase' = "gap" /\ t_phase' = GAP
        /\ UNCHANGED <<have_step, t_verify>>
     \/ /\ taps_left = 1 /\ step.cond = "none"
        /\ have_step' = FALSE
        /\ UNCHANGED <<pc, phase, t_phase, t_verify>>
     \/ /\ taps_left = 1 /\ step.cond # "none"
        /\ Return
        /\ phase' = "settle" /\ t_phase' = SETTLE
        /\ t_verify' = VERIFY
        /\ UNCHANGED have_step
  /\ UNCHANGED <<lines, failed, step, gone_streak, t_deadline, t_wait, R, lookVars>>

TapAgain ==
  /\ Evaluating("gap") /\ t_phase = 0
  /\ Return
  /\ TapDown
  /\ UNCHANGED <<lines, failed, have_step, step, taps_left, gone_streak, t_verify, t_deadline,
                 t_wait, R>>

Settled ==
  /\ Evaluating("settle") /\ t_phase = 0
  /\ StartPolling
  /\ UNCHANGED <<pc, lines, failed, have_step, step, taps_left, gone_streak, t_phase, t_verify,
                 t_deadline, R, pressed, lookVars>>

-----------------------------------------------------------------------------
(* PH_POLL: cond_check(), and what follows from it *)

Met ==
  /\ have_step' = FALSE
  /\ UNCHANGED <<pc, lines, failed, step, phase, taps_left, t_phase, t_verify, t_deadline, t_wait,
                 R, pressed>>

\* Mutant of Expire: a tap is redone before its deadline is looked at.
ExpireAfterRetap ==
  /\ step.timed /\ t_deadline = 0
  /\ ~ (step.action = "tap" /\ t_verify = 0)
  /\ IF step.action = "tap"
     THEN pc' = "ended" /\ failed' = TRUE /\ UNCHANGED have_step
     ELSE have_step' = FALSE /\ UNCHANGED <<pc, failed>>
  /\ UNCHANGED <<phase, taps_left, t_phase, R, pressed>>

\* The deadline: a tap fails the walk, a wait is given up.
Expire ==
  /\ step.timed /\ t_deadline = 0
  /\ IF step.action = "tap"
     THEN pc' = "ended" /\ failed' = TRUE /\ UNCHANGED have_step
     ELSE have_step' = FALSE /\ UNCHANGED <<pc, failed>>
  /\ UNCHANGED <<phase, taps_left, t_phase, R, pressed>>

InTime == ~ (step.timed /\ t_deadline = 0)

LookAgain ==
  /\ InTime
  /\ ~ (step.action = "tap" /\ t_verify = 0)
  /\ Return
  /\ UNCHANGED <<failed, have_step, phase, taps_left, t_phase, R, pressed>>

\* The verify window has closed: the key was lost.
Retap ==
  /\ InTime
  /\ step.action = "tap" /\ t_verify = 0
  /\ Return
  /\ taps_left' = step.taps
  /\ TapDown
  /\ UNCHANGED <<failed, have_step, R>>

\* Mutant of PollGone: a retap keeps what was seen before it.
PollGoneKeep ==
  /\ Evaluating("poll") /\ step.cond = "gone"
  /\ \E blind \in IF hidden THEN {FALSE} ELSE BOOLEAN :
       LET present == shown /\ ~ blind IN
       \/ /\ ~ present /\ gone_streak > 0
          /\ gone_streak' = gone_streak + 1
          /\ hidden' = blind
          /\ seenGone' = (seenGone \/ ~ shown)
          /\ Met
       \/ /\ present \/ gone_streak = 0
          /\ gone_streak' = IF present THEN 0 ELSE 1
          /\ \/ /\ Expire \/ LookAgain
                /\ hidden' = blind
                /\ seenGone' = (~ present /\ (seenGone \/ ~ shown))
             \/ Retap
          /\ UNCHANGED <<lines, step, t_verify, t_deadline, t_wait>>

\* "gone" needs two looks in a row without the text, as one may fall into a
\* repaint; a repaint is taken not to last from one look to the next.  A retap
\* starts over.
PollGone ==
  /\ Evaluating("poll") /\ step.cond = "gone"
  /\ \E blind \in IF hidden THEN {FALSE} ELSE BOOLEAN :
       LET present == shown /\ ~ blind IN
       \/ /\ ~ present /\ gone_streak > 0
          /\ gone_streak' = gone_streak + 1
          /\ hidden' = blind
          /\ seenGone' = (seenGone \/ ~ shown)
          /\ Met
       \/ /\ present \/ gone_streak = 0
          /\ \/ /\ Expire \/ LookAgain
                /\ gone_streak' = IF present THEN 0 ELSE 1
                /\ hidden' = blind
                /\ seenGone' = (~ present /\ (seenGone \/ ~ shown))
             \/ Retap /\ gone_streak' = 0
          /\ UNCHANGED <<lines, step, t_verify, t_deadline, t_wait>>

\* A text or a lamp is there or it is not.
PollShown ==
  /\ Evaluating("poll") /\ step.cond \in {"text", "lamp"}
  /\ IF step.cond = "text" THEN shown ELSE lamp
  /\ Met
  /\ UNCHANGED <<gone_streak, lookVars>>

PollNotShown ==
  /\ Evaluating("poll") /\ step.cond \in {"text", "lamp"}
  /\ ~ (IF step.cond = "text" THEN shown ELSE lamp)
  /\ \/ (Expire \/ LookAgain) /\ UNCHANGED <<gone_streak, lookVars>>
     \/ Retap /\ gone_streak' = 0
  /\ UNCHANGED <<lines, step, t_verify, t_deadline, t_wait>>

\* No condition, or a wait in blocks.
PollBlocks ==
  /\ Evaluating("poll") /\ step.cond \in {"none", "blocks"}
  /\ t_wait = 0
  /\ Met
  /\ UNCHANGED <<gone_streak, lookVars>>

\* It is not time to look yet, or the blocks have not passed.
PollLater ==
  /\ Evaluating("poll")
  /\ \/ step.cond \in {"text", "gone"}
     \/ step.cond = "blocks" /\ t_wait > 0
  /\ Return
  /\ UNCHANGED <<lines, failed, stepVars, timeVars, R, pressed, lookVars>>

-----------------------------------------------------------------------------
Less(t) == IF t > 0 THEN t - 1 ELSE 0

\* The audio thread takes a block.
Block ==
  /\ pc # "ended"
  /\ t_phase' = Less(t_phase) /\ t_verify' = Less(t_verify)
  /\ t_deadline' = Less(t_deadline) /\ t_wait' = Less(t_wait)
  /\ R' = [i \in 0 .. SLOTS - 1 |-> [R[i] EXCEPT !.left = Less(R[i].left)]]
  /\ UNCHANGED <<pc, lines, failed, stepVars, pressed, lookVars, guestVars>>

\* The guest draws.
Draw ==
  /\ pc # "ended"
  /\ \/ shown' = ~ shown /\ UNCHANGED lamp
     \/ lamp' = ~ lamp /\ UNCHANGED shown
  /\ UNCHANGED scriptVars

Look == PollGone \/ PollShown \/ PollNotShown

Script ==
  \/ AdvanceRamps \/ ReadStep \/ EndOfScript
  \/ ActTap \/ ActOther \/ ActFails
  \/ NotYet \/ Release \/ TapAgain \/ Settled
  \/ Look \/ PollBlocks \/ PollLater

Next == (Script /\ UNCHANGED guestVars) \/ Block \/ Draw

Spec == Init /\ [][Next]_vars

\* The main loop goes on, the guest makes sound, and every 250 ms of wall time
\* it is time to look.
FairSpec ==
  /\ Spec
  /\ WF_vars(Script /\ UNCHANGED guestVars) /\ SF_vars(Look /\ UNCHANGED guestVars)
  /\ WF_vars(Block)

-----------------------------------------------------------------------------
Ramps == [on : BOOLEAN, control : Controls, left : 0 .. OVER, done : 0 .. DETENTS]

TypeOK ==
  /\ pc \in {"top", "eval", "ended"}
  /\ lines \in 0 .. STEPS
  /\ failed \in BOOLEAN /\ have_step \in BOOLEAN /\ pressed \in BOOLEAN
  /\ shown \in BOOLEAN /\ lamp \in BOOLEAN /\ hidden \in BOOLEAN /\ seenGone \in BOOLEAN
  /\ step \in StepRecords
  /\ phase \in {"act", "held", "gap", "settle", "poll"}
  /\ taps_left \in 0 .. 2 /\ gone_streak \in 0 .. 2
  /\ t_phase \in Nat /\ t_verify \in 0 .. VERIFY
  /\ t_deadline \in 0 .. TIMEOUT /\ t_wait \in Nat
  /\ R \in [0 .. SLOTS - 1 -> Ramps]

\* A step that waited for something to go, and did not run out of time, did see
\* it gone, and after the last tap: neither a repaint nor what it saw before a
\* retap can make it pass (script.c:371-377, 665-669).
GoneSeen ==
  [][Evaluating("poll") /\ step.cond = "gone" /\ InTime /\ ~ have_step' => seenGone']_vars

\* A control is driven by one slide or turn: two would pull it to and fro
\* (script.c:111-124).
OneRampPerControl ==
  \A i, j \in 0 .. SLOTS - 1 :
    R[i].on /\ R[j].on /\ R[i].control = R[j].control => i = j

\* A step with a deadline, or that waits for time only, comes to an end: the
\* deadline is judged in the polls, and retaps keep leaving them
\* (script.c:653-670).
StepsEnd ==
  (have_step /\ (step.timed \/ step.cond \in {"none", "blocks"}))
    ~> (~ have_step \/ pc = "ended")

\* A turn that has begun is turned to its end while the walk goes on, though no
\* step waits for it (script.c:537-564).
RampsEnd ==
  \A i \in 0 .. SLOTS - 1 : R[i].on ~> (~ R[i].on \/ pc = "ended")

\* The walk goes on: neither a step nor a turn of it lasts for ever, though
\* each may outlive the other (script.c:537-564, 653-670).
WalkGoesOn == StepsEnd /\ RampsEnd
=============================================================================
