--------------------------- MODULE ScriptWalkProofs ---------------------------
(***************************************************************************)
(* For any script, any number of slots and any times: the walk is well     *)
(* typed, a control has one ramp, and what a step waited to see gone was   *)
(* seen gone.                                                              *)
(***************************************************************************)
EXTENDS ScriptWalk, TLAPS

Slots == 0 .. SLOTS - 1

\* The looks that count towards "gone" were not all into one repaint.
StreakOK ==
  have_step =>
    /\ gone_streak < 2
    /\ gone_streak > 0 => phase = "poll" /\ (hidden \/ seenGone)

Inv == TypeOK /\ OneRampPerControl /\ StreakOK

-----------------------------------------------------------------------------
(* Steps and ramps *)

\* A step parse() makes has the fields the walker reads.
LEMMA StepsTyped == Steps \union {NoStep} \subseteq StepRecords
  <1> USE WalkAssumption
  <1>1. NoStep \in StepRecords
    BY DEF NoStep, StepRecords, Controls, Screen
  <1>2. ASSUME NEW s \in Taps PROVE s \in StepRecords
    BY <1>2 DEF Taps, StepRecords, Controls
  <1>3. ASSUME NEW s \in Waits PROVE s \in StepRecords
    <2>1. CASE s = [NoStep EXCEPT !.cond = "blocks", !.wait = 1]
      BY <1>1, <2>1 DEF StepRecords
    <2>2. CASE s # [NoStep EXCEPT !.cond = "blocks", !.wait = 1]
      <3>1. s \in [action : {"none"}, cond : Screen, taps : {1}, control : {Fader},
                    ride : {FALSE}, wait : {0}, timed : BOOLEAN]
        BY <1>3, <2>2, Zenon DEF Waits
      <3>2. {FALSE} \subseteq BOOLEAN /\ {1} \subseteq 1 .. 2 /\ {"none"} \subseteq {"none", "tap", "ramp", "click"}
        OBVIOUS
      <3>3. {Fader} \subseteq Controls /\ {0} \subseteq {0, 1, OVER}
        BY DEF Controls
      <3> QED
        BY ONLY <3>1, <3>2, <3>3 DEF StepRecords
    <2> QED
      BY <2>1, <2>2
  <1>4. ASSUME NEW s \in Turns PROVE s \in StepRecords
    <2> PICK c \in Controls :
          s = [NoStep EXCEPT !.action = "ramp", !.control = c, !.cond = "blocks", !.wait = OVER]
      BY <1>4 DEF Turns
    <2> QED
      BY <1>1 DEF StepRecords
  <1>5. ASSUME NEW s \in FreeTurns PROVE s \in StepRecords
    <2> PICK c \in Controls :
          s = [NoStep EXCEPT !.action = "ramp", !.control = c, !.cond = "blocks"]
      BY <1>5 DEF FreeTurns
    <2> QED
      BY <1>1 DEF StepRecords
  <1>6. ASSUME NEW s \in Clicks PROVE s \in StepRecords
    BY <1>1, <1>6 DEF Clicks, StepRecords
  <1>7. ASSUME NEW k \in KINDS,
               NEW s \in CASE k = "tap" -> Taps [] k = "wait" -> Waits [] k = "turn" -> Turns
                           [] k = "freeturn" -> FreeTurns [] k = "click" -> Clicks
        PROVE  s \in StepRecords
    BY <1>2, <1>3, <1>4, <1>5, <1>6, <1>7
  <1> QED
    BY <1>1, <1>7 DEF Steps

\* The detents that are due never exceed those of the turn.
LEMMA DueBounded ==
  ASSUME NEW l \in 0 .. OVER
  PROVE  (DETENTS * (OVER - l)) \div OVER \in 0 .. DETENTS
  <1> DEFINE n == DETENTS * (OVER - l)
             q == n \div OVER
  <1>1. DETENTS \in Nat /\ OVER \in Nat /\ OVER > 0
    BY WalkAssumption
  <1>2. n \in Nat /\ n =< DETENTS * OVER
    BY <1>1
  <1>3. q \in Nat /\ OVER * q =< n
    BY <1>1, <1>2
  <1>4. ASSUME q > DETENTS PROVE FALSE
    BY <1>1, <1>2, <1>3, <1>4
  <1> QED
    BY <1>1, <1>3, <1>4

LEMMA AdvanceTyped ==
  ASSUME NEW r \in Ramps
  PROVE  /\ Advance(r) \in Ramps
         /\ Advance(r).on => r.on /\ Advance(r).control = r.control
  <1> DEFINE due == (DETENTS * (OVER - r.left)) \div OVER
  <1>1. due \in 0 .. DETENTS
    BY DueBounded DEF Ramps
  <1>2. Off \in Ramps /\ ~ Off.on
    BY WalkAssumption DEF Off, Ramps, Controls
  <1>3. [r EXCEPT !.done = due] \in Ramps
    BY <1>1 DEF Ramps
  <1>4. [r EXCEPT !.done = due].on = r.on /\ [r EXCEPT !.done = due].control = r.control
    BY DEF Ramps
  <1> HIDE DEF due
  <1>5. \/ Advance(r) = r
        \/ Advance(r) = Off
        \/ r.on /\ Advance(r) = [r EXCEPT !.done = due]
    BY DEF Advance, due
  <1> QED
    BY <1>2, <1>3, <1>4, <1>5

\* Starting a slide or turn keeps to one for each control.
LEMMA StartKeepsOne ==
  ASSUME R \in [Slots -> Ramps], OneRampPerControl,
         NEW c \in Controls, StartRamp(c)
  PROVE  R' \in [Slots -> Ramps] /\ OneRampPerControl'
  <1> DEFINE new == [on |-> TRUE, control |-> c, left |-> OVER, done |-> 0]
  <1> PICK i \in Slots : Chosen(i, c) /\ R' = [R EXCEPT ![i] = new]
    BY DEF StartRamp, Slots
  <1>1. new \in Ramps
    BY WalkAssumption DEF Ramps
  <1>2. R' \in [Slots -> Ramps]
    BY <1>1
  <1>3. \A j \in Slots : j # i => ~ Drives(j, c)
    <2>1. CASE Drives(i, c)
      BY <2>1 DEF Drives, OneRampPerControl, Slots
    <2>2. CASE \A j \in 0 .. SLOTS - 1 : ~ Drives(j, c)
      BY <2>2 DEF Slots
    <2> QED
      BY <2>1, <2>2 DEF Chosen
  <1>4. \A j \in Slots : j # i => R'[j] = R[j]
    OBVIOUS
  <1>5. R'[i].control = c
    OBVIOUS
  <1>6. OneRampPerControl'
    BY <1>3, <1>4, <1>5 DEF OneRampPerControl, Drives, Slots
  <1> QED
    BY <1>2, <1>6

-----------------------------------------------------------------------------
(* The invariant *)

LEMMA Initial == Init => Inv
  <1> SUFFICES ASSUME Init PROVE Inv
    OBVIOUS
  <1> USE DEF Init
  <1>1. Off \in Ramps
    BY WalkAssumption DEF Off, Ramps, Controls
  <1>2. R \in [Slots -> Ramps] /\ \A i \in Slots : ~ R[i].on
    BY <1>1 DEF Off, Slots
  <1>3. step \in StepRecords
    BY StepsTyped
  <1>4. TypeOK
    <2>1. R \in [0 .. SLOTS - 1 -> Ramps]
      BY <1>2 DEF Slots
    <2>2. /\ pc \in {"top", "eval", "ended"}
          /\ phase \in {"act", "held", "gap", "settle", "poll"}
      OBVIOUS
    <2>3. /\ failed \in BOOLEAN /\ have_step \in BOOLEAN /\ pressed \in BOOLEAN
          /\ shown \in BOOLEAN /\ lamp \in BOOLEAN /\ hidden \in BOOLEAN /\ seenGone \in BOOLEAN
      OBVIOUS
    <2>4. /\ lines \in 0 .. STEPS /\ taps_left \in 0 .. 2 /\ gone_streak \in 0 .. 2
          /\ t_phase \in Nat /\ t_verify \in 0 .. VERIFY
          /\ t_deadline \in 0 .. TIMEOUT /\ t_wait \in Nat
      BY WalkAssumption
    <2> QED
      BY <1>3, <2>1, <2>2, <2>3, <2>4 DEF TypeOK
  <1>5. OneRampPerControl
    BY <1>2 DEF OneRampPerControl, Slots
  <1> QED
    BY <1>4, <1>5 DEF Inv, StreakOK

\* What the script does to R, in every step.
LEMMA RampsStep ==
  ASSUME TypeOK, OneRampPerControl, [Next]_vars
  PROVE  R' \in [Slots -> Ramps] /\ OneRampPerControl'
  <1>1. R \in [Slots -> Ramps]
    BY DEF TypeOK, Slots
  <1>2. CASE UNCHANGED R
    BY <1>1, <1>2 DEF OneRampPerControl
  <1>3. CASE AdvanceRamps
    <2>1. R' = [i \in Slots |-> Advance(R[i])]
      BY <1>3 DEF AdvanceRamps, Slots
    <2>2. ASSUME NEW i \in Slots
          PROVE  R'[i] \in Ramps /\ (R'[i].on => R[i].on /\ R'[i].control = R[i].control)
      BY <1>1, <2>1, AdvanceTyped
    <2>3. R' \in [Slots -> Ramps]
      <3>1. \A i \in Slots : R'[i] \in Ramps
        BY <2>2
      <3> QED
        BY <2>1, <3>1
    <2>4. OneRampPerControl'
      <3> SUFFICES ASSUME NEW i \in Slots, NEW j \in Slots, R'[i].on, R'[j].on,
                          R'[i].control = R'[j].control
                   PROVE  i = j
        BY DEF OneRampPerControl, Slots
      <3>1. R[i].on /\ R[i].control = R'[i].control
        BY <2>2, Zenon
      <3>2. R[j].on /\ R[j].control = R'[j].control
        BY <2>2, Zenon
      <3> QED
        BY <3>1, <3>2 DEF OneRampPerControl, Slots
    <2> QED
      BY <2>3, <2>4
  <1>4. CASE ActTap \/ ActOther
    <2>0. step.control \in Controls /\ Fader \in Controls
      BY DEF TypeOK, StepRecords, Controls
    <2>1. UNCHANGED R \/ StartRamp(Fader) \/ StartRamp(step.control)
      <3>1. CASE ActTap
        BY <3>1 DEF ActTap
      <3>2. CASE ActOther
        BY <3>2 DEF ActOther
      <3> QED
        BY <1>4, <3>1, <3>2
    <2> QED
      BY <1>1, <1>2, <2>0, <2>1, StartKeepsOne
  <1>5. CASE Block
    <2>1. R' = [i \in Slots |-> [R[i] EXCEPT !.left = Less(R[i].left)]]
      BY <1>5 DEF Block, Slots
    <2>2. ASSUME NEW i \in Slots
          PROVE  R'[i] \in Ramps /\ (R'[i].on => R[i].on /\ R'[i].control = R[i].control)
      <3>1. R[i] \in Ramps
        BY <1>1
      <3>2. Less(R[i].left) \in 0 .. OVER
        BY <3>1, WalkAssumption DEF Less, Ramps
      <3> QED
        BY <2>1, <3>1, <3>2 DEF Ramps
    <2>3. R' \in [Slots -> Ramps]
      <3>1. \A i \in Slots : R'[i] \in Ramps
        BY <2>2
      <3> QED
        BY <2>1, <3>1
    <2>4. OneRampPerControl'
      <3> SUFFICES ASSUME NEW i \in Slots, NEW j \in Slots, R'[i].on, R'[j].on,
                          R'[i].control = R'[j].control
                   PROVE  i = j
        BY DEF OneRampPerControl, Slots
      <3>1. R[i].on /\ R[i].control = R'[i].control
        BY <2>2, Zenon
      <3>2. R[j].on /\ R[j].control = R'[j].control
        BY <2>2, Zenon
      <3> QED
        BY <3>1, <3>2 DEF OneRampPerControl, Slots
    <2> QED
      BY <2>3, <2>4
  <1>6. CASE Script /\ ~ (AdvanceRamps \/ ActTap \/ ActOther)
    <2>1. UNCHANGED R
      <3>1. CASE ReadStep \/ EndOfScript \/ ActFails \/ NotYet \/ PollLater
        BY <3>1 DEF ReadStep, EndOfScript, ActFails, NotYet, PollLater
      <3>2. CASE Release \/ TapAgain \/ Settled
        BY <3>2 DEF Release, TapAgain, Settled
      <3>3. CASE PollGone
        BY <3>3 DEF PollGone, Met, Expire, LookAgain, Retap
      <3>4. CASE PollShown \/ PollNotShown \/ PollBlocks
        BY <3>4 DEF PollShown, PollNotShown, PollBlocks, Met, Expire, LookAgain, Retap
      <3> QED
        BY <1>6, <3>1, <3>2, <3>3, <3>4 DEF Script, Look
    <2> QED
      BY <1>2, <2>1
  <1>7. CASE Draw \/ UNCHANGED vars
    BY <1>2, <1>7 DEF Draw, vars, scriptVars
  <1> QED
    BY <1>3, <1>4, <1>5, <1>6, <1>7 DEF Next

\* TypeOK in parts: where the walk is, and its numbers.
PlaceOK ==
  /\ pc \in {"top", "eval", "ended"}
  /\ phase \in {"act", "held", "gap", "settle", "poll"}
  /\ step \in StepRecords

FlagsOK ==
  /\ failed \in BOOLEAN /\ have_step \in BOOLEAN /\ pressed \in BOOLEAN
  /\ shown \in BOOLEAN /\ lamp \in BOOLEAN /\ hidden \in BOOLEAN /\ seenGone \in BOOLEAN

NumbersOK ==
  /\ lines \in 0 .. STEPS /\ taps_left \in 0 .. 2
  /\ t_phase \in Nat /\ t_verify \in 0 .. VERIFY
  /\ t_deadline \in 0 .. TIMEOUT /\ t_wait \in Nat

LEMMA TypeParts ==
  TypeOK <=> PlaceOK /\ FlagsOK /\ NumbersOK /\ gone_streak \in 0 .. 2 /\ R \in [Slots -> Ramps]
BY DEF TypeOK, PlaceOK, FlagsOK, NumbersOK, Slots

LEMMA PlaceStep ==
  ASSUME PlaceOK, [Next]_vars
  PROVE  PlaceOK'
  <1> USE DEF PlaceOK
  <1>1. CASE AdvanceRamps \/ ReadStep \/ EndOfScript
    BY <1>1, StepsTyped DEF AdvanceRamps, ReadStep, EndOfScript, stepVars
  <1>2. CASE ActTap \/ ActOther \/ ActFails
    BY <1>2 DEF ActTap, ActOther, ActFails, TapDown, StartPolling, Return, stepVars
  <1>3. CASE NotYet \/ Release \/ TapAgain \/ Settled
    BY <1>3 DEF NotYet, Release, TapAgain, Settled, TapDown, StartPolling, Return, stepVars
  <1>4. CASE PollGone
    BY <1>4 DEF PollGone, Met, Expire, LookAgain, Retap, TapDown, Return
  <1>5. CASE PollShown \/ PollNotShown
    BY <1>5 DEF PollShown, PollNotShown, Met, Expire, LookAgain, Retap, TapDown, Return
  <1>6. CASE PollBlocks \/ PollLater
    BY <1>6 DEF PollBlocks, PollLater, Met, Return, stepVars
  <1>7. CASE Block \/ Draw \/ UNCHANGED vars
    BY <1>7 DEF Block, Draw, vars, scriptVars, stepVars
  <1> QED
    BY <1>1, <1>2, <1>3, <1>4, <1>5, <1>6, <1>7 DEF Next, Script, Look

LEMMA NumbersStep ==
  ASSUME PlaceOK, NumbersOK, [Next]_vars
  PROVE  NumbersOK'
  <1> USE WalkAssumption DEF NumbersOK
  <1>1. CASE AdvanceRamps \/ ReadStep \/ EndOfScript
    BY <1>1 DEF AdvanceRamps, ReadStep, EndOfScript, stepVars, timeVars
  <1>2. CASE ActTap \/ ActOther \/ ActFails
    <2>1. step.taps \in 1 .. 2 /\ step.wait \in Nat
      BY DEF PlaceOK, StepRecords
    <2> QED
      BY <1>2, <2>1 DEF ActTap, ActOther, ActFails, TapDown, StartPolling, stepVars, timeVars
  <1>3. CASE NotYet \/ Release \/ TapAgain \/ Settled
    <2>1. step.wait \in Nat
      BY DEF PlaceOK, StepRecords
    <2> QED
      BY <1>3, <2>1 DEF NotYet, Release, TapAgain, Settled, TapDown, StartPolling, stepVars, timeVars
  <1>4. CASE PollGone
    <2>1. step.taps \in 1 .. 2
      BY DEF PlaceOK, StepRecords
    <2> QED
      BY <1>4, <2>1 DEF PollGone, Met, Expire, LookAgain, Retap, TapDown
  <1>5. CASE PollShown \/ PollNotShown
    <2>1. step.taps \in 1 .. 2
      BY DEF PlaceOK, StepRecords
    <2> QED
      BY <1>5, <2>1 DEF PollShown, PollNotShown, Met, Expire, LookAgain, Retap, TapDown
  <1>6. CASE PollBlocks \/ PollLater
    BY <1>6 DEF PollBlocks, PollLater, Met, stepVars, timeVars
  <1>7. CASE Block
    <2>1. /\ t_phase' = Less(t_phase) /\ t_verify' = Less(t_verify)
          /\ t_deadline' = Less(t_deadline) /\ t_wait' = Less(t_wait)
          /\ UNCHANGED <<lines, taps_left>>
      BY <1>7 DEF Block, stepVars
    <2> QED
      BY <2>1 DEF Less
  <1>8. CASE Draw \/ UNCHANGED vars
    <2>1. UNCHANGED <<lines, taps_left, t_phase, t_verify, t_deadline, t_wait>>
      BY <1>8 DEF Draw, vars, scriptVars, stepVars, timeVars
    <2> QED
      BY <2>1
  <1> QED
    BY <1>1, <1>2, <1>3, <1>4, <1>5, <1>6, <1>7, <1>8 DEF Next, Script, Look

LEMMA FlagsStep ==
  ASSUME FlagsOK, [Next]_vars
  PROVE  FlagsOK'
  <1> USE DEF FlagsOK
  <1>1. shown' \in BOOLEAN /\ lamp' \in BOOLEAN
    BY DEF Next, Block, Draw, guestVars, vars
  <1>2. CASE AdvanceRamps \/ ReadStep \/ EndOfScript
    BY <1>1, <1>2 DEF AdvanceRamps, ReadStep, EndOfScript, stepVars, lookVars
  <1>3. CASE ActTap \/ ActOther \/ ActFails
    BY <1>1, <1>3 DEF ActTap, ActOther, ActFails, TapDown, stepVars, lookVars
  <1>4. CASE NotYet \/ Release \/ TapAgain \/ Settled
    BY <1>1, <1>4 DEF NotYet, Release, TapAgain, Settled, TapDown, stepVars, lookVars
  <1>5. CASE PollGone
    BY <1>1, <1>5 DEF PollGone, Met, Expire, LookAgain, Retap, TapDown
  <1>6. CASE PollShown \/ PollNotShown
    BY <1>1, <1>6 DEF PollShown, PollNotShown, Met, Expire, LookAgain, Retap, TapDown, lookVars
  <1>7. CASE PollBlocks \/ PollLater
    BY <1>1, <1>7 DEF PollBlocks, PollLater, Met, stepVars, lookVars
  <1>8. CASE Block \/ Draw \/ UNCHANGED vars
    BY <1>1, <1>8 DEF Block, Draw, vars, scriptVars, stepVars, lookVars
  <1> QED
    BY <1>2, <1>3, <1>4, <1>5, <1>6, <1>7, <1>8 DEF Next, Script, Look

LEMMA StreakStep ==
  ASSUME FlagsOK, gone_streak \in 0 .. 2, StreakOK, [Next]_vars
  PROVE  gone_streak' \in 0 .. 2 /\ StreakOK'
  <1>1. CASE ReadStep
    <2>1. gone_streak' = 0
      BY <1>1 DEF ReadStep
    <2> QED
      BY <2>1 DEF StreakOK
  <1>2. CASE AdvanceRamps \/ EndOfScript \/ ActFails \/ NotYet \/ PollLater \/ Block \/ Draw
             \/ UNCHANGED vars
    <2>1. UNCHANGED <<have_step, phase, gone_streak, hidden, seenGone>>
      BY <1>2 DEF AdvanceRamps, EndOfScript, ActFails, NotYet, PollLater, Block, Draw, vars,
                  scriptVars, stepVars, lookVars
    <2> QED
      BY <2>1 DEF StreakOK
  <1>3. CASE ActTap \/ ActOther \/ Release \/ TapAgain \/ Settled
    <2>1. UNCHANGED gone_streak /\ have_step /\ phase # "poll"
      BY <1>3 DEF ActTap, ActOther, Release, TapAgain, Settled, Evaluating
    <2>2. gone_streak = 0
      BY <2>1 DEF StreakOK
    <2> QED
      BY <2>1, <2>2 DEF StreakOK
  <1>4. CASE PollGone
    <2> have_step /\ phase = "poll"
      BY <1>4 DEF PollGone, Evaluating
    <2> gone_streak < 2
      BY DEF StreakOK
    <2> PICK blind \in (IF hidden THEN {FALSE} ELSE BOOLEAN) :
          LET present == shown /\ ~ blind IN
          \/ /\ ~ present /\ gone_streak > 0
             /\ gone_streak' = gone_streak + 1
             /\ hidden' = blind
             /\ seenGone' = (seenGone \/ ~ shown)
             /\ Met
          \/ /\ present \/ gone_streak = 0
             /\ \/ /\ Expire \/ LookAgain
                   /\ gone_streak' = IF present THEN 0 ELSE 1
                   /\ hidden' = blind
                   /\ seenGone' = (~ present /\ (seenGone \/ ~ shown))
                \/ Retap /\ gone_streak' = 0
      BY <1>4 DEF PollGone
    <2>1. CASE Met /\ gone_streak' = gone_streak + 1
      BY <2>1 DEF Met, StreakOK
    <2>2. CASE gone_streak' = 0
      BY <2>2 DEF StreakOK
    <2>3. CASE /\ Expire \/ LookAgain
               /\ gone_streak' = 1
               /\ ~ (shown /\ ~ blind)
               /\ hidden' = blind
               /\ seenGone' = (~ (shown /\ ~ blind) /\ (seenGone \/ ~ shown))
      <3>1. phase' = "poll"
        BY <2>3 DEF Expire, LookAgain
      <3>2. hidden' \/ seenGone'
        BY <2>3
      <3> QED
        BY <2>3, <3>1, <3>2 DEF StreakOK
    <2> QED
      BY <2>1, <2>2, <2>3
  <1>5. CASE PollShown \/ PollNotShown \/ PollBlocks
    <2>1. CASE gone_streak' = 0
      BY <2>1 DEF StreakOK
    <2>2. CASE gone_streak' # 0
      <3>1. UNCHANGED <<gone_streak, hidden, seenGone>>
        BY <1>5, <2>2 DEF PollShown, PollNotShown, PollBlocks, lookVars
      <3>2. have_step /\ UNCHANGED phase
        BY <1>5, <2>2 DEF PollShown, PollNotShown, PollBlocks, Met, Expire, LookAgain, Evaluating
      <3> QED
        BY <3>1, <3>2 DEF StreakOK
    <2> QED
      BY <2>1, <2>2
  <1> QED
    BY <1>1, <1>2, <1>3, <1>4, <1>5 DEF Next, Script, Look

\* A step that ends its wait for something to go, in time, has seen it gone.
LEMMA GoneStep ==
  ASSUME FlagsOK, gone_streak \in 0 .. 2, StreakOK, [Next]_vars,
         Evaluating("poll"), step.cond = "gone", InTime, ~ have_step'
  PROVE  seenGone'
  <1>1. have_step /\ phase = "poll" /\ pc = "eval"
    BY DEF Evaluating
  <1>2. PollGone
    <2>1. ~ (AdvanceRamps \/ ReadStep \/ EndOfScript \/ ActTap \/ ActOther \/ ActFails)
      BY <1>1 DEF AdvanceRamps, ReadStep, EndOfScript, ActTap, ActOther, ActFails, Evaluating
    <2>2. ~ (NotYet \/ Release \/ TapAgain \/ Settled)
      BY <1>1 DEF NotYet, Release, TapAgain, Settled, Evaluating
    <2>3. ~ (PollShown \/ PollNotShown \/ PollBlocks)
      BY DEF PollShown, PollNotShown, PollBlocks
    <2>4. ~ (PollLater \/ Block \/ Draw \/ UNCHANGED vars)
      BY <1>1 DEF PollLater, Block, Draw, vars, scriptVars, stepVars
    <2> QED
      BY <2>1, <2>2, <2>3, <2>4 DEF Next, Script, Look
  <1>3. ~ Expire /\ ~ LookAgain /\ ~ Retap
    BY <1>1 DEF Expire, LookAgain, Retap, InTime
  <1> PICK blind \in (IF hidden THEN {FALSE} ELSE BOOLEAN) :
         /\ ~ (shown /\ ~ blind) /\ gone_streak > 0
         /\ seenGone' = (seenGone \/ ~ shown)
    BY <1>2, <1>3 DEF PollGone
  <1>4. hidden \/ seenGone
    BY <1>1 DEF StreakOK
  <1>5. CASE hidden
    <2>1. ~ blind
      BY <1>5
    <2> QED
      BY <2>1
  <1>6. CASE seenGone
    BY <1>6
  <1> QED
    BY <1>4, <1>5, <1>6

LEMMA Step ==
  ASSUME Inv, [Next]_vars
  PROVE  Inv'
  <1>1. PlaceOK /\ FlagsOK /\ NumbersOK /\ gone_streak \in 0 .. 2
    BY TypeParts DEF Inv
  <1>2. R' \in [Slots -> Ramps] /\ OneRampPerControl'
    BY RampsStep DEF Inv
  <1>3. PlaceOK' /\ FlagsOK' /\ NumbersOK'
    BY <1>1, PlaceStep, FlagsStep, NumbersStep
  <1>4. gone_streak' \in 0 .. 2 /\ StreakOK'
    BY <1>1, StreakStep DEF Inv
  <1>5. TypeOK'
    BY <1>2, <1>3, <1>4, Zenon DEF TypeOK, PlaceOK, FlagsOK, NumbersOK, Slots
  <1> QED
    BY <1>2, <1>4, <1>5 DEF Inv

\* The invariant holds in every reachable state.
THEOREM Invariance == Spec => []Inv
  <1>1. Inv /\ [Next]_vars => Inv'
    BY Step
  <1> QED
    BY Initial, <1>1, PTL DEF Spec

-----------------------------------------------------------------------------
(* The properties *)

\* Every reachable state is well typed (script.c:127-137).
THEOREM TypeCorrect == Spec => []TypeOK
  <1>1. Inv => TypeOK
    BY DEF Inv
  <1> QED
    BY Invariance, <1>1, PTL

\* No control is driven by two slides or turns at once (script.c:111-124).
THEOREM OneDriver == Spec => []OneRampPerControl
  <1>1. Inv => OneRampPerControl
    BY DEF Inv
  <1> QED
    BY Invariance, <1>1, PTL

\* A step that waited for something to go and ended in time saw it gone, after
\* its last tap (script.c:349-377, 665-669).
THEOREM GoneIsSeen == Spec => GoneSeen
  <1>1. Inv /\ [Next]_vars
          => [Evaluating("poll") /\ step.cond = "gone" /\ InTime /\ ~ have_step' => seenGone']_vars
    <2> SUFFICES ASSUME Inv, [Next]_vars,
                        Evaluating("poll"), step.cond = "gone", InTime, ~ have_step'
                 PROVE  seenGone'
      OBVIOUS
    <2>1. FlagsOK /\ gone_streak \in 0 .. 2 /\ StreakOK
      BY TypeParts DEF Inv
    <2> QED
      BY <2>1, GoneStep
  <1> QED
    BY Invariance, <1>1, PTL DEF Spec, GoneSeen
=============================================================================
