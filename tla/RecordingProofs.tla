--------------------------- MODULE RecordingProofs ---------------------------
(***************************************************************************)
(* Proofs about Recording, for any period, rings and mode.  That stopping  *)
(* ends is a liveness property, and stays with TLC.                        *)
(***************************************************************************)
EXTENDS Recording, TLAPS

\* What the audio thread has pushed beyond its pictures is at least the part
\* of the period that is over, and a whole period when a picture is due.
AudioCredit ==
  IF audio = "count" THEN phase + 1
  ELSE IF audio \in {"gate", "shoot"} THEN BLOCKS_PER_VIDEO
  ELSE phase

\* The boot thread owes the silence under the picture it has pushed.
BootDebt == IF boot = "silence" THEN BLOCKS_PER_VIDEO ELSE 0

Balance ==
  /\ phase \in 0 .. BLOCKS_PER_VIDEO - 1
  /\ audio \in {"gate", "shoot"} => phase = 0
  /\ surplus \in Int
  /\ surplus <= SURPLUS_MAX
  /\ surplus >= AudioCredit - BootDebt

-----------------------------------------------------------------------------
(* The sound is ahead *)

LEMMA SoundType ==
  ASSUME Balance, NEW n \in Nat, PushSound(n)
  PROVE  /\ surplus' \in Int /\ surplus' <= SURPLUS_MAX
         /\ surplus' >= surplus
         /\ surplus' = surplus + n \/ surplus' = SURPLUS_MAX
  BY RecordingAssumption DEF Balance, PushSound

LEMMA ShootSurplus ==
  ASSUME Shoot
  PROVE  surplus' = surplus - BLOCKS_PER_VIDEO \/ surplus' = surplus
  BY DEF Shoot, PushPicture, ringVars

LEMMA BalanceInit == Init => Balance
  BY RecordingAssumption DEF Init, Balance, AudioCredit, BootDebt

LEMMA AudioBalance == Balance /\ AudioStep => Balance'
<1>. SUFFICES ASSUME Balance, AudioStep PROVE Balance'
  OBVIOUS
<1>. USE RecordingAssumption DEF Balance, AudioCredit, BootDebt
<1>1. CASE AudioTop
  BY <1>1 DEF AudioTop, ringVars
<1>2. CASE AudioLeave
  BY <1>2 DEF AudioLeave, ringVars
<1>3. CASE AudioBlock
  <2>1. PushSound(1) /\ audio = "wait" /\ audio' = "count" /\ UNCHANGED <<boot, phase>>
    BY <1>3 DEF AudioBlock
  <2>2. /\ surplus' \in Int /\ surplus' <= SURPLUS_MAX
        /\ surplus' = surplus + 1 \/ surplus' = SURPLUS_MAX
    BY <2>1, SoundType
  <2>. QED
    BY <2>1, <2>2
<1>4. CASE AudioCount
  BY <1>4 DEF AudioCount, ringVars
<1>5. CASE AudioGate
  BY <1>5 DEF AudioGate, ringVars
<1>6. CASE AudioShoot
  <2>1. audio = "shoot" /\ audio' = "top" /\ UNCHANGED <<boot, phase>> /\ Shoot
    BY <1>6 DEF AudioShoot
  <2>. QED
    BY <2>1, ShootSurplus
<1>. QED
  BY <1>1, <1>2, <1>3, <1>4, <1>5, <1>6 DEF AudioStep

LEMMA BootBalance == Balance /\ BootStep => Balance'
<1>. SUFFICES ASSUME Balance, BootStep PROVE Balance'
  OBVIOUS
<1>. USE RecordingAssumption DEF Balance, AudioCredit, BootDebt
<1>1. CASE BootCheck
  BY <1>1 DEF BootCheck, ringVars
<1>2. CASE BootGate
  BY <1>2 DEF BootGate, ringVars
<1>3. CASE BootShoot
  <2>1. boot = "shoot" /\ boot' = "silence" /\ UNCHANGED <<audio, phase>> /\ Shoot
    BY <1>3 DEF BootShoot
  <2>. QED
    BY <2>1, ShootSurplus
<1>4. CASE BootSilence
  <2>1. /\ PushSound(BLOCKS_PER_VIDEO)
        /\ boot = "silence" /\ boot' = "check" /\ UNCHANGED <<audio, phase>>
    BY <1>4 DEF BootSilence
  <2>2. /\ surplus' \in Int /\ surplus' <= SURPLUS_MAX
        /\ surplus' = surplus + BLOCKS_PER_VIDEO \/ surplus' = SURPLUS_MAX
    BY <2>1, SoundType
  <2>. QED
    BY <2>1, <2>2
<1>. QED
  BY <1>1, <1>2, <1>3, <1>4 DEF BootStep

\* The other threads move none of it.
LEMMA ElseUnchanged ==
  ASSUME GateStep \/ TickStep \/ LeaveMain \/ StopStep \/ Encode \/ EncoderDies
  PROVE  UNCHANGED <<audio, boot, phase, surplus, late, g_rec_live>>
  BY DEF GateStep, NoGateStep, ShutGate, ClearShutter, OpenGate, TickStep, TickAsk, TickGrab,
     TickStore, LeaveMain, StopStep, JoinAudio, EndVideo, EndAudio, Reap, StopGoes, Encode,
     TakePicture, TakeSound, EncoderEnds, EncoderDies, ringVars, threadVars

LEMMA BalanceStep == Balance /\ [Next]_vars => Balance'
<1>. SUFFICES ASSUME Balance, [Next]_vars PROVE Balance'
  OBVIOUS
<1>1. CASE GateStep \/ TickStep \/ LeaveMain \/ StopStep \/ Encode \/ EncoderDies
  BY <1>1, ElseUnchanged DEF Balance, AudioCredit, BootDebt
<1>2. CASE UNCHANGED vars
  BY <1>2 DEF vars, threadVars, ringVars, Balance, AudioCredit, BootDebt
<1>. QED
  BY <1>1, <1>2, AudioBalance, BootBalance DEF Next

\* For any period and any rings, the film is never more than a picture ahead
\* of its sound.
THEOREM SoundLeads == Spec => []VideoNotAhead
<1>1. Balance => VideoNotAhead
  BY RecordingAssumption DEF Balance, AudioCredit, BootDebt, VideoNotAhead
<1>. QED
  BY <1>1, BalanceInit, BalanceStep, PTL DEF Spec

-----------------------------------------------------------------------------
(* One clock *)

HandOver ==
  /\ late \in {0, 1}
  /\ late = 1 => g_rec_live = TRUE /\ boot \in {"check", "ended"}

LEMMA HandOverStep == HandOver /\ [Next]_vars => HandOver'
<1>. SUFFICES ASSUME HandOver, [Next]_vars PROVE HandOver'
  OBVIOUS
<1>1. CASE AudioStep
  BY <1>1 DEF HandOver, AudioStep, AudioTop, AudioLeave, AudioBlock, AudioCount, AudioGate,
     AudioShoot
<1>2. CASE BootCheck
  BY <1>2 DEF HandOver, BootCheck
<1>3. CASE BootGate \/ BootShoot
  BY <1>3 DEF HandOver, BootGate, BootShoot
<1>4. CASE BootSilence
  <2>1. late = 0 /\ boot' = "check" /\ UNCHANGED g_rec_live
    BY <1>4 DEF HandOver, BootSilence
  <2>2. CASE g_rec_live
    BY <1>4, <2>1, <2>2 DEF HandOver, BootSilence
  <2>3. CASE ~ g_rec_live
    BY <1>4, <2>1, <2>3 DEF HandOver, BootSilence
  <2>. QED
    BY <2>2, <2>3
<1>5. CASE GateStep \/ TickStep \/ LeaveMain \/ StopStep \/ Encode \/ EncoderDies
  BY <1>5, ElseUnchanged DEF HandOver
<1>6. CASE UNCHANGED vars
  BY <1>6 DEF vars, threadVars, HandOver
<1>. QED
  BY <1>1, <1>2, <1>3, <1>4, <1>5, <1>6 DEF Next, BootStep

\* The boot thread pushes at most the round it is in once a block has come.
THEOREM HandsOver == Spec => []OneClock
<1>1. Init => HandOver
  BY DEF Init, HandOver
<1>2. HandOver => OneClock
  BY DEF HandOver, OneClock
<1>. QED
  BY <1>1, <1>2, HandOverStep, PTL DEF Spec

-----------------------------------------------------------------------------
(* No old picture *)

\* A picture that has been seen is one of this opening.
SeenIsFresh == g_shutter_seen => ~ stale

LEMMA SeenStep == SeenIsFresh /\ [Next]_vars => SeenIsFresh'
<1>. SUFFICES ASSUME SeenIsFresh, [Next]_vars PROVE SeenIsFresh'
  OBVIOUS
<1>1. CASE ClearShutter
  BY <1>1 DEF SeenIsFresh, ClearShutter
<1>2. CASE TickStore
  BY <1>2 DEF SeenIsFresh, TickStore
<1>3. CASE AudioShoot \/ BootShoot
  BY <1>3 DEF SeenIsFresh, AudioShoot, BootShoot, Shoot, shutterVars
<1>4. CASE UNCHANGED shutterVars
  BY <1>4 DEF SeenIsFresh, shutterVars
<1>5. CASE AudioTop \/ AudioLeave \/ AudioBlock \/ AudioCount \/ AudioGate \/ BootCheck
           \/ BootGate \/ BootSilence
  BY <1>4, <1>5 DEF AudioTop, AudioLeave, AudioBlock, AudioCount, AudioGate, BootCheck, BootGate,
     BootSilence
<1>6. CASE NoGateStep \/ ShutGate \/ OpenGate \/ TickAsk \/ TickGrab \/ LeaveMain \/ StopStep
           \/ Encode \/ EncoderDies
  BY <1>4, <1>6 DEF NoGateStep, ShutGate, OpenGate, TickAsk, TickGrab, LeaveMain, StopStep,
     JoinAudio, EndVideo, EndAudio, Reap, StopGoes, Encode, TakePicture, TakeSound, EncoderEnds,
     EncoderDies
<1>7. CASE UNCHANGED vars
  BY <1>4, <1>7 DEF vars
<1>. QED
  BY <1>1, <1>2, <1>3, <1>5, <1>6, <1>7 DEF Next, AudioStep, BootStep, GateStep, TickStep

\* Only the shutter takes from the surplus.
LEMMA OnlyShoot ==
  ASSUME Balance, [Next]_vars, surplus' < surplus
  PROVE  Shoot
<1>1. CASE AudioBlock
  <2>1. PushSound(1)
    BY <1>1 DEF AudioBlock
  <2>2. surplus' >= surplus /\ surplus' \in Int /\ surplus \in Int
    BY <2>1, SoundType DEF Balance
  <2>. QED
    BY <2>2
<1>2. CASE BootSilence
  <2>1. PushSound(BLOCKS_PER_VIDEO) /\ BLOCKS_PER_VIDEO \in Nat
    BY <1>2, RecordingAssumption DEF BootSilence
  <2>2. surplus' >= surplus /\ surplus' \in Int /\ surplus \in Int
    BY <2>1, SoundType DEF Balance
  <2>. QED
    BY <2>2
<1>3. CASE UNCHANGED surplus
  BY <1>3 DEF Balance
<1>4. CASE AudioTop \/ AudioLeave \/ AudioCount \/ AudioGate \/ BootCheck \/ BootGate
           \/ UNCHANGED vars
  BY <1>3, <1>4 DEF AudioTop, AudioLeave, AudioCount, AudioGate, BootCheck, BootGate, vars, ringVars
<1>5. CASE GateStep \/ TickStep \/ LeaveMain \/ StopStep \/ Encode \/ EncoderDies
  BY <1>3, <1>5, ElseUnchanged
<1>6. CASE AudioShoot \/ BootShoot
  BY <1>6 DEF AudioShoot, BootShoot
<1>. QED
  BY <1>1, <1>2, <1>4, <1>5, <1>6 DEF Next, AudioStep, BootStep

\* No thread puts a picture on film that dates from before the gate was last
\* opened.
THEOREM OpensFresh == Spec => FreshAfterOpen
<1>1. Init => SeenIsFresh
  BY DEF Init, SeenIsFresh
<1>2. Balance /\ SeenIsFresh /\ [Next]_vars
        => [PANEL /\ surplus' < surplus => ~ stale]_vars
  <2>. SUFFICES ASSUME Balance, SeenIsFresh, [Next]_vars, PANEL, surplus' < surplus
                PROVE  ~ stale
    OBVIOUS
  <2>1. Shoot
    BY OnlyShoot
  <2>2. surplus \in Int
    BY DEF Balance
  <2>3. g_shutter_seen
    BY <2>1, <2>2 DEF Shoot, ringVars
  <2>. QED
    BY <2>3 DEF SeenIsFresh
<1>. QED
  BY <1>1, <1>2, BalanceInit, BalanceStep, SeenStep, PTL DEF Spec, FreshAfterOpen
=============================================================================
