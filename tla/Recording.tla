------------------------------ MODULE Recording ------------------------------
(***************************************************************************)
(* Recording the session to a film (audio.c): the sound and the pictures   *)
(* go through two rings, each with a writer thread, to an encoder that     *)
(* interleaves them.  Three threads are involved.                          *)
(*                                                                         *)
(*   render  the main loop: a step of the walk, which may shut or open the *)
(*           recording gate, then a frame, off which the shutter's request *)
(*           is answered; at the end it stops the recording.               *)
(*   audio   audio_main(): pushes the sound of each block, and a picture   *)
(*           every BLOCKS_PER_VIDEO of them.                               *)
(*   boot    rec_boot_thread(): until the first block arrives it pushes    *)
(*           pictures on the wall clock, with silence under each.          *)
(*                                                                         *)
(* A writer and its pipe are part of its ring: what counts is what the     *)
(* encoder has not taken yet.  Sound is counted in blocks.                 *)
(***************************************************************************)
EXTENDS Integers

CONSTANTS
  PANEL,             \* VIDEO_PANEL: pictures come from the render thread
  BLOCKS_PER_VIDEO,
  VIDEO_CAP,         \* the ring of pictures
  AUDIO_CAP,         \* the ring of sound, in blocks
  SURPLUS_MAX        \* where the count of surplus sound saturates

ASSUME RecordingAssumption ==
  /\ PANEL \in BOOLEAN
  /\ BLOCKS_PER_VIDEO \in Nat \ {0}
  /\ VIDEO_CAP \in Nat \ {0}
  /\ AUDIO_CAP \in Nat
  /\ SURPLUS_MAX \in Nat
  /\ SURPLUS_MAX >= 2 * BLOCKS_PER_VIDEO

VARIABLES
  render, audio, boot,  \* where the threads are
  g_quit,
  g_rec_gate, g_rec_live,
  g_shutter_want, g_shutter_have, g_shutter_seen,
  stale,     \* the shutter's buffer dates from before the gate was opened
  phase,     \* g.blocks % BLOCKS_PER_VIDEO
  vq, aq,    \* what is in the rings
  encoder,   \* ffmpeg: "runs" or "ended"
  lead,      \* by how much of its sound the encoder is ahead of its pictures
  surplus,   \* the sound pushed less the pictures pushed, in blocks
  late       \* rounds of the boot thread that ended after the first block

threadVars == <<render, audio, boot>>
shutterVars == <<g_shutter_want, g_shutter_have, g_shutter_seen, stale>>
ringVars == <<vq, aq, surplus>>
encoderVars == <<encoder, lead>>
vars == <<threadVars, g_quit, g_rec_gate, g_rec_live, shutterVars, phase, ringVars,
          encoderVars, late>>

\* rec_end() has closed the pipe.
VideoClosed == render \in {"endAudio", "reap", "ended"}
AudioClosed == render \in {"reap", "ended"}

Init ==
  /\ render = "script" /\ audio = "top" /\ boot = "check"
  /\ g_quit = FALSE
  /\ g_rec_gate = TRUE /\ g_rec_live = FALSE
  /\ g_shutter_want = PANEL /\ g_shutter_have = FALSE /\ g_shutter_seen = FALSE
  /\ stale = TRUE
  /\ phase = 0
  /\ vq = 0 /\ aq = 0 /\ surplus = 0
  /\ encoder = "runs" /\ lead = 0
  /\ late = 0

-----------------------------------------------------------------------------
(* rec_push(): whole chunks, or none *)

PushSound(n) ==
  /\ aq' = IF aq + n <= AUDIO_CAP THEN aq + n ELSE aq
  /\ surplus' = IF surplus + n <= SURPLUS_MAX THEN surplus + n ELSE SURPLUS_MAX
  /\ UNCHANGED vq

\* Mutant of PushPicture: it waits for room.
PushPictureWaits ==
  /\ vq < VIDEO_CAP
  /\ vq' = vq + 1
  /\ surplus' = surplus - BLOCKS_PER_VIDEO
  /\ UNCHANGED aq

PushPicture ==
  /\ vq' = IF vq < VIDEO_CAP THEN vq + 1 ELSE vq
  /\ surplus' = surplus - BLOCKS_PER_VIDEO
  /\ UNCHANGED aq

-----------------------------------------------------------------------------
(* push_frame(), past its look at the gate: the shutter *)

Shoot ==
  \/ /\ ~ PANEL
     /\ PushPicture
     /\ UNCHANGED shutterVars
  \/ /\ PANEL /\ g_shutter_seen
     /\ PushPicture                  \* the last picture again when ~ have
     /\ g_shutter_have' = FALSE
     /\ g_shutter_want' = TRUE
     /\ UNCHANGED <<g_shutter_seen, stale>>
  \/ /\ PANEL /\ ~ g_shutter_seen
     /\ UNCHANGED <<ringVars, shutterVars>>

-----------------------------------------------------------------------------
(* audio_main() *)

AudioTop ==
  /\ audio = "top"
  /\ audio' = IF g_quit THEN "ended" ELSE "wait"
  /\ UNCHANGED <<render, boot, g_quit, g_rec_gate, g_rec_live, shutterVars, phase, ringVars,
                 encoderVars, late>>

\* The ring of the link is empty, and will stay so.
AudioLeave ==
  /\ audio = "wait" /\ g_quit
  /\ audio' = "ended"
  /\ UNCHANGED <<render, boot, g_quit, g_rec_gate, g_rec_live, shutterVars, phase, ringVars,
                 encoderVars, late>>

AudioBlock ==
  /\ audio = "wait"
  /\ audio' = "count"
  /\ PushSound(1)
  /\ UNCHANGED <<render, boot, g_quit, g_rec_gate, g_rec_live, shutterVars, phase,
                 encoderVars, late>>

\* Mutant of AudioCount: a picture at the first block of a period.
AudioCountEarly ==
  /\ audio = "count"
  /\ g_rec_live' = TRUE
  /\ phase' = IF phase = BLOCKS_PER_VIDEO - 1 THEN 0 ELSE phase + 1
  /\ audio' = IF phase = 0 THEN "gate" ELSE "top"
  /\ UNCHANGED <<render, boot, g_quit, g_rec_gate, shutterVars, ringVars, encoderVars, late>>

AudioCount ==
  /\ audio = "count"
  /\ g_rec_live' = TRUE
  /\ phase' = IF phase = BLOCKS_PER_VIDEO - 1 THEN 0 ELSE phase + 1
  /\ audio' = IF phase = BLOCKS_PER_VIDEO - 1 THEN "gate" ELSE "top"
  /\ UNCHANGED <<render, boot, g_quit, g_rec_gate, shutterVars, ringVars, encoderVars, late>>

AudioGate ==
  /\ audio = "gate"
  /\ audio' = IF g_rec_gate THEN "shoot" ELSE "top"
  /\ UNCHANGED <<render, boot, g_quit, g_rec_gate, g_rec_live, shutterVars, phase, ringVars,
                 encoderVars, late>>

AudioShoot ==
  /\ audio = "shoot"
  /\ audio' = "top"
  /\ Shoot
  /\ UNCHANGED <<render, boot, g_quit, g_rec_gate, g_rec_live, phase, encoderVars, late>>

-----------------------------------------------------------------------------
(* rec_boot_thread() *)

\* Mutant of BootCheck: the hand-over is forgotten.
BootCheckBlind ==
  /\ boot = "check"
  /\ boot' = IF g_quit THEN "ended"
             ELSE IF (~ PANEL \/ g_shutter_seen) /\ g_rec_gate THEN "gate"
             ELSE "check"
  /\ UNCHANGED <<render, audio, g_quit, g_rec_gate, g_rec_live, shutterVars, phase, ringVars,
                 encoderVars, late>>

BootCheck ==
  /\ boot = "check"
  /\ boot' = IF g_rec_live \/ g_quit THEN "ended"
             ELSE IF (~ PANEL \/ g_shutter_seen) /\ g_rec_gate THEN "gate"
             ELSE "check"
  /\ UNCHANGED <<render, audio, g_quit, g_rec_gate, g_rec_live, shutterVars, phase, ringVars,
                 encoderVars, late>>

BootGate ==
  /\ boot = "gate"
  /\ boot' = IF g_rec_gate THEN "shoot" ELSE "silence"
  /\ UNCHANGED <<render, audio, g_quit, g_rec_gate, g_rec_live, shutterVars, phase, ringVars,
                 encoderVars, late>>

BootShoot ==
  /\ boot = "shoot"
  /\ boot' = "silence"
  /\ Shoot
  /\ UNCHANGED <<render, audio, g_quit, g_rec_gate, g_rec_live, phase, encoderVars, late>>

BootSilence ==
  /\ boot = "silence"
  /\ boot' = "check"
  /\ PushSound(BLOCKS_PER_VIDEO)
  /\ late' = IF g_rec_live /\ late < 2 THEN late + 1 ELSE late
  /\ UNCHANGED <<render, audio, g_quit, g_rec_gate, g_rec_live, shutterVars, phase,
                 encoderVars>>

-----------------------------------------------------------------------------
(* The main loop *)

NoGateStep ==
  /\ render = "script"
  /\ render' = "tick"
  /\ UNCHANGED <<audio, boot, g_quit, g_rec_gate, g_rec_live, shutterVars, phase, ringVars,
                 encoderVars, late>>

\* audio_record_gate(false)
ShutGate ==
  /\ render = "script"
  /\ render' = "tick"
  /\ g_rec_gate' = FALSE
  /\ UNCHANGED <<audio, boot, g_quit, g_rec_live, shutterVars, phase, ringVars, encoderVars, late>>

\* Mutant of ClearShutter: the frame in hand is kept.
ClearShutterKeep ==
  /\ render = "script" /\ ~ g_rec_gate
  /\ render' = "opening"
  /\ g_shutter_want' = TRUE
  /\ stale' = TRUE
  /\ UNCHANGED <<audio, boot, g_quit, g_rec_gate, g_rec_live, g_shutter_seen, g_shutter_have, phase,
                 ringVars, encoderVars, late>>

\* audio_record_gate(true), when it was shut: the frame in hand goes first.
ClearShutter ==
  /\ render = "script" /\ ~ g_rec_gate
  /\ render' = "opening"
  /\ g_shutter_seen' = FALSE /\ g_shutter_have' = FALSE /\ g_shutter_want' = TRUE
  /\ stale' = TRUE
  /\ UNCHANGED <<audio, boot, g_quit, g_rec_gate, g_rec_live, phase, ringVars, encoderVars, late>>

OpenGate ==
  /\ render = "opening"
  /\ render' = "tick"
  /\ g_rec_gate' = TRUE
  /\ UNCHANGED <<audio, boot, g_quit, g_rec_live, shutterVars, phase, ringVars, encoderVars, late>>

\* audio_video_tick(): is a picture asked for?
TickAsk ==
  /\ render = "tick"
  /\ render' = IF PANEL /\ g_shutter_want THEN "grab" ELSE "script"
  /\ UNCHANGED <<audio, boot, g_quit, g_rec_gate, g_rec_live, shutterVars, phase, ringVars,
                 encoderVars, late>>

\* The readback may fail: it is tried again at the next frame.
TickGrab ==
  /\ render = "grab"
  /\ render' \in {"store", "script"}
  /\ UNCHANGED <<audio, boot, g_quit, g_rec_gate, g_rec_live, shutterVars, phase, ringVars,
                 encoderVars, late>>

TickStore ==
  /\ render = "store"
  /\ render' = "script"
  /\ g_shutter_have' = TRUE /\ g_shutter_seen' = TRUE /\ g_shutter_want' = FALSE
  /\ stale' = FALSE
  /\ UNCHANGED <<audio, boot, g_quit, g_rec_gate, g_rec_live, phase, ringVars, encoderVars, late>>

\* The loop ends, and cleanup() calls audio_stop().
LeaveMain ==
  /\ render = "script"
  /\ render' = "join"
  /\ g_quit' = TRUE
  /\ UNCHANGED <<audio, boot, g_rec_gate, g_rec_live, shutterVars, phase, ringVars, encoderVars,
                 late>>

StopGoes(from, to) ==
  /\ render = from
  /\ render' = to
  /\ UNCHANGED <<audio, boot, g_quit, g_rec_gate, g_rec_live, shutterVars, phase, ringVars,
                 encoderVars, late>>

JoinAudio == audio = "ended" /\ StopGoes("join", "endVideo")

\* rec_end(): the writer returns when its ring is empty, or nobody reads it.
EndVideo == (vq = 0 \/ encoder = "ended") /\ StopGoes("endVideo", "endAudio")
EndAudio == (aq = 0 \/ encoder = "ended") /\ StopGoes("endAudio", "reap")
Reap == encoder = "ended" /\ StopGoes("reap", "ended")

-----------------------------------------------------------------------------
(* ffmpeg: it takes the stream that is behind, and waits for it; -shortest
   ends the film with the shorter of the two *)

TakePicture ==
  /\ encoder = "runs" /\ lead >= 0
  /\ vq > 0 /\ ~ VideoClosed
  /\ vq' = vq - 1
  /\ lead' = lead - BLOCKS_PER_VIDEO
  /\ UNCHANGED <<threadVars, g_quit, g_rec_gate, g_rec_live, shutterVars, phase, aq, surplus,
                 encoder, late>>

TakeSound ==
  /\ encoder = "runs" /\ lead < 0
  /\ aq > 0 /\ ~ AudioClosed
  /\ aq' = aq - 1
  /\ lead' = lead + 1
  /\ UNCHANGED <<threadVars, g_quit, g_rec_gate, g_rec_live, shutterVars, phase, vq, surplus,
                 encoder, late>>

EncoderEnds ==
  /\ encoder = "runs"
  /\ IF lead >= 0 THEN VideoClosed ELSE AudioClosed
  /\ encoder' = "ended"
  /\ UNCHANGED <<threadVars, g_quit, g_rec_gate, g_rec_live, shutterVars, phase, ringVars, lead,
                 late>>

\* It is not installed, or it crashes.
EncoderDies ==
  /\ encoder = "runs"
  /\ encoder' = "ended"
  /\ UNCHANGED <<threadVars, g_quit, g_rec_gate, g_rec_live, shutterVars, phase, ringVars, lead,
                 late>>

-----------------------------------------------------------------------------
AudioStep == AudioTop \/ AudioLeave \/ AudioBlock \/ AudioCount \/ AudioGate \/ AudioShoot
BootStep == BootCheck \/ BootGate \/ BootShoot \/ BootSilence
GateStep == NoGateStep \/ ShutGate \/ ClearShutter \/ OpenGate
TickStep == TickAsk \/ TickGrab \/ TickStore
StopStep == JoinAudio \/ EndVideo \/ EndAudio \/ Reap
Encode == TakePicture \/ TakeSound \/ EncoderEnds

Next == AudioStep \/ BootStep \/ GateStep \/ TickStep \/ LeaveMain \/ StopStep \/ Encode \/ EncoderDies

Spec == Init /\ [][Next]_vars

\* The threads are scheduled and the encoder works; nobody has to end the run.
FairSpec ==
  /\ Spec
  /\ WF_vars(AudioStep) /\ WF_vars(BootStep) /\ WF_vars(StopStep) /\ WF_vars(Encode)

-----------------------------------------------------------------------------
TypeOK ==
  /\ render \in {"script", "opening", "tick", "grab", "store", "join", "endVideo",
                 "endAudio", "reap", "ended"}
  /\ audio \in {"top", "wait", "count", "gate", "shoot", "ended"}
  /\ boot \in {"check", "gate", "shoot", "silence", "ended"}
  /\ {g_quit, g_rec_gate, g_rec_live, g_shutter_want, g_shutter_have, g_shutter_seen, stale} \subseteq BOOLEAN
  /\ phase \in 0 .. BLOCKS_PER_VIDEO - 1
  /\ vq \in 0 .. VIDEO_CAP /\ aq \in 0 .. AUDIO_CAP
  /\ encoder \in {"runs", "ended"}
  /\ lead \in - BLOCKS_PER_VIDEO .. 0
  /\ surplus \in Int /\ surplus <= SURPLUS_MAX
  /\ late \in 0 .. 2

\* The pictures are never ahead of the sound by more than one of them, from
\* either thread, through the hand-over and through every use of the gate: an
\* encoder that waits for sound is waiting for sound that is in its ring
\* (audio.c:252-260, 500-504, 961).
VideoNotAhead == surplus >= - BLOCKS_PER_VIDEO

\* One clock paces the film: once a real block has arrived, the boot thread
\* finishes the round it is in and no other (audio.c:485-497, 953-959).
OneClock == late <= 1

\* No picture that goes into the film was taken before the gate was last
\* opened, whichever thread pushes it and however far it was past its look at
\* the gate (audio.c:103-116, 395-405).
FreshAfterOpen == [][PANEL /\ surplus' < surplus => ~ stale]_vars

\* Stopping the recording comes to an end, although the writers are joined one
\* after the other and the encoder takes their streams in turns
\* (audio.c:343-353, 1030-1058).
StopEnds == render = "join" ~> render = "ended"

\* "It gates AUDIO AND VIDEO TOGETHER" (audio.c:89): the two streams do not
\* drift apart by more than what the two threads have in hand, a period and a
\* round, and the silence of a round the gate fell into.
InStep == surplus <= 3 * BLOCKS_PER_VIDEO
=============================================================================
