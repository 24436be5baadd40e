----------------------------- MODULE MCPanelInput -----------------------------
EXTENDS PanelInput

CONSTANTS one, f1, trig, track, func, knobA, knobB, pot, encA, encB, nothing

MCSwitch(k) == IF k = knobA THEN encA ELSE encB

\* The key 1 is TRIG1 and, with ctrl, TRACK1; F1 is the first knob's switch,
\* and nothing with ctrl.
MCBound(k, withCtrl) ==
  IF k = one THEN IF withCtrl THEN track ELSE trig
  ELSE IF withCtrl THEN nothing ELSE encA

\* Two at a time: what they share is the panel's keys and one gesture.
MCInputMixes ==
  {{"keys", "mouse"}, {"keys", "wheel"}, {"keys", "script"}, {"mouse", "wheel"}, {"mouse", "script"}}
=============================================================================
