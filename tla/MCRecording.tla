----------------------------- MODULE MCRecording -----------------------------
(* Model checking Recording: a picture every two blocks. *)
EXTENDS Recording
=============================================================================
