----------------------------- MODULE MCHostPort -----------------------------
(* The host port with two tracks and the sum, and a FIFO of two words. *)
EXTENDS HostPort
=============================================================================
