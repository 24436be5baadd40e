----------------------------- MODULE MCEdmaFrame -----------------------------
(* The block loop over the real table of states. *)
EXTENDS EdmaFrame
=============================================================================
