---------------------------- MODULE MCScriptWalk ----------------------------
(* Model checking ScriptWalk: a walk of a few lines. *)
EXTENDS ScriptWalk
=============================================================================
