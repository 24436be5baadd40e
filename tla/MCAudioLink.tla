----------------------------- MODULE MCAudioLink -----------------------------
(* Model checking AudioLink: up to two frontend processes, rings of
   three slots under indices that wrap after two rounds. *)
EXTENDS AudioLink, TLC

Symmetry == Permutations(Frontends)
=============================================================================
