----------------------------- MODULE Completions -----------------------------
(***************************************************************************)
(* What the completion interrupts of a DMA engine promise: a completion is *)
(* owed to the processor from the moment the transfer is done until it is  *)
(* acknowledged; the processor may come to see it late, but never without  *)
(* its being owed, and never again once it is acknowledged.                *)
(***************************************************************************)
CONSTANT CHANNELS

VARIABLES
  owed,   \* channels whose completion is not acknowledged
  seen    \* those whose interrupt line the processor sees raised

promiseVars == <<owed, seen>>

PromiseInit == owed = {} /\ seen = {}

Complete ==
  \E S \in SUBSET CHANNELS :
    /\ owed' = owed \union S
    /\ \E T \in SUBSET S : seen' = seen \union T

Deliver ==
  /\ seen' = owed
  /\ UNCHANGED owed

Acknowledge ==
  \E S \in SUBSET CHANNELS :
    /\ owed' = owed \ S
    /\ seen' = seen \ S

PromiseNext == Complete \/ Deliver \/ Acknowledge

Promise == PromiseInit /\ [][PromiseNext]_promiseVars
=============================================================================
