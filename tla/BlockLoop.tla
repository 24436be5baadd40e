------------------------------ MODULE BlockLoop ------------------------------
(***************************************************************************)
(* The audio block loop as the firmware means it: a frame interrupt opens  *)
(* a block, the transfer states are dispatched once each and in order, and *)
(* the last of them, or the one before it when there is no sum to send,    *)
(* closes the block.                                                       *)
(***************************************************************************)
EXTENDS Naturals

CONSTANT LAST   \* the number of the last state

VARIABLE at     \* the state last dispatched, or one of two more:

open == LAST + 1   \* a block is open and none is dispatched yet
idle == LAST + 2   \* no block is open

LoopInit == at = idle

OpenBlock == at = idle /\ at' = open

FirstState == at = open /\ at' = 0

NextState ==
  /\ at \in 0 .. LAST - 1
  /\ at' = at + 1

CloseBlock ==
  /\ at \in {LAST - 1, LAST}
  /\ at' = idle

LoopNext == OpenBlock \/ FirstState \/ NextState \/ CloseBlock

Loop == LoopInit /\ [][LoopNext]_at
=============================================================================
