------------------------------ MODULE BlockFifo ------------------------------
(***************************************************************************)
(* What one ring of the audio link promises its two users: a FIFO of       *)
(* blocks.  What is put comes out in the order it was put, each block at   *)
(* most once and none in between, the FIFO never holds more than Limit,    *)
(* and its content is abandoned only as a whole, when the two sides part.  *)
(***************************************************************************)
EXTENDS Sequences, Integers

CONSTANTS
  Block,    \* the blocks
  Limit,    \* the most the FIFO may hold
  Nothing   \* no block in the reader's hand

VARIABLES
  queue,    \* put and not yet taken, oldest first
  hand      \* the block the reader is working on, or Nothing

Init ==
  /\ queue = <<>>
  /\ hand = Nothing

Put(b) ==
  /\ Len(queue) < Limit
  /\ queue' = Append(queue, b)
  /\ UNCHANGED hand

Take ==
  /\ hand = Nothing
  /\ queue # <<>>
  /\ hand' = Head(queue)
  /\ queue' = Tail(queue)

Finish ==
  /\ hand' = Nothing
  /\ UNCHANGED queue

\* The reader and the writer part: whatever is underway is abandoned.
Abandon ==
  /\ queue' = <<>>
  /\ hand' \in {hand, Nothing}

Next == (\E b \in Block : Put(b)) \/ Take \/ Finish \/ Abandon

Spec == Init /\ [][Next]_<<queue, hand>>
=============================================================================
