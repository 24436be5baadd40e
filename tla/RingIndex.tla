------------------------------ MODULE RingIndex ------------------------------
(***************************************************************************)
(* Free-running ring indices.  Both rings of OtAudioShm are indexed by     *)
(* 64-bit counters that are only ever incremented; the occupancy is the    *)
(* unsigned difference head - tail and the slot is index & (CAP - 1)       *)
(* (board/ot-audio-shm.h:81-90).  WRAP stands for 2^64, and CAP divides it *)
(* because both are powers of two.  The unsigned operations are written    *)
(* case by case, so that they stay linear for the provers.                 *)
(***************************************************************************)
EXTENDS Integers

CONSTANTS
  CAP,   \* slots of a ring: OT_SHM_OUT_CAP = OT_SHM_IN_CAP
  WRAP   \* the modulus of an index

ASSUME RingAssumption ==
  /\ CAP \in Nat \ {0}
  /\ WRAP \in Nat \ {0}
  /\ CAP < WRAP
  /\ WRAP % CAP = 0

Index == 0 .. WRAP - 1

\* head + 1, in the width of the index.
Succ(i) == IF i = WRAP - 1 THEN 0 ELSE i + 1

\* head - tail, in the width of the index: how many blocks are unread.
Occupancy(head, tail) == IF head >= tail THEN head - tail ELSE head - tail + WRAP

\* tail + n, in the width of the index, for n < WRAP.
Plus(i, n) == IF i + n >= WRAP THEN i + n - WRAP ELSE i + n

\* index & (CAP - 1)
Slot(i) == i % CAP

\* The unread part of a ring, oldest first.
Unread(slots, head, tail) ==
  [k \in 1 .. Occupancy(head, tail) |-> slots[Slot(Plus(tail, k - 1))]]
=============================================================================
