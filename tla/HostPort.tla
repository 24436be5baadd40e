------------------------------ MODULE HostPort ------------------------------
(***************************************************************************)
(* The host port of a DSP core under DspDelivery's frame: board/           *)
(* ot-dsp-port.c, the port operations of board/ot-dsp-shim.cc and the      *)
(* drains of board/ot-dsp56k.cc.  The guest's transfer is a reset of the   *)
(* FIFO (ICR), two argument words (the destination and the count), a host  *)
(* command (CVR), and the words, in bursts of the eDMA.  On the core's     *)
(* side the command's handler reads the arguments and sets up a DMA        *)
(* channel, which takes whatever word comes next; both read one FIFO.      *)
(*                                                                         *)
(* Each register handler that waits steps the core until it has consumed   *)
(* what it was given, or for a bound of quanta: a core that can still      *)
(* consume does so within the bound.  Commands are enabled (HCIE), the     *)
(* core is booted, and the port's other core is not addressed.             *)
(***************************************************************************)
EXTENDS DspDelivery, Sequences

CONSTANTS
  Dests,    \* the destinations of transfers, "sum" among them
  DEPTH,    \* kFifoDepth
  WORDS     \* the bursts of a transfer; the sum's are one

ASSUME PortAssumption ==
  /\ "sum" \in Dests
  /\ DEPTH \in Nat \ {0, 1}
  /\ WORDS \in Nat \ {0}

VARIABLES
  fifo,      \* the core's receive FIFO
  vector,    \* a host command is pending
  handler,   \* its handler waits for the arguments
  dma,       \* the armed channel: where to, and how many more
  op,        \* the register handler that waits
  stage,     \* how far the guest is in its transfer
  dest,      \* the transfer's destination
  togo,      \* the bursts it still has to send
  argPhase,  \* the arguments written since the last reset
  lastDest,  \* the first of them
  misplaced  \* a word was lost, or taken for another's (history)

coreSide == <<fifo, vector, handler, dma, misplaced>>
hostSide == <<op, stage, dest, togo, argPhase, lastDest>>
portVars == <<coreSide, hostSide>>
allVars == <<vars, portVars>>

Off == [to |-> "none", left |-> 0]
Words(d) == IF d = "sum" THEN 1 ELSE WORDS

PortInit ==
  /\ Init
  /\ fifo = <<>> /\ vector = FALSE /\ handler = FALSE /\ dma = Off
  /\ op = "none" /\ stage = "free" /\ dest = "none" /\ togo = 0
  /\ argPhase = 2 /\ lastDest = "none"
  /\ misplaced = FALSE

-----------------------------------------------------------------------------
(* The core's side, of its payload *)

TakesVector == vector /\ ~ handler
ReadsArgs == handler /\ Len(fifo) >= 2
DmaTakes == dma.left > 0 /\ fifo # <<>>
CanMove == TakesVector \/ ReadsArgs \/ DmaTakes

CoreMove ==
  \/ /\ TakesVector
     /\ vector' = FALSE /\ handler' = TRUE
     /\ UNCHANGED <<fifo, dma, misplaced>>
  \/ /\ ReadsArgs
     /\ handler' = FALSE
     /\ dma' = [to |-> fifo[1].to, left |-> Words(fifo[1].to)]
     /\ misplaced' = (misplaced \/ ~ fifo[1].arg \/ ~ fifo[2].arg \/ fifo[1].to # fifo[2].to)
     /\ fifo' = SubSeq(fifo, 3, Len(fifo))
     /\ UNCHANGED vector
  \/ /\ DmaTakes
     /\ dma' = IF dma.left = 1 THEN Off ELSE [dma EXCEPT !.left = @ - 1]
     /\ misplaced' = (misplaced \/ Head(fifo) # [to |-> dma.to, arg |-> FALSE])
     /\ fifo' = Tail(fifo)
     /\ UNCHANGED <<vector, handler>>

\* The core is stepped, by a drain or by a tick that does not hold it, and its
\* program stays where it is.
CoreStep ==
  /\ guest = "drain" \/ (~ tx /\ ~ (Outstanding /\ AtBlockPoll))
  /\ CoreMove
  /\ UNCHANGED <<vars, hostSide>>

PortInterleave == Interleave /\ UNCHANGED portVars
PortDrain == Drain /\ UNCHANGED portVars

-----------------------------------------------------------------------------
(* The guest's side: a transfer *)

\* Mutant of PhaseAfterReset: the arguments are not told from the words.
PhaseAfterResetKept == argPhase

PhaseAfterReset == 0

\* ICR: the core is to drain the FIFO...
Icr(d) ==
  /\ Handle /\ stage = "free" /\ d # dest
  /\ op' = "icr" /\ dest' = d /\ togo' = Words(d)
  /\ argPhase' = PhaseAfterReset
  /\ UNCHANGED <<coreSide, stage, lastDest>>

\* Mutant of Drained: the reset clears at once.
DrainedAtOnce == TRUE

\* Nothing is in the FIFO, or the bound is up.
Drained == fifo = <<>> \/ ~ CanMove

\* ...and is cleared then.
IcrDone ==
  /\ Handled /\ HreqUpdate
  /\ op = "icr" /\ Drained
  /\ op' = "none" /\ stage' = "args"
  /\ fifo' = <<>>
  /\ misplaced' = (misplaced \/ fifo # <<>>)
  /\ UNCHANGED <<vector, handler, dma, dest, togo, argPhase, lastDest>>

\* A word of the transfer, behind the others.
Put(isArg) == fifo' = Append(fifo, [to |-> dest, arg |-> isArg])

\* The arguments are written and the core is not stepped: there is room.
WriteArg ==
  /\ guest = "transfer" /\ stage \in {"args", "arg2"}
  /\ Put(TRUE)
  /\ stage' = IF stage = "args" THEN "arg2" ELSE "command"
  /\ lastDest' = IF argPhase = 0 THEN dest ELSE lastDest
  /\ argPhase' = IF argPhase < 2 THEN argPhase + 1 ELSE 2
  /\ UNCHANGED <<vars, vector, handler, dma, misplaced, op, dest, togo>>

Cvr ==
  /\ Handle /\ stage = "command"
  /\ op' = "cvr" /\ vector' = TRUE
  /\ UNCHANGED <<fifo, handler, dma, misplaced, stage, dest, togo, argPhase, lastDest>>

\* The two barriers: the vector is taken, and the arguments are.
CvrDone ==
  /\ Handled /\ line' = line
  /\ op = "cvr" /\ ((~ vector /\ fifo = <<>>) \/ ~ CanMove)
  /\ op' = "none" /\ stage' = "words"
  /\ UNCHANGED <<coreSide, dest, togo, argPhase, lastDest>>

\* The hold is released by the burst that goes to where the sum goes.
Release ==
  IF lastDest = "sum" THEN outstanding' = 0 /\ sumSeen' = TRUE
                      ELSE UNCHANGED <<outstanding, sumSeen>>

BurstVars == <<codecVars, wasHeld, heldFor, counted, audioLive, rreq, line, hatched>>

\* A burst waits for room in the FIFO...
Burst ==
  /\ guest = "transfer" /\ stage = "words" /\ dest # "sum"
  /\ guest' = "drain" /\ op' = "burst"
  /\ Release
  /\ UNCHANGED <<BurstVars, coreSide, stage, dest, togo, argPhase, lastDest>>

\* ...and is written.
BurstDone ==
  /\ Handled /\ line' = line
  /\ op = "burst" /\ (Len(fifo) < DEPTH \/ ~ CanMove)
  /\ op' = "none" /\ togo' = togo - 1
  /\ stage' = IF togo = 1 THEN "free" ELSE "words"
  /\ Put(FALSE)
  /\ UNCHANGED <<vector, handler, dma, misplaced, dest, argPhase, lastDest>>

\* The sum ends the block; its arguments have just left the FIFO empty.
SumBurst ==
  /\ guest = "transfer" /\ stage = "words" /\ dest = "sum"
  /\ guest' = "idle" /\ stage' = "free" /\ togo' = 0
  /\ Release
  /\ Put(FALSE)
  /\ UNCHANGED <<BurstVars, vector, handler, dma, misplaced, op, dest, argPhase, lastDest>>

Between == stage = "free" /\ UNCHANGED portVars
PortEnableRreq == EnableRreq /\ Between
PortPop == Pop /\ Between
PortReadback == Readback /\ Between
PortNoSum == NoSum /\ Between
PortWallClock == WallClock /\ UNCHANGED portVars

Waits == IcrDone \/ CvrDone \/ BurstDone
Transfer == (\E d \in Dests : Icr(d)) \/ WriteArg \/ Cvr \/ Burst \/ SumBurst

PortNext ==
  \/ PortInterleave \/ PortDrain \/ CoreStep \/ PortWallClock
  \/ PortEnableRreq \/ PortPop \/ PortReadback \/ PortNoSum
  \/ Transfer \/ Waits

PortSpec == PortInit /\ [][PortNext]_allVars

\* As for DspDelivery; the core consumes what it can, and a transfer that is
\* begun is carried through.
PortFairSpec ==
  /\ PortSpec
  /\ WF_allVars(PortEnableRreq) /\ WF_allVars(PortPop)
  /\ WF_allVars(CoreStep) /\ WF_allVars(Waits)
  /\ WF_allVars(WriteArg \/ Cvr \/ Burst) /\ SF_allVars(SumBurst \/ PortNoSum)
  /\ WF_allVars(PortInterleave) /\ SF_allVars(PortInterleave /\ pc' # pc)
  /\ WF_allVars(PortWallClock)

-----------------------------------------------------------------------------
\* A word of a transfer goes where that transfer says: none is destroyed by
\* the reset of the next, taken for an argument, or sent on to the channel of
\* another (ot-dsp56k.h:18-22, ot-dsp-shim.cc:823-824).
RightPlace == ~ misplaced

\* The burst to where the sum goes releases the hold, whatever was left of the
\* transfer before it.
SumLands ==
  [][stage = "words" /\ dest = "sum" /\ guest' = "idle" => outstanding' = 0 /\ sumSeen']_allVars

\* With its transfers taken apart, the port does what DspDelivery says of it,
\* and the hold is released by the sum of the block and by no other
\* burst (ot-dsp-shim.cc:921-925).
Delivery == Spec /\ SumLands
=============================================================================
