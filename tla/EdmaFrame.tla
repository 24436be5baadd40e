------------------------------ MODULE EdmaFrame ------------------------------
(***************************************************************************)
(* The eDMA engine under the firmware's audio block loop: the frame        *)
(* interrupt handler at IPL 5, which masks its own source, arms channel 1, *)
(* and some instructions later clears the state counter; and the state     *)
(* handler at IPL 6, vectored by the completions of channels 0 and 7,      *)
(* which dispatches on that counter through a table without a bounds       *)
(* check.  The firmware is not part of the repository; it is modelled as   *)
(* far as the comments of board/ot-board.c and the symbols of              *)
(* re/coldfire.syms describe it.                                           *)
(*                                                                         *)
(* The hazard: the completion of channel 7 overtakes the clearing of the   *)
(* counter.  The state handler then starts in the last state of the block  *)
(* before, which does not acknowledge channel 7, and never leaves.         *)
(***************************************************************************)
EXTENDS Edma

VARIABLES
  frame,    \* where the frame handler is, or "off"
  state,    \* where the state handler is, or "off"
  body,     \* the state it dispatched last in this block, or STATES
  masked,   \* is the frame interrupt masked?
  hreq,     \* the DSP's request, which is the frame interrupt
  ran       \* has the guest retired anything since the last poll?

cpuVars == <<frame, state, body, masked, hreq, ran>>
vars == <<edmaVars, cpuVars>>

LAST == STATES - 1

\* The boot task has set up the channels: 1 links to 6, 6 to 7, and 7 and 0
\* interrupt.  GATE_MAX is 300000 instructions and the handler needs six.
ASSUME FrameAssumption ==
  /\ {0, 1, 6, 7} \subseteq CHANNELS
  /\ LINK_DEPTH >= 3
  /\ STATES >= 3
  /\ GATE_MAX >= 2

Wired == [ch \in CHANNELS |->
            CASE ch = 1 -> [int |-> FALSE, link |-> 6]
              [] ch = 6 -> [int |-> FALSE, link |-> 7]
              [] ch \in {0, 7} -> [int |-> TRUE, link |-> NoLink]
              [] OTHER -> [int |-> FALSE, link |-> NoLink]]

Init ==
  /\ csr = Wired
  /\ intflags = {} /\ lines = {} /\ pending = {}
  /\ held = 0 /\ ctr = 0 /\ aborted = FALSE
  /\ frame = "off" /\ state = "off"
  /\ body = STATES
  /\ masked = FALSE /\ hreq = FALSE
  /\ ran = FALSE

-----------------------------------------------------------------------------
(* The frame handler; it runs only while the state handler does not *)

FrameStep(from, to) ==
  /\ ~ aborted
  /\ frame = from /\ state = "off" /\ lines = {}
  /\ frame' = to
  /\ ran' = TRUE

\* The handler's fourth instruction masks its own source (0x4000aada).
EnterFrame ==
  /\ hreq /\ ~ masked
  /\ FrameStep("off", "arm")
  /\ masked' = TRUE
  /\ body' = STATES
  /\ UNCHANGED <<edmaVars, state, hreq>>

\* TCD1.CSR = 0x0621: START, and a link to channel 6 (0x4000ac12).
Arm ==
  /\ FrameStep("arm", "block")
  /\ WriteCsr(1, FALSE, 6, TRUE)
  /\ UNCHANGED <<state, body, masked, hreq>>

\* The pointer to the block (0x4000ac26).
SetBlock ==
  /\ FrameStep("block", "clear")
  /\ UNCHANGED <<edmaVars, state, body, masked, hreq>>

\* The state counter (0x4000ac32).
ClearCtr ==
  /\ FrameStep("clear", "rest")
  /\ ctr' = 0
  /\ UNCHANGED <<csr, intflags, lines, pending, held, aborted, state, body, masked, hreq>>

\* What is left of the handler; the DSP has been answered, and the return
\* gives way to the next request.
LeaveFrame ==
  /\ FrameStep("rest", "off")
  /\ hreq' = FALSE
  /\ UNCHANGED <<edmaVars, state, body, masked>>

-----------------------------------------------------------------------------
(* The state handler *)

StateStep(from, to) ==
  /\ ~ aborted
  /\ state = from
  /\ state' = to
  /\ ran' = TRUE

EnterState ==
  /\ lines \intersect {0, 7} # {}
  /\ StateStep("off", "ack")
  /\ UNCHANGED <<edmaVars, frame, body, masked, hreq>>

\* Its first act, in every state, is to acknowledge channel 0.
AckState ==
  /\ StateStep("ack", "dispatch")
  /\ WriteCint(0)
  /\ UNCHANGED <<frame, body, masked, hreq>>

\* jmp through the table; state 0 is the one that acknowledges channel 7.
Dispatch ==
  /\ StateStep("dispatch", IF ctr < LAST THEN "transfer" ELSE "close")
  /\ body' = ctr
  /\ IF ctr = 0 THEN WriteCint(7) ELSE UNCHANGED edmaVars
  /\ UNCHANGED <<frame, masked, hreq>>

\* Every transfer state ends with a store to SSRT; the last sends the sum, if
\* there is one to send.
Transfer ==
  /\ StateStep("transfer", "count")
  /\ WriteSsrt(0)
  /\ UNCHANGED <<frame, body, masked, hreq>>

SkipSum ==
  /\ body = LAST - 1
  /\ StateStep("transfer", "off")
  /\ ctr' = ctr + 1
  /\ masked' = FALSE
  /\ UNCHANGED <<csr, intflags, lines, pending, held, aborted, frame, body, hreq>>

\* addql #1 (0x400049c0).
CountState ==
  /\ StateStep("count", "off")
  /\ ctr' = ctr + 1
  /\ UNCHANGED <<csr, intflags, lines, pending, held, aborted, frame, body, masked, hreq>>

\* State 7 unmasks the frame interrupt.
CloseBlock ==
  /\ StateStep("close", "off")
  /\ masked' = FALSE
  /\ UNCHANGED <<edmaVars, frame, body, hreq>>

-----------------------------------------------------------------------------
(* The task level, the DSP, and the poll *)

Idle ==
  /\ ~ aborted
  /\ frame = "off" /\ state = "off" /\ lines = {}
  /\ hreq => masked
  /\ ran' = TRUE
  /\ UNCHANGED <<edmaVars, frame, state, body, masked, hreq>>

DspRequest ==
  /\ frame = "off"
  /\ hreq' = TRUE
  /\ UNCHANGED <<edmaVars, frame, state, body, masked, ran>>

Poll ==
  /\ ran
  /\ ran' = FALSE
  /\ GatePoll
  /\ UNCHANGED <<frame, state, body, masked, hreq>>

FrameHandler == EnterFrame \/ Arm \/ SetBlock \/ ClearCtr \/ LeaveFrame
StateHandler ==
  EnterState \/ AckState \/ Dispatch \/ Transfer \/ SkipSum \/ CountState \/ CloseBlock

Next == FrameHandler \/ StateHandler \/ Idle \/ DspRequest \/ Poll

Spec == Init /\ [][Next]_vars

\* The vCPU retires instructions, and each quantum of them polls the gate.
FairSpec ==
  Spec /\ WF_vars(FrameHandler \/ StateHandler \/ Idle) /\ WF_vars(Poll)

-----------------------------------------------------------------------------
\* The counter stays inside the table, which nothing else guards
\* (ot-board.c:1480-1494).
TypeOK ==
  /\ EdmaTypeOK
  /\ ctr <= LAST
  /\ frame \in {"off", "arm", "block", "clear", "rest"}
  /\ state \in {"off", "ack", "dispatch", "transfer", "count", "close"}
  /\ body \in 0 .. STATES
  /\ masked \in BOOLEAN
  /\ hreq \in BOOLEAN
  /\ ran \in BOOLEAN

\* The completion that opens a block is dispatched on a cleared counter
\* (ot-board.c:779-786, 793-816).
NoStaleDispatch == state = "dispatch" /\ 7 \in intflags => ctr = 0

\* "While the completion is held, the state ISR cannot run - it is vectored by
\* the very ch7 INTMAJOR being held" (ot-board.c:817-820): no other completion
\* is left to vector it, from this block or the one before.
HeldIsQuiet == pending # {} => state = "off" /\ lines = {} /\ masked

\* "There is NO ESCAPE", and none is needed: the counter is cleared before the
\* bound, though each hold is measured from its own arm (ot-board.c:826-830).
NeverAborts == ~ aborted

\* The firmware's loop comes out as it was meant: one pass over the states for
\* every frame interrupt, in order.
L == INSTANCE BlockLoop WITH
       at <- IF masked THEN body ELSE STATES + 1
InOrder == L!Loop

\* Every block that is opened closes: the state handler neither starves the
\* frame handler nor waits for a completion that is never delivered.
BlocksClose == masked ~> ~ masked
=============================================================================
