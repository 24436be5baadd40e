----------------------------- MODULE DspDelivery -----------------------------
(***************************************************************************)
(* The delivery of a block to the DSP: board/ot-dsp-shim.cc (stepRound(),  *)
(* ot_dsp_interleave(), the port's reads and bursts) and the frame line of *)
(* board/ot-dsp-port.c, between two programs that are not part of the      *)
(* repository: the codec's payload and the firmware.                       *)
(*                                                                         *)
(* The codec crosses into a block, publishes the index of its bank in the  *)
(* one-word transmit latch, renders, and parks at its block-top poll until *)
(* the ESAI clock lets it cross again.  The published word raises the      *)
(* frame interrupt; the guest takes it and delivers the block's transfers, *)
(* the last of which is as a rule the sum.  If the codec crosses before    *)
(* that, the rest lands in the wrong bank: the emulator holds the codec at *)
(* the poll instead, for 250 ms at the most.                               *)
(*                                                                         *)
(* Everything runs on the vCPU thread: the codec is stepped at the TB      *)
(* boundaries, where the hold applies, and inside the register handlers    *)
(* that wait for the core, where it does not.  One step of the codec here  *)
(* is as many of its instructions as it takes to get somewhere.  The       *)
(* default interleave of one round to a tick is the one modelled; the      *)
(* blocks it ships are AudioLink's.                                        *)
(***************************************************************************)
EXTENDS Integers

CONSTANTS
  HOLD_ON,    \* -M octatrack,hold=
  HOLD_MAX,   \* kDeliveryHold, in ticks of the wall clock
  OUT_MAX     \* where the count of outstanding deliveries saturates

ASSUME DeliveryAssumption ==
  /\ HOLD_ON \in BOOLEAN
  /\ HOLD_MAX \in Nat
  /\ OUT_MAX \in Nat \ {0}

VARIABLES
  pc,           \* where the codec is
  tx,           \* its transmit latch is full
  outstanding,  \* pubsPopped - sumsLanded
  sumSeen,      \* g_sumSeen
  audioLive,    \* g_audioLive
  wasHeld,      \* stepRound()'s static
  heldFor,      \* the wall clock since heldSince
  rreq,         \* ICR[RREQ]
  line,         \* hreq_level
  guest,        \* where the firmware is in its delivery
  counted,      \* did its take count as a publication?
  hatched       \* has the hatch fired since?

codecVars == <<pc, tx>>
holdVars == <<outstanding, wasHeld, heldFor>>
guestVars == <<guest, counted, sumSeen, audioLive, rreq>>
vars == <<codecVars, holdVars, guestVars, line, hatched>>

Init ==
  /\ pc = "poll" /\ tx = FALSE
  /\ outstanding = 0
  /\ sumSeen = FALSE /\ audioLive = FALSE
  /\ wasHeld = FALSE /\ heldFor = 0
  /\ rreq = FALSE /\ line = FALSE
  /\ guest = "idle" /\ counted = FALSE /\ hatched = FALSE

AtBlockPoll == pc = "poll"

-----------------------------------------------------------------------------
(* The codec's program *)

CodecStep ==
  \/ /\ pc = "poll"                  \* whether the clock lets it go
     /\ pc' \in {"poll", "publish"}
     /\ UNCHANGED tx
  \/ /\ pc = "publish"               \* it spins on HTDE
     /\ tx' = TRUE
     /\ pc' = IF tx THEN "publish" ELSE "render"
  \/ /\ pc = "render"
     /\ pc' = "poll"
     /\ UNCHANGED tx

-----------------------------------------------------------------------------
(* One round of both cores, at a TB boundary *)

\* Mutant of Outstanding: the hold is not armed before the codec's own output.
OutstandingLate == HOLD_ON /\ audioLive /\ outstanding > 1

Outstanding == HOLD_ON /\ audioLive /\ outstanding > 0

\* The latch holds an unread word: only the guest can release the core.
HeldByLatch ==
  /\ tx
  /\ UNCHANGED <<codecVars, outstanding, wasHeld, heldFor, hatched>>

HeldByDelivery ==
  /\ ~ tx /\ Outstanding /\ AtBlockPoll
  /\ wasHeld => heldFor <= HOLD_MAX
  /\ wasHeld' = TRUE
  /\ heldFor' = IF wasHeld THEN heldFor ELSE 0
  /\ UNCHANGED <<codecVars, outstanding, hatched>>

\* The 250 ms are up: the deliveries are taken for landed, and the core runs.
Hatch ==
  /\ ~ tx /\ Outstanding /\ AtBlockPoll
  /\ wasHeld /\ heldFor > HOLD_MAX
  /\ outstanding' = 0
  /\ hatched' = TRUE
  /\ wasHeld' = FALSE
  /\ CodecStep
  /\ UNCHANGED heldFor

RunFree ==
  /\ ~ tx /\ ~ (Outstanding /\ AtBlockPoll)
  /\ wasHeld' = FALSE
  /\ CodecStep
  /\ UNCHANGED <<outstanding, heldFor, hatched>>

\* Mutant of StepRound: a delivery is held for as long as it takes.
StepRoundNoHatch ==
  \/ HeldByLatch \/ RunFree
  \/ /\ ~ tx /\ Outstanding /\ AtBlockPoll
     /\ UNCHANGED <<codecVars, outstanding, wasHeld, heldFor, hatched>>

StepRound == HeldByLatch \/ HeldByDelivery \/ Hatch \/ RunFree

HreqSync == line' = (rreq /\ tx')

\* ot_dsp_interleave(): not from inside a register handler.
Interleave ==
  /\ guest # "drain"
  /\ StepRound
  /\ HreqSync
  /\ UNCHANGED guestVars

-----------------------------------------------------------------------------
(* The port, as the firmware uses it *)

HreqUpdate == line' = (rreq' /\ tx')

\* ICR with RREQ, at bring-up.
EnableRreq ==
  /\ ~ rreq
  /\ rreq' = TRUE
  /\ UNCHANGED <<codecVars, holdVars, guest, counted, sumSeen, audioLive, hatched>>
  /\ HreqUpdate

\* The frame interrupt, and the pop of the published index.
Pop ==
  /\ line /\ guest = "idle"
  /\ guest' = "transfer"
  /\ tx' = FALSE
  /\ counted' = sumSeen
  /\ outstanding' = IF sumSeen /\ outstanding < OUT_MAX THEN outstanding + 1 ELSE outstanding
  /\ hatched' = FALSE
  /\ UNCHANGED <<pc, wasHeld, heldFor, sumSeen, audioLive, rreq>>
  /\ HreqUpdate

\* A transfer is set up with ICR and CVR, and its words are written; each of
\* the three may wait for the core, and steps it meanwhile.
Handle ==
  /\ guest = "transfer"
  /\ guest' = "drain"
  /\ UNCHANGED <<codecVars, holdVars, counted, sumSeen, audioLive, rreq, line, hatched>>

Drain ==
  /\ guest = "drain"
  /\ CodecStep
  /\ UNCHANGED <<holdVars, guestVars, line, hatched>>

\* The ICR handler sets the line again when it is done, the others do not.
Handled ==
  /\ guest = "drain"
  /\ guest' = "transfer"
  /\ UNCHANGED <<codecVars, holdVars, counted, sumSeen, audioLive, rreq, hatched>>
  /\ HreqUpdate \/ UNCHANGED line

\* A readback of rendered tracks; a word of it that is not zero arms the hold.
\* It empties the latch, and if the codec has been carried past its poll, the
\* word it takes first is the next published index.
Readback ==
  /\ guest = "transfer"
  /\ tx' = FALSE
  /\ audioLive' \in {audioLive, TRUE}
  /\ UNCHANGED <<pc, holdVars, guest, counted, sumSeen, rreq, hatched>>
  /\ HreqUpdate

\* The last transfer of a block, the burst to 0x6400.
Sum ==
  /\ guest = "transfer"
  /\ guest' = "idle"
  /\ sumSeen' = TRUE
  /\ outstanding' = 0
  /\ UNCHANGED <<codecVars, wasHeld, heldFor, counted, audioLive,
                 rreq, line, hatched>>

\* The firmware guards the sum with two conditions: a block may go without.
NoSum ==
  /\ guest = "transfer"
  /\ guest' = "idle"
  /\ UNCHANGED <<codecVars, holdVars, counted, sumSeen, audioLive, rreq, line, hatched>>

\* The wall clock, as far as the hold reads it.
WallClock ==
  /\ wasHeld /\ heldFor <= HOLD_MAX
  /\ heldFor' = heldFor + 1
  /\ UNCHANGED <<codecVars, outstanding, wasHeld, guestVars, line, hatched>>

Finish == Sum \/ NoSum
Guest == EnableRreq \/ Pop \/ Handle \/ Handled \/ Readback \/ Finish

Next == Interleave \/ Drain \/ Guest \/ WallClock

Spec == Init /\ [][Next]_vars

\* The guest runs and ends its deliveries, its quanta are polled, the core
\* does not spin at the poll for ever, and the wall clock goes on.
FairSpec ==
  /\ Spec
  /\ WF_vars(EnableRreq) /\ WF_vars(Pop) /\ WF_vars(Handled) /\ SF_vars(Finish)
  /\ WF_vars(Interleave) /\ SF_vars(Interleave /\ pc' # pc)
  /\ WF_vars(WallClock)

-----------------------------------------------------------------------------
TypeOK ==
  /\ pc \in {"poll", "publish", "render"}
  /\ outstanding \in 0 .. OUT_MAX
  /\ heldFor \in 0 .. HOLD_MAX + 1
  /\ guest \in {"idle", "transfer", "drain"}
  /\ {tx, sumSeen, audioLive, wasHeld, rreq, line, counted, hatched} \subseteq BOOLEAN

\* A tick never lets the codec cross while the guest is in the middle of a
\* counted delivery, once audio can be heard: only the hatch does
\* (ot-dsp-shim.cc:364-375, 432-470).
Crosses == pc = "poll" /\ pc' # "poll"
NoTear ==
  [][Crosses /\ guest = "transfer" /\ counted /\ audioLive /\ HOLD_ON => hatched']_vars

\* The frame line is never up without a word to take: a stale one would have
\* the guest pop the last word again (ot-dsp-port.c:63-69, 83-99).
LineHonest == line => rreq /\ tx

\* Every published index is taken: the line goes up for it, whatever stepped
\* the core to it.
PublishedIsTaken == tx ~> ~ tx

\* No hold lasts for ever, even when the delivery it waits for never ends in a
\* sum (ot-dsp-shim.cc:367-369).
HoldEnds == pc = "poll" ~> pc # "poll"

\* The codec goes on: neither a full latch nor a delivery that fails to end
\* stops it for good (ot-dsp-shim.cc:364-375, 421-455).
CodecGoesOn == PublishedIsTaken /\ HoldEnds
=============================================================================
