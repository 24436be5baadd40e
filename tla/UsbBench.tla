------------------------------ MODULE UsbBench ------------------------------
(***************************************************************************)
(* The USB device controller and the scripted host on its other side       *)
(* (ot-board.c).  The guest programs the controller's registers and queues *)
(* transfer descriptors; the host sends commands over a socket, one at a   *)
(* time per endpoint and direction.  Bytes move when both have come: the   *)
(* guest has primed the endpoint and the host's operation is pending.      *)
(*                                                                         *)
(* Of a descriptor only its length counts.  The chain of a slot (endpoint  *)
(* and direction) holds its active descriptors, from cur_td on.            *)
(***************************************************************************)
EXTENDS Integers, Sequences, FiniteSets, SequencesExt

CONSTANTS
  UsbMixes,         \* bound: sets of slots that are in use in one behaviour
  Iso,           \* the slots of isochronous endpoints
  PACKET,        \* 64 bytes, in the unit of the lengths
  Lengths,       \* bound: the lengths of descriptors and of operations
  MaxChain       \* bound: descriptors the guest links

Slots == {"in0", "out0", "in1", "out1", "in3"}
Ins == {"in0", "in1", "in3"}
Control == {"in0", "out0"}

ASSUME UsbAssumption ==
  /\ UsbMixes \subseteq SUBSET Slots /\ Iso \subseteq Slots \ Control
  /\ PACKET \in Nat \ {0} /\ Lengths \subseteq Nat /\ MaxChain \in Nat

VARIABLES
  slots,                     \* those in use
  \* the controller
  bsvie, bsvis,              \* of OTGSC
  usbsts, usbintr, line,     \* status, mask, and the interrupt as last driven
  eplist,                    \* is EPLISTADDR programmed?
  setupsr, request,          \* is a SETUP there; the slot of its data
  epsr, epcomplete,
  stall,                     \* of EPCTRL0
  td,                        \* the chains
  \* the bench
  host_fd, op,               \* the connection; what the host waits for
  \* the host
  asking,                    \* a SETUP went out whose data it has not asked for
  wasReset,                  \* bound: it has reset the bus, once
  orphans,                   \* control operations that were pending then
  \* the guest
  boot, isr,                 \* where its bring-up, and its handler, are
  seen, done,                \* the status, and the completions, it has read
  idle                       \* slots whose last chain it knows to be done

otgVars == <<bsvie, bsvis>>
setupVars == <<setupsr, request>>
irqVars == <<usbsts, usbintr, line>>
epVars == <<epsr, epcomplete, td>>
hostVars == <<host_fd, op, asking, wasReset, orphans>>
firmwareVars == <<boot, isr, seen, done, idle>>
usbVars == <<slots, otgVars, irqVars, eplist, setupVars, stall, epVars, hostVars, firmwareVars>>

None == -1
Status == {"UI", "URI", "SRI"}

UsbInit ==
  /\ slots \in UsbMixes
  /\ bsvie = FALSE /\ bsvis = FALSE
  /\ usbsts = {} /\ usbintr = {} /\ line = FALSE
  /\ eplist = FALSE /\ setupsr = FALSE /\ request = "in0" /\ epsr = {} /\ epcomplete = {} /\ stall = {}
  /\ td = [s \in Slots |-> <<>>]
  /\ host_fd = FALSE /\ op = [s \in Slots |-> None]
  /\ asking = FALSE /\ wasReset = FALSE /\ orphans = {}
  /\ boot = "off" /\ isr = "none" /\ seen = {} /\ done = {} /\ idle = slots \ Control

-----------------------------------------------------------------------------
(* The interrupt line *)

\* ot_usb_irq_update(), of an OTGSC and a status.
Level(en, is, sts) == (en /\ is) \/ sts \cap usbintr # {}

\* A status bit is raised, and the line driven.
Raise(bits) ==
  /\ usbsts' = usbsts \cup bits
  /\ line' = Level(bsvie, bsvis, usbsts \cup bits)

-----------------------------------------------------------------------------
(* Where the two sides meet *)

Total(chain, i) == FoldLeft(LAMBDA a, b : a + b, 0, SubSeq(chain, 1, i))

\* One descriptor per poll of an isochronous endpoint; and what is less than a
\* packet ends a transfer.
EndsIn(s, n) == s \in Iso \/ n < PACKET

\* How many descriptors of its chain an operation of n bytes retires.
Retired(s, chain, n) ==
  IF s \in Ins
  THEN Cardinality({i \in DOMAIN chain :
         /\ Total(chain, i - 1) < n
         /\ \A j \in 1 .. i - 1 : ~EndsIn(s, chain[j])})
  ELSE Cardinality({i \in DOMAIN chain : i = 1 \/ Total(chain, i - 1) < n})

\* What stays pending of it.
Rest(s, chain, n) == SubSeq(chain, Retired(s, chain, n) + 1, Len(chain))

\* Mutant of Meet: the endpoint is not primed any more when the operation is done.
MeetOver(primed, chains, ops) ==
  LET met == IF host_fd /\ eplist THEN {s \in primed : ops[s] # None} ELSE {}
      rest == [s \in Slots |-> IF s \in met THEN Rest(s, chains[s], ops[s]) ELSE chains[s]]
  IN  /\ td' = rest
      /\ op' = [s \in Slots |-> IF s \in met THEN None ELSE ops[s]]
      /\ epsr' = primed \ met
      /\ epcomplete' = epcomplete \cup met
      /\ IF met # {} THEN Raise({"UI"}) ELSE UNCHANGED <<usbsts, line>>

\* ot_usbh_try(), ot_usbh_service(): where an operation and a primed chain have
\* met, bytes move, the operation is answered and the endpoint completes; it
\* stays primed for what is left of its chain.
Meet(primed, chains, ops) ==
  LET met == IF host_fd /\ eplist THEN {s \in primed : ops[s] # None} ELSE {}
      rest == [s \in Slots |-> IF s \in met THEN Rest(s, chains[s], ops[s]) ELSE chains[s]]
  IN  /\ td' = rest
      /\ op' = [s \in Slots |-> IF s \in met THEN None ELSE ops[s]]
      /\ epsr' = {s \in primed : s \in met => rest[s] # <<>>}
      /\ epcomplete' = epcomplete \cup met
      /\ IF met # {} THEN Raise({"UI"}) ELSE UNCHANGED <<usbsts, line>>

\* ot_usbh_stall_check(): a stall answers an operation.
Unstalled(halted, ops) == [s \in Slots |-> IF s \in halted THEN None ELSE ops[s]]

-----------------------------------------------------------------------------
(* The host: ot_usbh_cmd(), ot_usbh_accept_cb(), ot_usbh_read_cb() *)

Connect ==
  /\ ~host_fd
  /\ host_fd' = TRUE
  /\ UNCHANGED <<slots, otgVars, irqVars, eplist, setupVars, stall, epVars, op, asking, wasReset,
                 orphans, firmwareVars>>

Disconnect ==
  /\ host_fd
  /\ host_fd' = FALSE
  /\ op' = [s \in Slots |-> None]
  /\ asking' = FALSE /\ orphans' = {}
  /\ UNCHANGED <<slots, otgVars, irqVars, eplist, setupVars, stall, epVars, wasReset, firmwareVars>>

\* Has the guest not dealt with a bus reset yet?  The host gives it the time.
Resetting == "URI" \in usbsts \cup seen \/ isr = "reset"

\* "setup": refused before the guest has programmed its list.
Setup(r) ==
  /\ host_fd /\ eplist /\ ~asking /\ ~Resetting
  /\ \A s \in Control : op[s] = None \/ s \in orphans
  /\ stall' = {}
  /\ setupsr' = TRUE /\ request' = r
  /\ Raise({"UI"})
  /\ asking' = TRUE
  /\ UNCHANGED <<slots, otgVars, usbintr, eplist, epVars, host_fd, op, wasReset, orphans, firmwareVars>>

\* "in", "out": the data of a control transfer is asked for after its SETUP.
Ask(s, n) ==
  /\ host_fd /\ op[s] = None
  /\ s \in Control => asking /\ s = request
  /\ asking' = (asking /\ s \notin Control)
  /\ Meet(epsr, td, Unstalled(stall, [op EXCEPT ![s] = n]))
  /\ UNCHANGED <<slots, otgVars, usbintr, eplist, setupVars, stall, host_fd, wasReset, orphans, firmwareVars>>

\* "reset": the operations of the host stay.
BusReset ==
  /\ host_fd /\ ~wasReset
  /\ wasReset' = TRUE
  /\ epsr' = {} /\ epcomplete' = {} /\ setupsr' = FALSE
  /\ Raise({"URI"})
  /\ asking' = FALSE
  /\ orphans' = {s \in slots \cap Control : op[s] # None}
  /\ UNCHANGED <<request, slots, otgVars, usbintr, eplist, stall, td, host_fd, op, firmwareVars>>

\* ot_usb_frame_signal(): the frame clock, which comes with UI and no completion.
FrameSignal ==
  /\ Raise({"SRI", "UI"})
  /\ UNCHANGED <<slots, otgVars, usbintr, eplist, setupVars, stall, epVars, hostVars, firmwareVars>>

-----------------------------------------------------------------------------
(* The guest brings the controller up *)

\* Mutant of Latched: the session is reported by every write with the enable.
LatchedAlways(en, ack) == en

\* ot_usb_write() of OTGSC: the status latches on the edge of its enable.
Latched(en, ack) == (bsvis /\ ~ack) \/ (en /\ ~bsvie)

WriteOtgsc(en, ack) ==
  /\ bsvie' = en
  /\ bsvis' = Latched(en, ack)
  /\ line' = Level(en, Latched(en, ack), usbsts)

Enable ==
  /\ boot = "off"
  /\ boot' = "session"
  /\ WriteOtgsc(TRUE, FALSE)
  /\ UNCHANGED <<slots, usbsts, usbintr, eplist, setupVars, stall, epVars, hostVars, isr, seen,
                 done, idle>>

\* Its handler acknowledges, and keeps the enable.
AckSession ==
  /\ line /\ isr = "none" /\ bsvis
  /\ WriteOtgsc(TRUE, TRUE)
  /\ boot' = IF boot = "session" THEN "valid" ELSE boot
  /\ UNCHANGED <<slots, usbsts, usbintr, eplist, setupVars, stall, epVars, hostVars, isr, seen,
                 done, idle>>

SetList ==
  /\ boot = "valid" /\ ~line
  /\ boot' = "list"
  /\ eplist' = TRUE
  /\ UNCHANGED <<slots, otgVars, irqVars, setupVars, stall, epVars, hostVars, isr, seen, done,
                 idle>>

\* ot_usb_write() of USBINTR: a plain register, the line is not driven anew.
SetMask ==
  /\ boot = "list"
  /\ boot' = "up"
  /\ usbintr' = {"UI", "URI"}
  /\ UNCHANGED <<slots, otgVars, usbsts, line, eplist, setupVars, stall, epVars, hostVars, isr,
                 seen, done, idle>>

-----------------------------------------------------------------------------
(* The guest queues *)

Chains == UNION {[1 .. n -> Lengths] : n \in 1 .. MaxChain}

\* Mutant of Prime: the transfer waits for the host's next command.
PrimeOnly(s, chain) ==
  /\ td' = [td EXCEPT ![s] = chain]
  /\ epsr' = epsr \cup {s}
  /\ UNCHANGED <<usbsts, line, epcomplete, op>>

\* ot_usb_write() of EPPRIME: cur_td is loaded from the queue head.
Prime(s, chain) == Meet(epsr \cup {s}, [td EXCEPT ![s] = chain], op)

Queue(s) ==
  /\ boot = "up" /\ isr = "none" /\ s \in idle
  /\ \E chain \in Chains : Prime(s, chain)
  /\ idle' = idle \ {s}
  /\ UNCHANGED <<slots, otgVars, usbintr, eplist, setupVars, stall, host_fd, asking, wasReset, orphans,
                 boot, isr, seen, done>>

-----------------------------------------------------------------------------
(* The guest's handler *)

ReadStatus ==
  /\ line /\ isr = "none" /\ ~bsvis
  /\ isr' = "ack"
  /\ seen' = usbsts
  /\ UNCHANGED <<slots, otgVars, irqVars, eplist, setupVars, stall, epVars, hostVars, boot, done,
                 idle>>

\* ot_usb_write() of USBSTS clears what is written, and drives the line.
AckStatus ==
  /\ isr = "ack"
  /\ isr' = IF "URI" \in seen THEN "reset" ELSE "setup"
  /\ usbsts' = usbsts \ seen
  /\ line' = Level(bsvie, bsvis, usbsts \ seen)
  /\ seen' = {}
  /\ UNCHANGED <<slots, otgVars, usbintr, eplist, setupVars, stall, epVars, hostVars, boot, done,
                 idle>>

\* After a bus reset it clears and flushes everything, and forgets its chains.
HandleReset ==
  /\ isr = "reset"
  /\ isr' = "setup"
  /\ setupsr' = FALSE /\ epcomplete' = {} /\ epsr' = {}
  /\ line' = Level(bsvie, bsvis, usbsts)
  /\ td' = [s \in Slots |-> <<>>]
  /\ idle' = slots \ Control
  /\ UNCHANGED <<request, slots, otgVars, usbsts, usbintr, eplist, stall, hostVars, boot, seen, done>>

\* A SETUP is acknowledged, and what was queued for the one before is flushed.
ReadSetup ==
  /\ isr = "setup"
  /\ isr' = IF setupsr THEN "answer" ELSE "complete"
  /\ setupsr' = FALSE
  /\ epsr' = IF setupsr THEN epsr \ Control ELSE epsr
  /\ line' = IF setupsr THEN Level(bsvie, bsvis, usbsts) ELSE line
  /\ UNCHANGED <<request, slots, otgVars, usbsts, usbintr, eplist, stall, epcomplete, td, hostVars, boot,
                 seen, done, idle>>

\* The request is answered: with data or room for it, or, ot_usb_write() of
\* EPCTRL0, with a stall of both directions.
AnswerSetup ==
  /\ isr = "answer"
  /\ isr' = "complete"
  /\ \E n \in Lengths : Prime(request, <<n>>)
  /\ UNCHANGED <<slots, otgVars, usbintr, eplist, setupVars, stall, host_fd, asking, wasReset, orphans,
                 boot, seen, done, idle>>

Stall ==
  /\ isr = "answer"
  /\ isr' = "complete"
  /\ stall' = slots \cap Control
  /\ op' = Unstalled(slots \cap Control, op)
  /\ UNCHANGED <<slots, otgVars, irqVars, eplist, setupVars, epVars, host_fd, asking, wasReset, orphans,
                 boot, seen, done, idle>>

ReadComplete ==
  /\ isr = "complete"
  /\ isr' = "retire"
  /\ done' = epcomplete
  /\ UNCHANGED <<slots, otgVars, irqVars, eplist, setupVars, stall, epVars, hostVars, boot, seen,
                 idle>>

\* What it has read it acknowledges, and then looks for chains that are done.
Retire ==
  /\ isr = "retire"
  /\ isr' = "none"
  /\ epcomplete' = epcomplete \ done
  /\ line' = Level(bsvie, bsvis, usbsts)
  /\ idle' = idle \cup {s \in done \ Control : td[s] = <<>>}
  /\ done' = {}
  /\ UNCHANGED <<slots, otgVars, usbsts, usbintr, eplist, setupVars, stall, epsr, td, hostVars,
                 boot, seen>>

-----------------------------------------------------------------------------
Host ==
  \/ Connect \/ Disconnect \/ BusReset \/ FrameSignal
  \/ \E s \in slots \cap Control : Setup(s)
  \/ \E s \in slots, n \in Lengths : Ask(s, n)

BringUp == Enable \/ SetList \/ SetMask

Handler ==
  \/ AckSession \/ ReadStatus \/ AckStatus \/ HandleReset \/ ReadSetup \/ Stall
  \/ ReadComplete \/ Retire \/ AnswerSetup

UsbNext == Host \/ BringUp \/ Handler \/ \E s \in slots : Queue(s)

(* The guest's processor runs: an interrupt is taken, a handler ends, and what *)
(* it does outside of it goes on between interrupts.                           *)
UsbFairness ==
  /\ WF_usbVars(BringUp) /\ WF_usbVars(Handler)
  /\ \A s \in Slots : SF_usbVars(s \in slots /\ Queue(s))

UsbSpec == UsbInit /\ [][UsbNext]_usbVars /\ UsbFairness

-----------------------------------------------------------------------------
(* Properties *)

\* Never do both sides wait for each other: an endpoint the guest has primed
\* and an operation of the host on it have met, whichever came first, and an
\* operation on a stalled endpoint has been answered.  A primed endpoint has a
\* descriptor to move (ot_usbh_try(), ot_usbh_stall_check()).
NobodyWaits ==
  /\ host_fd /\ eplist => \A s \in epsr : op[s] = None
  /\ \A s \in stall : op[s] = None
  /\ \A s \in epsr : td[s] # <<>>

\* "one packet per poll; a short packet ends a bulk transfer" (ot-board.c:1977):
\* no operation goes on past a descriptor whose last packet is not full.
ShortPacketEnds ==
  [][\A s \in Ins : isr' = isr /\ s \in epsr /\ op[s] = None /\ Len(td'[s]) = Len(td[s]) - 2
       => td[s][1] % PACKET = 0]_usbVars

\* Every operation of the host is answered in the end.  Two things can hold it
\* up: a control operation that was pending over a bus reset waits for another
\* SETUP, and the line is stale when USBINTR was written over a status that
\* was set already (ot_usb_write(), ot_usbh_service()).
OpAnswered ==
  \A s \in Slots :
    op[s] # None ~>
      (op[s] = None \/ s \in orphans \/ line # Level(bsvie, bsvis, usbsts))

\* The guest's bring-up ends: its acknowledgement of the session does not
\* bring the interrupt back (ot_usb_write() of OTGSC).
BringsUp == <>(boot = "up")

=============================================================================
