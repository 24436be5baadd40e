------------------------------ MODULE AtaDriver ------------------------------
(***************************************************************************)
(* The ATA controller under the firmware's driver: a task that issues one  *)
(* request at a time, and the interrupt handler that moves the data and    *)
(* signals the completion event.  The firmware is not part of the          *)
(* repository; it is modelled as far as the comments of board/ot-ata.c,    *)
(* which disassemble it, and the device's reactions to it say.             *)
(*                                                                         *)
(* The hazard: the requester publishes the event, writes the command and   *)
(* then reads the event pointer again, which the handler clears when it    *)
(* signals.  An INTRQ in between parks the requester on a null event, and  *)
(* the card is lost for good.  Writes have a hazard of their own: the      *)
(* handler trusts a count of sectors that the task updates only after it   *)
(* has pushed a sector.                                                    *)
(***************************************************************************)
EXTENDS Ata

CONSTANT VCPU_STALLS   \* may virtual time pass with the vCPU standing still?

\* Both gates are polled 25000 times before they give up, more often than it takes
\* the vCPU to get out of the window.
ASSUME StallAssumption ==
  /\ VCPU_STALLS \in BOOLEAN
  /\ GATE_MAX > 1
  /\ WR_POLL_MAX > 2
  /\ BYTE > 1

VARIABLES
  task,       \* where the requester is
  isr,        \* where the handler is, or "off"
  request,    \* the command of the current request, or "none"
  count,      \* its sectors
  found,      \* the requester's own copy of the event pointer: is it non-null?
  signals,    \* signals on the event that nobody has waited for yet
  ran         \* has the vCPU run since the last timer?

driverVars == <<task, isr, request, count, found, signals, ran>>
vars == <<ataVars, driverVars>>

Init ==
  /\ AtaInit
  /\ task = "idle" /\ isr = "off"
  /\ request = "none" /\ count = 0
  /\ found = FALSE /\ signals = 0
  /\ ran = FALSE

\* The firmware's byte counter.
OneLess(n) == (n - 1) % BYTE

-----------------------------------------------------------------------------
(* The requester; it runs only while the handler does not *)

TaskStep(from, to) ==
  /\ task = from /\ isr = "off"
  /\ task' = to
  /\ ran' = TRUE

\* The drive is brought up once: reset released, interrupts unmasked.
BringUp ==
  /\ ~ ier
  /\ TaskStep("idle", "idle")
  /\ IF cr THEN WriteIer(TRUE) ELSE WriteCr(TRUE)
  /\ UNCHANGED <<isr, request, count, found, signals>>

\* A request is set up with interrupts off: with an event to wait on, or
\* without one, when nobody cares for the completion.
Publish ==
  /\ ier /\ request = "none"
  /\ TaskStep("idle", "issue")
  /\ \E cmd \in Commands \ {"dma"}, n \in Counts :
       /\ request' = cmd
       /\ count' = n
       /\ sectors_left' = IF cmd = "identify" THEN 1 % BYTE ELSE n % BYTE
  /\ event' \in BOOLEAN
  /\ waiter' = FALSE
  /\ found' = event'
  /\ signals' = 0
  /\ UNCHANGED <<deviceVars, isr>>

\* A read is not waited for on the event but spun on, a write pushes its first
\* sector itself, everything else reads the event pointer again and parks.
Issue ==
  /\ TaskStep("issue", CASE request = "write" -> "push"
                         [] request # "write" /\ ~ event -> "idle"
                         [] request = "read" /\ event -> "spin"
                         [] OTHER -> "reread")
  /\ Command(request, count)
  /\ UNCHANGED <<isr, request, count, found, signals>>

Push ==
  /\ drq
  /\ TaskStep("push", IF buf_pos + 1 = WORDS THEN "account" ELSE "push")
  /\ DataWrite
  /\ UNCHANGED <<isr, request, count, found, signals>>

\* ata_sectors_left is decremented with interrupts on and no device access in
\* between (0x4001494a).
Account ==
  /\ TaskStep("account", IF found THEN "wait" ELSE "idle")
  /\ sectors_left' = OneLess(sectors_left)
  /\ UNCHANGED <<deviceVars, event, waiter, isr, request, count, found, signals>>

Reread ==
  /\ TaskStep("reread", "wait")
  /\ found' = event
  /\ UNCHANGED <<ataVars, isr, request, count, signals>>

\* The wait primitive: on a null event it parks the task for ever.
Wait ==
  /\ TaskStep("wait", IF ~ found THEN "wedged" ELSE IF signals > 0 THEN "idle" ELSE "parked")
  /\ waiter' = (found /\ signals = 0)
  /\ signals' = 0
  /\ UNCHANGED <<deviceVars, event, sectors_left, isr, request, count, found>>

Spin ==
  /\ signals > 0
  /\ TaskStep("spin", "idle")
  /\ signals' = 0
  /\ UNCHANGED <<ataVars, isr, request, count, found>>

-----------------------------------------------------------------------------
(* The interrupt handler, at IPL 5 *)

IsrStep(from, to) ==
  /\ isr = from
  /\ isr' = to
  /\ ran' = TRUE

\* The request is set up at IPL 7; otherwise the line is served at once.
Enter ==
  /\ irq_level
  /\ IsrStep("off", "ack")
  /\ UNCHANGED <<ataVars, task, request, count, found, signals>>

Ack ==
  /\ Acknowledge
  /\ IsrStep("ack", IF request = "nodata" \/ (request = "write" /\ sectors_left = 0)
                    THEN "signal" ELSE "transfer")
  /\ UNCHANGED <<task, request, count, found, signals>>

\* It spins on DRQ until it may move the next word (0x4001551e).
Move ==
  /\ drq
  /\ IF request = "write" THEN DataWrite ELSE DataRead
  /\ IsrStep("transfer", IF buf_pos + 1 = WORDS THEN "count" ELSE "transfer")
  /\ UNCHANGED <<task, request, count, found, signals>>

Count ==
  /\ sectors_left' = OneLess(sectors_left)
  /\ IsrStep("count", IF request # "write" /\ sectors_left' = 0 THEN "signal" ELSE "off")
  /\ UNCHANGED <<deviceVars, event, waiter, task, request, count, found, signals>>

\* Signal the event, if there is one, and clear the pointer.
Signal ==
  /\ IsrStep("signal", "off")
  /\ event' = FALSE
  /\ waiter' = FALSE
  /\ task' = IF event /\ waiter THEN "idle" ELSE task
  /\ signals' = IF event /\ ~ waiter THEN signals + 1 ELSE signals
  /\ request' = "none"
  /\ UNCHANGED <<deviceVars, sectors_left, count, found>>

-----------------------------------------------------------------------------
(* Virtual time.  Unless it may stall, the vCPU retires at least one of the *)
(* steps above between two polls of a timer, if it has any to take.        *)

Tick ==
  /\ VCPU_STALLS \/ ran \/ (isr = "off" /\ task \in {"idle", "spin", "parked", "wedged"})
  /\ ran' = FALSE
  /\ IrqFire \/ WrFire
  /\ UNCHANGED <<task, isr, request, count, found, signals>>

TaskProgress == Issue \/ Push \/ Account \/ Reread \/ Wait \/ Spin
IsrProgress == Enter \/ Ack \/ Move \/ Count \/ Signal

Next == BringUp \/ Publish \/ TaskProgress \/ IsrProgress \/ Tick

Spec == Init /\ [][Next]_vars

\* The vCPU runs, and so does virtual time.
FairSpec == Spec /\ WF_vars(TaskProgress \/ IsrProgress) /\ WF_vars(Tick)

-----------------------------------------------------------------------------
TypeOK ==
  /\ AtaTypeOK
  /\ task \in {"idle", "issue", "push", "account", "reread", "wait", "spin", "parked", "wedged"}
  /\ isr \in {"off", "ack", "transfer", "count", "signal"}
  /\ request \in Commands \union {"none"}
  /\ count \in 0 .. BYTE
  /\ found \in BOOLEAN
  /\ signals \in 0 .. 1
  /\ ran \in BOOLEAN

\* The requester never waits on a null event: no completion lands between the
\* command and the moment the requester has read the pointer again
\* (ot-ata.c:119-164, 328-366).
NoWedge == task # "wedged"

\* The handler never spins on a DRQ that will not come: it is never entered
\* with a stale count of sectors (ot-ata.c:97-112, 383-404).
NoSpin == isr = "transfer" => drq

\* Every request completes: none is lost to an acknowledgement, to the mask or
\* to a timer that was cancelled.
Completes == request # "none" ~> request = "none"
=============================================================================
