--------------------------------- MODULE Ata ---------------------------------
(***************************************************************************)
(* The ATA controller and its CompactFlash card (board/ot-ata.c): the task *)
(* file as far as it steers a transfer, the drive's INTRQ and the line the *)
(* CPU sees, and the two timers that deliver completions late.             *)
(*                                                                         *)
(* The guest may touch any register at any time.  The device peeks at      *)
(* three words of guest memory to decide whether a completion may land;    *)
(* here they change at will, AtaDriver gives them the firmware's meaning.  *)
(* Sector contents, addresses and the scratch registers are left out.      *)
(***************************************************************************)
EXTENDS Integers

CONSTANTS
  WORDS,          \* data port accesses per sector
  BYTE,           \* 256: the values of a byte register
  GATE_MAX,       \* OT_ATA_GATE_MAX
  WR_POLL_MAX,    \* OT_WR_POLL_MAX
  CARD_PRESENT

ASSUME AtaAssumption ==
  /\ WORDS \in Nat \ {0}
  /\ BYTE \in Nat \ {0}
  /\ GATE_MAX \in Nat \ {0}
  /\ WR_POLL_MAX \in Nat \ {0}
  /\ CARD_PRESENT \in BOOLEAN

VARIABLES
  cr, ier,                     \* reset released, and interrupts unmasked
  xfer, xfer_left, buf_pos,    \* the transfer
  drq,                         \* ST_DRQ of the status register
  intrq, irq_level,            \* the drive's line, and what the CPU sees of it
  irq_timer, wr_timer,         \* armed?
  wr_pending, wr_polls,
  gate_armed, gate_polls,
  current,                     \* the command last written; "none" after a reset
  event, waiter, sectors_left  \* guest memory: is there a completion event, has
                               \* a task parked on it, ata_sectors_left

lineVars == <<intrq, irq_level, irq_timer>>
xferVars == <<xfer, xfer_left, buf_pos, drq>>
wrVars == <<wr_timer, wr_pending, wr_polls>>
gateVars == <<gate_armed, gate_polls>>
deviceVars == <<cr, ier, lineVars, xferVars, wrVars, gateVars, current>>
guestVars == <<event, waiter, sectors_left>>
ataVars == <<deviceVars, guestVars>>

\* IDENTIFY stands for TRANSLATE_SECT too, "nodata" for every command that ends
\* in ot_ata_complete_nodata(), "dma" for the two that never complete.
Commands == {"read", "identify", "write", "nodata", "dma"}

Counts == 1 .. BYTE    \* the sector count register, where 0 means 256

AtaInit ==
  /\ cr = FALSE /\ ier = FALSE
  /\ xfer = "none" /\ xfer_left = 0 /\ buf_pos = 0 /\ drq = FALSE
  /\ intrq = FALSE /\ irq_level = FALSE
  /\ irq_timer = FALSE /\ wr_timer = FALSE
  /\ wr_pending = FALSE /\ wr_polls = 0
  /\ gate_armed = FALSE /\ gate_polls = 0
  /\ current = "none"
  /\ event = FALSE /\ waiter = FALSE /\ sectors_left = 0

-----------------------------------------------------------------------------
\* ot_ata_set_irq() and ot_ata_update_irq(): the line, as the mask lets it
\* through, and whether a raise is still to come.
Drive(level, later) ==
  /\ intrq' = level
  /\ irq_level' = (level /\ ier)
  /\ irq_timer' = later

\* ot_ata_requester_parked(): somebody waits for the completion, or nobody will.
Parked == ~ event \/ waiter

Transfer(kind, n) ==
  /\ xfer' = kind
  /\ xfer_left' = n
  /\ buf_pos' = 0
  /\ drq' = (kind # "none")

-----------------------------------------------------------------------------
(* Register accesses *)

\* Mutant of Command: a write completes through the timer like the rest.
CommandCompletesWrite(cmd, n) ==
  LET completes == CARD_PRESENT /\ cmd # "dma"
  IN  /\ Drive(FALSE, completes)
      /\ gate_polls' = IF completes THEN 0 ELSE gate_polls
      /\ gate_armed' = (cmd # "read")
      /\ current' = cmd
      /\ wr_pending' = FALSE
      /\ wr_timer' = FALSE
      /\ IF ~ CARD_PRESENT \/ cmd = "dma" THEN UNCHANGED xferVars
         ELSE CASE cmd = "read" -> Transfer("to_host", n)
                [] cmd = "identify" -> Transfer("to_host", 1)
                [] cmd = "write" -> Transfer("from_host", n)
                [] cmd = "nodata" -> Transfer("none", 0)
      /\ UNCHANGED <<cr, ier, wr_polls, guestVars>>

\* ot_ata_command(): whatever was to be delivered is cancelled, and all but a
\* write and the DMA commands complete through the timer.
Command(cmd, n) ==
  LET completes == CARD_PRESENT /\ cmd \notin {"write", "dma"}
  IN  /\ Drive(FALSE, completes)
      /\ gate_polls' = IF completes THEN 0 ELSE gate_polls
      /\ gate_armed' = (cmd # "read")
      /\ current' = cmd
      /\ wr_pending' = FALSE
      /\ wr_timer' = FALSE
      /\ IF ~ CARD_PRESENT \/ cmd = "dma" THEN UNCHANGED xferVars
         ELSE CASE cmd = "read" -> Transfer("to_host", n)
                [] cmd = "identify" -> Transfer("to_host", 1)
                [] cmd = "write" -> Transfer("from_host", n)
                [] cmd = "nodata" -> Transfer("none", 0)
      /\ UNCHANGED <<cr, ier, wr_polls, guestVars>>

\* A data port access inside a sector.
NextWord ==
  /\ buf_pos + 1 < WORDS
  /\ buf_pos' = buf_pos + 1
  /\ UNCHANGED <<xfer, xfer_left, drq>>

\* Mutant of NextSector: the end of the transfer is seen one sector late.
NextSectorLate ==
  /\ buf_pos + 1 = WORDS
  /\ IF xfer_left # 0 THEN Transfer(xfer, xfer_left - 1) ELSE Transfer("none", 0)

\* The last access of a sector: the next one, or the end of the transfer.
NextSector ==
  /\ buf_pos + 1 = WORDS
  /\ IF xfer_left # 1 THEN Transfer(xfer, xfer_left - 1) ELSE Transfer("none", 0)

\* ot_ata_data_read(): the end of a sector lowers INTRQ, and the next sector
\* raises it at once.
DataRead ==
  /\ xfer = "to_host"
  /\ \/ NextWord /\ UNCHANGED lineVars
     \/ NextSector /\ Drive(xfer_left # 1, FALSE)
  /\ UNCHANGED <<cr, ier, wrVars, gateVars, current, guestVars>>

\* Mutant of Behind: the firmware's count is not looked at.
BehindNothing(dev_left) == FALSE

\* ot_ata_wr_fire(): the write completion is held back while the firmware's
\* count of sectors disagrees with the device's, but not for ever.
Behind(dev_left) == sectors_left # dev_left % BYTE

HeldBack(polls, dev_left) == Behind(dev_left) /\ polls + 1 < WR_POLL_MAX

Posted(polls, dev_left) ==
  /\ wr_polls' = IF Behind(dev_left) THEN polls + 1 ELSE polls
  /\ wr_pending' = HeldBack(polls, dev_left)

\* ot_ata_data_write(): the end of a sector lowers INTRQ and posts the
\* completion, which is tried at once.
DataWrite ==
  /\ xfer = "from_host"
  /\ \/ NextWord /\ UNCHANGED <<lineVars, wrVars>>
     \/ /\ NextSector
        /\ Posted(0, xfer_left - 1)
        /\ wr_timer' = (HeldBack(0, xfer_left - 1) \/ wr_timer)
        /\ Drive(~ HeldBack(0, xfer_left - 1), FALSE)
  /\ UNCHANGED <<cr, ier, gateVars, current, guestVars>>

\* STATUS read, or INT written to ICR: the two acknowledgements.
Acknowledge ==
  /\ Drive(FALSE, FALSE)
  /\ UNCHANGED <<cr, ier, xferVars, wrVars, gateVars, current, guestVars>>

WriteIer(on) ==
  /\ ier' = on
  /\ irq_level' = (intrq /\ on)
  /\ UNCHANGED <<cr, intrq, irq_timer, xferVars, wrVars, gateVars, current, guestVars>>

\* The control register: the drive leaves reset on a rising edge of CR_RESET.
WriteCr(released) ==
  /\ cr' = released
  /\ IF ~ cr /\ released
     THEN Transfer("none", 0) /\ Drive(FALSE, FALSE) /\ current' = "none"
     ELSE UNCHANGED <<xferVars, lineVars, current>>
  /\ UNCHANGED <<ier, wrVars, gateVars, guestVars>>

-----------------------------------------------------------------------------
(* Timers *)

\* Mutants of IrqFire: no gate; a gate without a bound, that opens for the
\* signal and not for who waits for it.
IrqFireUngated ==
  /\ irq_timer
  /\ Drive(TRUE, FALSE)
  /\ UNCHANGED <<cr, ier, xferVars, wrVars, gateVars, current, guestVars>>

IrqFireEndless ==
  /\ irq_timer
  /\ IF gate_armed /\ event THEN UNCHANGED lineVars ELSE Drive(TRUE, FALSE)
  /\ UNCHANGED <<cr, ier, xferVars, wrVars, gateVars, current, guestVars>>

\* ot_ata_irq_fire(): poll again while the requester is not parked, but not for
\* ever.
IrqFire ==
  LET shut == gate_armed /\ ~ Parked
      again == shut /\ gate_polls + 1 < GATE_MAX
  IN  /\ irq_timer
      /\ gate_polls' = IF shut THEN gate_polls + 1 ELSE gate_polls
      /\ IF again THEN UNCHANGED lineVars ELSE Drive(TRUE, FALSE)
      /\ UNCHANGED <<cr, ier, xferVars, wrVars, gate_armed, current, guestVars>>

\* ot_ata_wr_fire() from its timer; it may be left over from an earlier sector.
WrFire ==
  LET again == wr_pending /\ HeldBack(wr_polls, xfer_left)
  IN  /\ wr_timer
      /\ wr_timer' = again
      /\ IF wr_pending THEN Posted(wr_polls, xfer_left) ELSE UNCHANGED <<wr_pending, wr_polls>>
      /\ IF wr_pending /\ ~ again THEN Drive(TRUE, irq_timer) ELSE UNCHANGED lineVars
      /\ UNCHANGED <<cr, ier, xferVars, gateVars, current, guestVars>>

\* The guest's memory, as far as the device looks at it.
GuestMemory ==
  /\ event' \in BOOLEAN
  /\ waiter' \in BOOLEAN
  /\ sectors_left' \in 0 .. BYTE - 1
  /\ UNCHANGED deviceVars

AtaNext ==
  \/ \E cmd \in Commands, n \in Counts : Command(cmd, n)
  \/ DataRead \/ DataWrite \/ Acknowledge
  \/ \E on \in BOOLEAN : WriteIer(on) \/ WriteCr(on)
  \/ IrqFire \/ WrFire
  \/ GuestMemory

AtaSpec == AtaInit /\ [][AtaNext]_ataVars

-----------------------------------------------------------------------------
(* What holds for any guest *)

FlagsOK ==
  /\ cr \in BOOLEAN /\ ier \in BOOLEAN
  /\ drq \in BOOLEAN
  /\ intrq \in BOOLEAN /\ irq_level \in BOOLEAN
  /\ irq_timer \in BOOLEAN /\ wr_timer \in BOOLEAN
  /\ wr_pending \in BOOLEAN
  /\ gate_armed \in BOOLEAN
  /\ event \in BOOLEAN /\ waiter \in BOOLEAN

CountsOK ==
  /\ xfer \in {"none", "to_host", "from_host"}
  /\ xfer_left \in 0 .. BYTE
  /\ buf_pos \in 0 .. WORDS - 1
  /\ wr_polls \in 0 .. WR_POLL_MAX
  /\ gate_polls \in 0 .. GATE_MAX
  /\ current \in Commands \union {"none"}
  /\ sectors_left \in 0 .. BYTE - 1

AtaTypeOK == FlagsOK /\ CountsOK

\* Whatever the guest does to the registers and in whatever order, DRQ is up
\* exactly while sectors remain, and the unsigned count of them never passes
\* below zero (ot-ata.c:614-617, 645-649).
TransferWhole == (drq <=> xfer # "none") /\ (drq <=> xfer_left > 0)

\* A completion on its way belongs to the command last written: a read's or a
\* nodata command's never lands in a write, a write's never in another command
\* (ot-ata.c:310-317, 521-523).  After a reset see ResetIsClean.
NoStaleCompletion ==
  /\ irq_timer => current \in {"read", "identify", "nodata"}
  /\ wr_pending => current \in {"write", "dma", "none"}
  /\ ~ (irq_timer /\ wr_pending)

\* "On release, a clean task file" (ot-ata.c:704): with no command written
\* since the reset there is nothing to raise INTRQ for.
ResetIsClean == current = "none" => ~ intrq
=============================================================================
