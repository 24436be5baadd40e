------------------------------ MODULE AtaProofs ------------------------------
(***************************************************************************)
(* Proofs about the ATA controller: what holds for any guest whatever,     *)
(* that its gate keeps the firmware's requester from the null event, and   *)
(* that its hold keeps the handler's count of sectors true.                *)
(***************************************************************************)
EXTENDS AtaDriver, TLAPS

-----------------------------------------------------------------------------
(* The controller under an arbitrary guest *)

\* The inductive invariant adds what bounds the two poll counters, and that
\* only a write command makes the device take data.
DeviceInv ==
  /\ AtaTypeOK
  /\ TransferWhole
  /\ NoStaleCompletion
  /\ irq_timer => gate_polls < GATE_MAX
  /\ wr_pending => wr_polls < WR_POLL_MAX
  /\ xfer # "none" => CARD_PRESENT
  /\ xfer = "from_host" => current \in {"write", "dma"}

LEMMA DeviceInit == AtaInit => DeviceInv
<1>1. AtaInit => FlagsOK
  BY DEF AtaInit, FlagsOK
<1>2. AtaInit => CountsOK
  BY AtaAssumption DEF AtaInit, CountsOK, Commands
<1>3. AtaInit => TransferWhole /\ NoStaleCompletion
  BY DEF AtaInit, TransferWhole, NoStaleCompletion
<1>. QED
  BY <1>1, <1>2, <1>3 DEF AtaInit, DeviceInv, AtaTypeOK

\* Every flag stays one.
LEMMA FlagsStep == FlagsOK /\ [AtaNext]_ataVars => FlagsOK'
<1>. SUFFICES ASSUME FlagsOK, [AtaNext]_ataVars PROVE FlagsOK'
  OBVIOUS
<1>. USE AtaAssumption
     DEF FlagsOK, deviceVars, guestVars, lineVars, xferVars, wrVars, gateVars, Drive, Transfer
<1>1. ASSUME NEW cmd \in Commands, NEW n \in Counts, Command(cmd, n) PROVE FlagsOK'
  BY <1>1 DEF Command, Commands
<1>2. CASE DataRead
  BY <1>2, ZenonT(60) DEF DataRead, NextWord, NextSector
<1>3. CASE DataWrite
  BY <1>3, ZenonT(60) DEF DataWrite, NextWord, NextSector, Posted, HeldBack, Behind
<1>4. CASE Acknowledge
  BY <1>4 DEF Acknowledge
<1>5. ASSUME NEW on \in BOOLEAN, WriteIer(on) PROVE FlagsOK'
  BY <1>5 DEF WriteIer
<1>6. ASSUME NEW on \in BOOLEAN, WriteCr(on) PROVE FlagsOK'
  BY <1>6, ZenonT(60) DEF WriteCr
<1>7. CASE IrqFire
  BY <1>7 DEF IrqFire
<1>8. CASE WrFire
  BY <1>8 DEF WrFire, Posted, HeldBack, Behind
<1>9. CASE GuestMemory
  BY <1>9 DEF GuestMemory
<1>10. CASE UNCHANGED ataVars
  BY <1>10 DEF ataVars
<1>. QED
  BY <1>1, <1>2, <1>3, <1>4, <1>5, <1>6, <1>7, <1>8, <1>9, <1>10 DEF AtaNext

\* What Transfer leaves behind, DRQ as a proposition.
LEMMA TransferSets ==
  ASSUME NEW kind, NEW n, Transfer(kind, n)
  PROVE  xfer' = kind /\ xfer_left' = n /\ buf_pos' = 0 /\ (drq' <=> kind # "none")
  BY DEF Transfer

\* What Posted leaves behind.
LEMMA PostedSets ==
  ASSUME NEW polls \in 0 .. WR_POLL_MAX - 1, NEW left, Posted(polls, left)
  PROVE  wr_polls' \in 0 .. WR_POLL_MAX /\ (wr_pending' => wr_polls' < WR_POLL_MAX)
<1>1. wr_polls' \in {polls, polls + 1}
  BY DEF Posted
<1>2. wr_pending' => wr_polls' = polls + 1 /\ polls + 1 < WR_POLL_MAX
  BY DEF Posted, HeldBack
<1>. QED
  BY <1>1, <1>2, AtaAssumption

\* The end of a word or a sector keeps the transfer whole.
LEMMA SectorStep ==
  ASSUME CountsOK, TransferWhole, xfer # "none", NextWord \/ NextSector
  PROVE  /\ xfer' \in {"none", xfer}
         /\ xfer_left' \in 0 .. BYTE
         /\ buf_pos' \in 0 .. WORDS - 1
         /\ TransferWhole'
<1>. USE AtaAssumption
<1>1. xfer_left \in 1 .. BYTE
  BY DEF CountsOK, TransferWhole
<1>2. CASE NextWord
  BY <1>2 DEF NextWord, CountsOK, TransferWhole
<1>3. CASE NextSector
  <2>1. CASE xfer_left = 1
    <3>1. xfer' = "none" /\ xfer_left' = 0 /\ buf_pos' = 0 /\ ~ drq'
      BY <1>3, <2>1, TransferSets DEF NextSector
    <3>. QED
      BY <3>1 DEF TransferWhole
  <2>2. CASE xfer_left # 1
    <3>1. xfer' = xfer /\ xfer_left' = xfer_left - 1 /\ buf_pos' = 0 /\ drq'
      BY <1>3, <2>2, TransferSets DEF NextSector
    <3>. QED
      BY <1>1, <2>2, <3>1 DEF TransferWhole
  <2>. QED
    BY <2>1, <2>2
<1>. QED
  BY <1>2, <1>3

LEMMA CommandStep ==
  ASSUME DeviceInv, NEW cmd \in Commands, NEW n \in Counts, Command(cmd, n)
  PROVE  DeviceInv'
<1>. USE AtaAssumption
<1>1. FlagsOK'
  BY FlagsStep DEF DeviceInv, AtaTypeOK, AtaNext
<1>2. CASE CARD_PRESENT /\ cmd # "dma"
  <2>1. PICK kind \in {"none", "to_host", "from_host"}, k \in 0 .. BYTE :
          /\ Transfer(kind, k)
          /\ (kind # "none") <=> (k > 0)
          /\ kind = "from_host" => cmd = "write"
    <3>1. CASE cmd = "read"
      BY <1>2, <3>1 DEF Command, Counts
    <3>2. CASE cmd = "identify"
      BY <1>2, <3>2 DEF Command
    <3>3. CASE cmd = "write"
      BY <1>2, <3>3 DEF Command, Counts
    <3>4. CASE cmd = "nodata"
      BY <1>2, <3>4 DEF Command
    <3>. QED
      BY <1>2, <3>1, <3>2, <3>3, <3>4 DEF Commands
  <2>a. xfer' = kind /\ xfer_left' = k /\ buf_pos' = 0 /\ (drq' <=> kind # "none")
    BY <2>1, TransferSets
  <2>b. TransferWhole'
    BY <2>1, <2>a DEF TransferWhole
  <2>2. CountsOK' /\ TransferWhole' /\ (xfer' = "from_host" => cmd = "write")
    BY <2>1, <2>a, <2>b DEF Command, DeviceInv, AtaTypeOK, CountsOK, guestVars
  <2>3. NoStaleCompletion' /\ (irq_timer' => gate_polls' < GATE_MAX) /\ ~ wr_pending' /\ current' = cmd
    <3>1. irq_timer' => cmd \in {"read", "identify", "nodata"} /\ gate_polls' = 0
      BY DEF Command, Drive, Commands
    <3>2. ~ wr_pending' /\ current' = cmd
      BY DEF Command
    <3>. QED
      BY <3>1, <3>2 DEF NoStaleCompletion
  <2>. QED
    BY <1>1, <1>2, <2>2, <2>3 DEF DeviceInv, AtaTypeOK
<1>3. CASE ~ (CARD_PRESENT /\ cmd # "dma")
  <2>1. UNCHANGED xferVars /\ current' = cmd /\ ~ wr_pending' /\ ~ irq_timer'
    BY <1>3 DEF Command, Drive
  <2>2. CountsOK' /\ TransferWhole' /\ (xfer' = "from_host" => cmd = "dma")
    BY <1>3, <2>1 DEF Command, DeviceInv, AtaTypeOK, CountsOK, TransferWhole, xferVars, guestVars
  <2>3. NoStaleCompletion'
    BY <2>1 DEF NoStaleCompletion
  <2>. QED
    BY <1>1, <2>1, <2>2, <2>3 DEF DeviceInv, AtaTypeOK, xferVars
<1>. QED
  BY <1>2, <1>3

LEMMA DeviceStep == DeviceInv /\ [AtaNext]_ataVars => DeviceInv'
<1>. SUFFICES ASSUME DeviceInv, [AtaNext]_ataVars PROVE DeviceInv'
  OBVIOUS
<1>. USE AtaAssumption
     DEF deviceVars, guestVars, lineVars, xferVars, wrVars, gateVars
<1>. DEFINE Rest ==
       /\ CountsOK
       /\ TransferWhole
       /\ NoStaleCompletion
       /\ irq_timer => gate_polls < GATE_MAX
       /\ wr_pending => wr_polls < WR_POLL_MAX
       /\ xfer # "none" => CARD_PRESENT
       /\ xfer = "from_host" => current \in {"write", "dma"}
<1>0. Rest
  BY DEF DeviceInv, AtaTypeOK
<1>1. CASE \E cmd \in Commands, n \in Counts : Command(cmd, n)
  BY <1>1, CommandStep DEF DeviceInv, AtaTypeOK
<1>2. ASSUME DataRead PROVE Rest'
  <2>1. xfer # "none" /\ (NextWord \/ NextSector)
    BY <1>2 DEF DataRead
  <2>2. irq_timer' => irq_timer
    BY <1>2 DEF DataRead, Drive
  <2>. QED
    BY <1>0, <1>2, <2>1, <2>2, SectorStep DEF DataRead, CountsOK, NoStaleCompletion
<1>3. ASSUME DataWrite PROVE Rest'
  <2>1. xfer = "from_host" /\ (NextWord \/ NextSector)
    BY <1>3 DEF DataWrite
  <2>2. xfer' \in {"none", xfer} /\ xfer_left' \in 0 .. BYTE /\ buf_pos' \in 0 .. WORDS - 1 /\ TransferWhole'
    BY <1>0, <2>1, SectorStep
  <2>3. CASE NextWord /\ UNCHANGED <<lineVars, wrVars>>
    BY <1>0, <1>3, <2>2, <2>3 DEF DataWrite, CountsOK, NoStaleCompletion
  <2>4. CASE Posted(0, xfer_left - 1) /\ Drive(~ HeldBack(0, xfer_left - 1), FALSE)
    <3>1. wr_polls' \in 0 .. WR_POLL_MAX /\ (wr_pending' => wr_polls' < WR_POLL_MAX)
      BY <2>4, PostedSets
    <3>2. ~ irq_timer'
      BY <2>4 DEF Drive
    <3>. QED
      BY <1>0, <1>3, <2>1, <2>2, <3>1, <3>2 DEF DataWrite, CountsOK, NoStaleCompletion
  <2>. QED
    BY <1>3, <2>3, <2>4 DEF DataWrite
<1>4. ASSUME Acknowledge PROVE Rest'
  BY <1>0, <1>4 DEF Acknowledge, Drive, CountsOK, TransferWhole, NoStaleCompletion
<1>5. ASSUME NEW on \in BOOLEAN, WriteIer(on) PROVE Rest'
  BY <1>0, <1>5 DEF WriteIer, CountsOK, TransferWhole, NoStaleCompletion
<1>6. ASSUME NEW on \in BOOLEAN, WriteCr(on) PROVE Rest'
  <2>1. CASE ~ cr /\ on
    <3>1. xfer' = "none" /\ xfer_left' = 0 /\ buf_pos' = 0 /\ ~ drq'
      BY <1>6, <2>1, TransferSets DEF WriteCr
    <3>2. TransferWhole'
      BY <3>1 DEF TransferWhole
    <3>3. ~ irq_timer' /\ current' = "none"
      BY <1>6, <2>1 DEF WriteCr, Drive
    <3>4. CountsOK'
      BY <1>0, <1>6, <3>1, <3>3 DEF WriteCr, CountsOK
    <3>. QED
      BY <1>0, <1>6, <3>1, <3>2, <3>3, <3>4 DEF WriteCr, NoStaleCompletion
  <2>2. CASE ~ (~ cr /\ on)
    BY <1>0, <1>6, <2>2 DEF WriteCr, CountsOK, TransferWhole, NoStaleCompletion
  <2>. QED
    BY <2>1, <2>2
<1>7. ASSUME IrqFire PROVE Rest'
  <2>1. gate_polls < GATE_MAX /\ gate_polls \in Nat
    BY <1>0, <1>7 DEF IrqFire, CountsOK
  <2>2. /\ gate_polls' \in {gate_polls, gate_polls + 1}
        /\ irq_timer' => gate_polls' < GATE_MAX
    BY <1>0, <1>7, <2>1 DEF IrqFire, Drive
  <2>3. CountsOK' /\ TransferWhole'
    BY <1>0, <1>7, <2>1, <2>2 DEF IrqFire, CountsOK, TransferWhole
  <2>4. irq_timer' => irq_timer
    BY <1>7 DEF IrqFire
  <2>. QED
    BY <1>0, <1>7, <2>2, <2>3, <2>4 DEF IrqFire, NoStaleCompletion
<1>8. ASSUME WrFire PROVE Rest'
  <2>1. irq_timer' => irq_timer
    BY <1>8 DEF WrFire, Drive
  <2>2. TransferWhole'
    BY <1>0, <1>8 DEF WrFire, TransferWhole
  <2>3. CASE wr_pending
    <3>1. wr_polls \in 0 .. WR_POLL_MAX - 1
      BY <1>0, <2>3 DEF CountsOK
    <3>2. wr_polls' \in 0 .. WR_POLL_MAX /\ (wr_pending' => wr_polls' < WR_POLL_MAX)
      BY <1>8, <2>3, <3>1, PostedSets DEF WrFire
    <3>. QED
      BY <1>0, <1>8, <2>1, <2>2, <2>3, <3>2 DEF WrFire, CountsOK, NoStaleCompletion
  <2>4. CASE ~ wr_pending
    BY <1>0, <1>8, <2>1, <2>2, <2>4 DEF WrFire, CountsOK, NoStaleCompletion
  <2>. QED
    BY <2>3, <2>4
<1>9. ASSUME GuestMemory PROVE Rest'
  BY <1>0, <1>9 DEF GuestMemory, CountsOK, TransferWhole, NoStaleCompletion
<1>10. ASSUME UNCHANGED ataVars PROVE Rest'
  BY <1>0, <1>10 DEF ataVars, CountsOK, TransferWhole, NoStaleCompletion
<1>11. FlagsOK'
  BY FlagsStep DEF DeviceInv, AtaTypeOK
<1>. QED
  BY <1>1, <1>2, <1>3, <1>4, <1>5, <1>6, <1>7, <1>8, <1>9, <1>10, <1>11
  DEF AtaNext, DeviceInv, AtaTypeOK

\* The controller's registers stay in their types for any guest.
THEOREM AtaTypeCorrect == AtaSpec => []AtaTypeOK
<1>1. DeviceInv => AtaTypeOK
  BY DEF DeviceInv
<1>. QED
  BY <1>1, DeviceInit, DeviceStep, PTL DEF AtaSpec

\* The count of sectors never underflows, and DRQ tells the truth about it, for
\* any guest and any sector size (ot-ata.c:601-661).
THEOREM TransfersAreWhole == AtaSpec => []TransferWhole
<1>1. DeviceInv => TransferWhole
  BY DEF DeviceInv
<1>. QED
  BY <1>1, DeviceInit, DeviceStep, PTL DEF AtaSpec

\* A completion on its way is the current command's, for any guest
\* (ot-ata.c:521-523).
THEOREM CompletionsAreFresh == AtaSpec => []NoStaleCompletion
<1>1. DeviceInv => NoStaleCompletion
  BY DEF DeviceInv
<1>. QED
  BY <1>1, DeviceInit, DeviceStep, PTL DEF AtaSpec

-----------------------------------------------------------------------------
(* The gate *)

\* Between the command and the second look at the pointer the line is down,
\* the event is there with nobody parked on it, so the gate is shut, and the
\* vCPU has not stood still long enough for the polls to run out.
WindowShut ==
  /\ isr = "off"
  /\ event /\ ~ waiter
  /\ ~ intrq /\ ~ irq_level
  /\ ~ wr_pending
  /\ gate_armed
  /\ irq_timer => gate_polls = 0 \/ (gate_polls = 1 /\ ~ ran)

GateInv ==
  /\ task # "wedged"
  /\ task = "issue" => ~ waiter
  /\ task = "reread" => WindowShut
  /\ task = "wait" => found

LEMMA GateInit == Init => GateInv
  BY DEF Init, GateInv

LEMMA GateStep ==
  ASSUME ~ VCPU_STALLS, GateInv, [Next]_vars PROVE GateInv'
<1>. USE DEF GateInv
<1>1. CASE BringUp
  BY <1>1 DEF BringUp, TaskStep, WriteIer, WriteCr, guestVars
<1>2. CASE Publish
  BY <1>2 DEF Publish, TaskStep
<1>3. CASE Issue
  <2>1. CASE task' = "reread"
    <3>1. isr = "off" /\ isr' = "off" /\ event /\ ~ waiter /\ request # "read"
      BY <1>3, <2>1 DEF Issue, TaskStep
    <3>2. /\ UNCHANGED <<event, waiter>>
          /\ ~ intrq' /\ ~ irq_level' /\ ~ wr_pending' /\ gate_armed'
          /\ irq_timer' => gate_polls' = 0
      BY <1>3, <3>1 DEF Issue, Command, Drive, guestVars
    <3>. QED
      BY <2>1, <3>1, <3>2 DEF WindowShut
  <2>2. CASE task' # "reread"
    BY <1>3, <2>2 DEF Issue, TaskStep
  <2>. QED
    BY <2>1, <2>2
<1>4. CASE Push
  BY <1>4 DEF Push, TaskStep
<1>5. CASE Account
  BY <1>5 DEF Account, TaskStep
<1>6. CASE Reread
  BY <1>6 DEF Reread, TaskStep, WindowShut
<1>7. CASE Wait
  BY <1>7 DEF Wait, TaskStep
<1>8. CASE Spin
  BY <1>8 DEF Spin, TaskStep
<1>9. CASE IsrProgress
  <2>1. task # "reread"
    BY <1>9 DEF IsrProgress, Enter, Ack, Move, Count, Signal, IsrStep, WindowShut
  <2>2. task' = task \/ task' = "idle"
    BY <1>9 DEF IsrProgress, Enter, Ack, Move, Count, Signal
  <2>3. UNCHANGED found /\ (waiter' => waiter)
    <3>1. CASE Enter
      BY <3>1 DEF Enter, ataVars, guestVars
    <3>2. CASE Ack
      BY <3>2 DEF Ack, Acknowledge, guestVars
    <3>3. CASE Move
      BY <3>3 DEF Move, DataRead, DataWrite, guestVars
    <3>4. CASE Count
      BY <3>4 DEF Count
    <3>5. CASE Signal
      BY <3>5 DEF Signal
    <3>. QED
      BY <1>9, <3>1, <3>2, <3>3, <3>4, <3>5 DEF IsrProgress
  <2>. QED
    BY <2>1, <2>2, <2>3
<1>10. CASE Tick
  <2>1. UNCHANGED <<task, isr, found, event, waiter, wr_pending, gate_armed>> \/ task # "reread"
    BY <1>10 DEF Tick, IrqFire, WrFire, guestVars, gateVars, wrVars, WindowShut
  <2>2. UNCHANGED <<task, found, waiter>> /\ ~ ran'
    BY <1>10 DEF Tick, IrqFire, WrFire, guestVars
  <2>3. CASE task = "reread"
    <3>1. WindowShut /\ ran
      BY <1>10, <2>3 DEF Tick
    <3>2. CASE IrqFire
      <4>1. gate_polls = 0 /\ ~ Parked
        BY <3>1, <3>2 DEF IrqFire, WindowShut, Parked
      <4>2. gate_polls' = 1 /\ UNCHANGED lineVars
        BY <3>1, <3>2, <4>1, StallAssumption DEF IrqFire, WindowShut
      <4>. QED
        BY <2>1, <2>2, <2>3, <3>1, <4>2 DEF WindowShut, lineVars
    <3>3. CASE WrFire
      <4>1. UNCHANGED <<lineVars, gateVars>>
        BY <3>1, <3>3 DEF WrFire, WindowShut
      <4>. QED
        BY <2>1, <2>2, <2>3, <3>1, <4>1 DEF WindowShut, lineVars, gateVars
    <3>. QED
      BY <1>10, <3>2, <3>3 DEF Tick
  <2>4. CASE task # "reread"
    BY <2>2, <2>4
  <2>. QED
    BY <2>3, <2>4
<1>11. CASE UNCHANGED vars
  BY <1>11 DEF vars, driverVars, ataVars, deviceVars, guestVars, lineVars, wrVars, gateVars, WindowShut
<1>. QED
  BY <1>1, <1>2, <1>3, <1>4, <1>5, <1>6, <1>7, <1>8, <1>9, <1>10, <1>11
  DEF Next, TaskProgress

\* With a vCPU that runs at all between two polls, the requester is never
\* parked on the null event, for every number of polls above one and requests
\* of any size (ot-ata.c:119-164, 345-366).
THEOREM GateWorks == ~ VCPU_STALLS /\ Spec => []NoWedge
<1>1. GateInv => NoWedge
  BY DEF GateInv, NoWedge
<1>2. ~ VCPU_STALLS /\ GateInv /\ [Next]_vars => GateInv'
  BY GateStep
<1>3. CASE ~ VCPU_STALLS
  BY <1>1, <1>2, <1>3, GateInit, PTL DEF Spec
<1>. QED
  BY <1>3

-----------------------------------------------------------------------------
(* The write hold, and the handler's count of sectors *)

\* No completion is on its way or on the line.
Still == ~ irq_timer /\ ~ intrq /\ ~ irq_level /\ ~ wr_pending

Issued == request # "none" /\ task # "issue"

\* A sector is pushed and its completion held; the vCPU has not stood still long
\* enough for the hold to give up.
Held == wr_pending /\ ~ intrq /\ (wr_polls = 1 \/ (wr_polls = 2 /\ ~ ran))

Toward(kind) == xfer_left > 0 => xfer = kind

\* The firmware has yet to count the sector that the device has counted.
OneBehind == xfer_left < BYTE /\ OneLess(sectors_left) = xfer_left

RequestOK ==
  /\ request \in (Commands \ {"dma"}) \union {"none"}
  /\ ran \in BOOLEAN
  /\ task = "issue" => /\ request # "none" /\ count \in Counts
                       /\ sectors_left = IF request = "identify" THEN 1 % BYTE ELSE count % BYTE
  /\ task \in {"push", "account"} => request = "write"
  /\ ~ ier => request = "none"
  /\ irq_level => intrq
  /\ ~ Issued \/ ~ CARD_PRESENT => Still /\ isr = "off"
  /\ isr \in {"off", "ack", "transfer", "count", "signal"}
  /\ isr \in {"transfer", "count", "signal"} => ~ irq_timer
  /\ isr = "signal" => Still
  /\ Issued /\ request # "write" => ~ wr_pending
  /\ request = "nodata" => isr \notin {"transfer", "count"}

\* What a read has left agrees with the firmware's count whenever the handler
\* may be entered.
ReadOK ==
  CARD_PRESENT /\ Issued /\ request \in {"read", "identify"} =>
    /\ Toward("to_host")
    /\ isr \in {"off", "ack", "transfer"} => drq /\ sectors_left = xfer_left % BYTE
    /\ isr = "count" => OneBehind /\ (xfer_left = 0 => ~ intrq)

\* So does what a write has left: between a sector's last word and the count of
\* it, by the task for the first one and by the handler for the others, the
\* completion is held.
WriteOK ==
  CARD_PRESENT /\ Issued /\ request = "write" =>
    /\ ~ irq_timer
    /\ wr_pending => ~ intrq
    /\ Toward("from_host")
    /\ CASE task = "push" -> isr = "off" /\ Still /\ drq /\ sectors_left = xfer_left % BYTE
         [] task = "account" -> isr = "off" /\ Held /\ OneBehind
         [] OTHER -> /\ isr \in {"off", "ack", "transfer"} => sectors_left = xfer_left
                     /\ isr \in {"ack", "transfer"} => ~ wr_pending
                     /\ isr = "transfer" => drq
                     /\ isr = "count" => Held /\ OneBehind

HoldInv == DeviceInv /\ RequestOK /\ ReadOK /\ WriteOK

\* Before the drive is brought up nothing is on its way.
LEMMA HoldInit == Init => HoldInv
<1>1. Init => DeviceInv
  BY DeviceInit DEF Init
<1> QED
  BY <1>1 DEF Init, AtaInit, HoldInv, RequestOK, ReadOK, WriteOK, Issued, Still

\* The byte counter of the firmware.
LEMMA ByteCount ==
  /\ \A n \in 0 .. BYTE : n % BYTE = IF n = BYTE THEN 0 ELSE n
  /\ \A n \in 0 .. BYTE - 1 : OneLess(n) = IF n = 0 THEN BYTE - 1 ELSE n - 1
  /\ \A n \in 0 .. BYTE - 1 : n % BYTE = n
  /\ 1 % BYTE = 1
<1> USE AtaAssumption, StallAssumption
<1>1. \A n \in 0 .. BYTE : n % BYTE = IF n = BYTE THEN 0 ELSE n
  OBVIOUS
<1>2. \A n \in 0 .. BYTE - 1 : OneLess(n) = IF n = 0 THEN BYTE - 1 ELSE n - 1
  BY DEF OneLess
<1> QED
  BY <1>1, <1>2

\* The firmware is one of the guests of which the controller's theorems speak.
LEMMA DriverIsGuest ==
  ASSUME HoldInv, [Next]_vars
  PROVE  [AtaNext]_ataVars
<1> USE DEF HoldInv
<1>1. /\ event \in BOOLEAN /\ waiter \in BOOLEAN /\ sectors_left \in 0 .. BYTE - 1 /\ BYTE \in Nat
      /\ OneLess(sectors_left) \in 0 .. BYTE - 1
  BY ByteCount, AtaAssumption DEF DeviceInv, AtaTypeOK, FlagsOK, CountsOK
<1>2. CASE BringUp
  BY <1>2 DEF BringUp, AtaNext
<1>3. CASE Publish
  <2>1. PICK cmd \in Commands, n \in Counts : sectors_left' = IF cmd = "identify" THEN 1 % BYTE ELSE n % BYTE
    BY <1>3 DEF Publish
  <2>2. sectors_left' \in 0 .. BYTE - 1
    BY <2>1, AtaAssumption, ByteCount DEF Counts
  <2> QED
    BY <1>3, <2>2 DEF Publish, AtaNext, GuestMemory
<1>4. CASE Issue
  BY <1>4 DEF Issue, TaskStep, RequestOK, AtaNext
<1>5. CASE Push
  BY <1>5 DEF Push, AtaNext
<1>6. CASE Account \/ Count \/ Signal
  BY <1>1, <1>6 DEF Account, Count, Signal, AtaNext, GuestMemory
<1>7. CASE Reread \/ Spin
  BY <1>7 DEF Reread, Spin
<1>8. CASE Wait
  BY <1>1, <1>8 DEF Wait, AtaNext, GuestMemory
<1>9. CASE Enter
  BY <1>9 DEF Enter
<1>10. CASE Ack
  BY <1>10 DEF Ack, AtaNext
<1>11. CASE Move
  BY <1>11 DEF Move, AtaNext
<1>12. CASE Tick
  BY <1>12 DEF Tick, AtaNext
<1>13. CASE UNCHANGED vars
  BY <1>13 DEF vars
<1> QED
  BY <1>2, <1>3, <1>4, <1>5, <1>6, <1>7, <1>8, <1>9, <1>10, <1>11, <1>12, <1>13
  DEF Next, TaskProgress, IsrProgress

\* What the firmware's steps have to keep.
Driven == RequestOK /\ ReadOK /\ WriteOK

\* A request is set up, and its command written, with the line still.
LEMMA SetUpKeeps ==
  ASSUME HoldInv, BringUp \/ Publish \/ Issue
  PROVE  Driven'
<1> USE DEF HoldInv
<1>1. CASE BringUp
  <2>1. /\ UNCHANGED <<isr, request, count, task, sectors_left, wr_pending>> /\ request = "none"
        /\ task = "idle" /\ isr = "off" /\ ran' = TRUE /\ Still
    BY <1>1 DEF BringUp, TaskStep, WriteIer, WriteCr, RequestOK, Issued, wrVars, guestVars
  <2>2. Still'
    BY <1>1, <2>1 DEF BringUp, WriteIer, WriteCr, Still, Drive, lineVars
  <2> QED
    BY <2>1, <2>2 DEF Driven, RequestOK, ReadOK, WriteOK, Issued, Still
<1>2. CASE Publish
  <2>1. /\ UNCHANGED deviceVars /\ isr' = "off" /\ isr = "off" /\ task' = "issue" /\ ran' = TRUE /\ ier
        /\ Still
    BY <1>2 DEF Publish, TaskStep, RequestOK, Issued
  <2>2. PICK cmd \in Commands \ {"dma"}, n \in Counts :
           /\ request' = cmd /\ count' = n
           /\ sectors_left' = IF cmd = "identify" THEN 1 % BYTE ELSE n % BYTE
    BY <1>2 DEF Publish
  <2>3. Still' /\ (irq_level' => intrq')
    BY <2>1 DEF Still, deviceVars, lineVars, wrVars
  <2>4. ier' /\ request' # "none"
    BY <2>1, <2>2 DEF deviceVars, Commands
  <2> QED
    BY <2>1, <2>2, <2>3, <2>4 DEF Driven, RequestOK, ReadOK, WriteOK, Issued, Still
<1>3. CASE Issue
  <2>1. /\ task = "issue" /\ isr = "off" /\ isr' = "off" /\ ran' = TRUE
        /\ UNCHANGED <<request, count, sectors_left, ier>>
        /\ task' \in {"push", "idle", "spin", "reread"} /\ (task' = "push" <=> request = "write")
        /\ request # "none" /\ ier
    <3>1. /\ task = "issue" /\ isr = "off" /\ isr' = "off" /\ ran' = TRUE
          /\ UNCHANGED <<request, count, sectors_left, ier>> /\ request # "none" /\ ier
      BY <1>3 DEF Issue, TaskStep, Command, guestVars, RequestOK
    <3>2. CASE request = "write"
      BY <1>3, <3>1, <3>2 DEF Issue, TaskStep
    <3>3. CASE request # "write"
      BY <1>3, <3>1, <3>3 DEF Issue, TaskStep
    <3> QED
      BY <3>1, <3>2, <3>3
  <2>2. /\ count \in 1 .. BYTE /\ BYTE \in Nat /\ BYTE > 1
        /\ sectors_left = IF request = "identify" THEN 1 % BYTE ELSE count % BYTE
        /\ request \in {"read", "identify", "write", "nodata"}
    BY <2>1, AtaAssumption, StallAssumption DEF RequestOK, Counts, Commands
  <2>3. /\ ~ intrq' /\ ~ irq_level' /\ ~ wr_pending' /\ irq_timer' = (CARD_PRESENT /\ request # "write")
        /\ CARD_PRESENT => /\ request = "read" => xfer' = "to_host" /\ xfer_left' = count /\ drq'
                           /\ request = "identify" => xfer' = "to_host" /\ xfer_left' = 1 /\ drq'
                           /\ request = "write" => xfer' = "from_host" /\ xfer_left' = count /\ drq'
    BY <1>3, <2>2 DEF Issue, Command, Drive, Transfer
  <2> QED
    BY <2>1, <2>2, <2>3 DEF Driven, RequestOK, ReadOK, WriteOK, Issued, Still, Toward, Commands
<1> QED
  BY <1>1, <1>2, <1>3

\* The last word of a sector, and the others: what a write's data port does.
LEMMA WordWritten ==
  ASSUME HoldInv, DataWrite
  PROVE  /\ xfer = "from_host" /\ UNCHANGED <<cr, ier, current, guestVars>>
         /\ \/ UNCHANGED <<xfer, xfer_left, drq, lineVars, wrVars>> /\ buf_pos + 1 # WORDS
            \/ /\ buf_pos + 1 = WORDS
               /\ xfer_left' = xfer_left - 1 /\ Toward("from_host")'
               /\ (drq' <=> xfer_left' > 0)
               /\ ~ irq_timer' /\ irq_level' = (intrq' /\ ier)
               /\ xfer_left \in 1 .. BYTE
               /\ sectors_left # xfer_left' % BYTE => wr_pending' /\ wr_polls' = 1 /\ ~ intrq'
<1> USE DEF HoldInv
<1>1. xfer = "from_host" /\ UNCHANGED <<cr, ier, current, guestVars>>
  BY DEF DataWrite
<1>2. xfer_left \in 1 .. BYTE
  BY <1>1, AtaAssumption DEF DeviceInv, AtaTypeOK, CountsOK, TransferWhole
<1>3. CASE NextWord /\ UNCHANGED <<lineVars, wrVars>>
  BY <1>1, <1>3 DEF NextWord, DeviceInv, AtaTypeOK, CountsOK
<1>4. CASE NextSector /\ Posted(0, xfer_left - 1) /\ Drive(~ HeldBack(0, xfer_left - 1), FALSE)
  <2>1. /\ buf_pos + 1 = WORDS /\ xfer_left' = xfer_left - 1
        /\ Toward("from_host")' /\ (drq' <=> xfer_left' > 0)
    <3>1. CASE xfer_left = 1
      <4>1. buf_pos + 1 = WORDS /\ xfer' = "none" /\ xfer_left' = 0 /\ ~ drq'
        BY <1>4, <3>1, Zenon DEF NextSector, Transfer
      <4> QED
        BY <3>1, <4>1 DEF Toward
    <3>2. CASE xfer_left # 1
      <4>1. xfer_left - 1 > 0
        BY <1>2, <3>2, AtaAssumption
      <4> QED
        BY <1>1, <1>4, <3>2, <4>1 DEF NextSector, Transfer, Toward
    <3> QED
      BY <3>1, <3>2
  <2>2. ~ irq_timer' /\ irq_level' = (intrq' /\ ier)
    BY <1>4 DEF Drive
  <2>3. ASSUME sectors_left # xfer_left' % BYTE
        PROVE  wr_pending' /\ wr_polls' = 1 /\ ~ intrq'
    <3>1. Behind(xfer_left - 1)
      BY <2>1, <2>3 DEF Behind
    <3>2. HeldBack(0, xfer_left - 1)
      BY <3>1, StallAssumption, AtaAssumption DEF HeldBack
    <3>3. wr_polls' = 1
      BY <1>4, <3>1 DEF Posted
    <3>4. wr_pending' /\ ~ intrq'
      BY <1>4, <3>2, Zenon DEF Posted, Drive
    <3> QED
      BY <3>3, <3>4
  <2> QED
    BY <1>1, <1>2, <2>1, <2>2, <2>3
<1> QED
  BY <1>1, <1>3, <1>4 DEF DataWrite

\* The task pushes the first sector of a write and then counts it; elsewhere it
\* touches neither.
LEMMA TaskKeeps ==
  ASSUME HoldInv, Push \/ Account \/ Reread \/ Wait \/ Spin
  PROVE  Driven'
<1> USE DEF HoldInv
<1>1. CASE Push
  <2>1. /\ task = "push" /\ isr = "off" /\ isr' = "off" /\ ran' = TRUE /\ drq /\ DataWrite
        /\ UNCHANGED <<request, count>> /\ task' = IF buf_pos + 1 = WORDS THEN "account" ELSE "push"
    BY <1>1 DEF Push, TaskStep
  <2>2. request = "write" /\ ier /\ CARD_PRESENT
    BY <2>1 DEF RequestOK, DeviceInv, TransferWhole
  <2>3. Still /\ sectors_left = xfer_left % BYTE /\ Toward("from_host") /\ UNCHANGED sectors_left
    BY <2>1, <2>2, WordWritten DEF WriteOK, Issued, guestVars
  <2>4. CASE UNCHANGED <<xfer, xfer_left, drq, lineVars, wrVars>> /\ buf_pos + 1 # WORDS
    BY <2>1, <2>2, <2>3, <2>4, WordWritten
    DEF Driven, RequestOK, ReadOK, WriteOK, Issued, Still, Toward, lineVars, wrVars
  <2>5. CASE buf_pos + 1 = WORDS /\ ~ (UNCHANGED <<xfer, xfer_left, drq, lineVars, wrVars>> /\ buf_pos + 1 # WORDS)
    <3>1. /\ xfer_left' = xfer_left - 1 /\ Toward("from_host")' /\ (drq' <=> xfer_left' > 0)
          /\ ~ irq_timer' /\ irq_level' = (intrq' /\ ier) /\ xfer_left \in 1 .. BYTE
          /\ sectors_left # xfer_left' % BYTE => wr_pending' /\ wr_polls' = 1 /\ ~ intrq'
      BY <2>1, <2>5, WordWritten
    <3>2. OneLess(sectors_left) = xfer_left' /\ xfer_left' < BYTE /\ sectors_left # xfer_left' % BYTE
      <4>1. BYTE \in Nat /\ BYTE > 1 /\ xfer_left \in 0 .. BYTE /\ xfer_left' \in 0 .. BYTE - 1
        BY <3>1, AtaAssumption, StallAssumption
      <4>2. xfer_left' % BYTE = xfer_left'
        BY <4>1, ByteCount
      <4>3. sectors_left = IF xfer_left = BYTE THEN 0 ELSE xfer_left
        BY <2>3, <4>1, ByteCount
      <4>4. sectors_left \in 0 .. BYTE - 1
        BY <4>1, <4>3
      <4> QED
        BY <3>1, <4>1, <4>2, <4>3, <4>4, ByteCount
    <3>3. OneBehind' /\ Held' /\ ~ irq_level'
      BY <2>3, <3>1, <3>2 DEF OneBehind, Held, OneLess
    <3> QED
      BY <2>1, <2>2, <2>5, <3>1, <3>3, WordWritten
      DEF Driven, RequestOK, ReadOK, WriteOK, Issued, Still, Held
  <2> QED
    BY <2>1, <2>4, <2>5, WordWritten
<1>2. CASE Account
  <2>1. /\ task = "account" /\ isr = "off" /\ isr' = "off" /\ ran' = TRUE /\ task' \in {"wait", "idle"}
        /\ sectors_left' = OneLess(sectors_left) /\ UNCHANGED <<deviceVars, request, count>>
    BY <1>2 DEF Account, TaskStep
  <2>2. request = "write" /\ ier
    BY <2>1 DEF RequestOK
  <2>3. CARD_PRESENT => Held /\ OneBehind
    BY <2>1, <2>2 DEF WriteOK, Issued
  <2> QED
    BY <2>1, <2>2, <2>3
    DEF Driven, RequestOK, ReadOK, WriteOK, Issued, Still, Held, OneBehind, Toward,
        deviceVars, lineVars, wrVars, xferVars
<1>3. CASE Reread \/ Wait \/ Spin
  <2>1. /\ isr = "off" /\ isr' = "off" /\ ran' = TRUE
        /\ task \in {"reread", "wait", "spin"} /\ task' \in {"wait", "wedged", "idle", "parked"}
        /\ UNCHANGED <<deviceVars, sectors_left, request, count>>
    BY <1>3 DEF Reread, Wait, Spin, TaskStep, ataVars, guestVars
  <2> QED
    BY <2>1
    DEF Driven, RequestOK, ReadOK, WriteOK, Issued, Still, Held, OneBehind, Toward,
        deviceVars, lineVars, wrVars, xferVars
<1> QED
  BY <1>1, <1>2, <1>3

\* The same for a read's data port, whose next sector raises the line at once.
LEMMA WordRead ==
  ASSUME HoldInv, DataRead
  PROVE  /\ xfer = "to_host" /\ UNCHANGED <<cr, ier, current, guestVars, wrVars>>
         /\ \/ UNCHANGED <<xfer, xfer_left, drq, lineVars>> /\ buf_pos + 1 # WORDS
            \/ /\ buf_pos + 1 = WORDS
               /\ xfer_left' = xfer_left - 1 /\ Toward("to_host")'
               /\ (drq' <=> xfer_left' > 0)
               /\ ~ irq_timer' /\ (irq_level' => intrq') /\ (xfer_left' = 0 => ~ intrq')
               /\ xfer_left \in 1 .. BYTE
<1> USE DEF HoldInv
<1>1. xfer = "to_host" /\ UNCHANGED <<cr, ier, current, guestVars, wrVars>>
  BY DEF DataRead
<1>2. xfer_left \in 1 .. BYTE
  BY <1>1, AtaAssumption DEF DeviceInv, AtaTypeOK, CountsOK, TransferWhole
<1>3. CASE NextWord /\ UNCHANGED lineVars
  BY <1>1, <1>3 DEF NextWord, DeviceInv, AtaTypeOK, CountsOK
<1>4. CASE NextSector /\ Drive(xfer_left # 1, FALSE)
  <2>1. buf_pos + 1 = WORDS
    BY <1>4 DEF NextSector
  <2>2. CASE xfer_left = 1
    <3>1. xfer' = "none" /\ xfer_left' = 0 /\ ~ drq'
      BY <1>4, <2>2, Zenon DEF NextSector, Transfer
    <3>2. ~ irq_timer' /\ ~ intrq' /\ ~ irq_level'
      BY <1>4, <2>2, Zenon DEF Drive
    <3> QED
      BY <1>1, <1>2, <2>1, <2>2, <3>1, <3>2 DEF Toward
  <2>3. CASE xfer_left # 1
    <3>1. xfer' = xfer /\ xfer_left' = xfer_left - 1 /\ drq'
      BY <1>1, <1>4, <2>3, Zenon DEF NextSector, Transfer
    <3>2. ~ irq_timer' /\ intrq'
      BY <1>4, <2>3, Zenon DEF Drive
    <3>3. xfer_left' > 0
      BY <1>2, <2>3, <3>1, AtaAssumption
    <3>4. Toward("to_host")' /\ (drq' <=> xfer_left' > 0) /\ (xfer_left' = 0 => ~ intrq')
      BY <1>1, <3>1, <3>3 DEF Toward
    <3> QED
      BY <1>1, <1>2, <2>1, <3>1, <3>2, <3>4
  <2> QED
    BY <2>2, <2>3
<1> QED
  BY <1>1, <1>3, <1>4 DEF DataRead

\* Who the handler works for.
LEMMA HandlerServes ==
  ASSUME HoldInv, isr # "off" \/ irq_level
  PROVE  /\ Issued /\ CARD_PRESENT /\ ier
         /\ request \in {"read", "identify", "write", "nodata"}
         /\ task \notin {"issue", "push", "account"}
<1>1. Issued /\ CARD_PRESENT /\ ier /\ request \in {"read", "identify", "write", "nodata"}
  BY DEF HoldInv, RequestOK, Still, Issued, Commands
<1>2. task \notin {"push", "account"}
  BY <1>1 DEF HoldInv, RequestOK, WriteOK, Held, Still
<1> QED
  BY <1>1, <1>2 DEF Issued

\* The handler enters only for a count that is the device's, and acknowledges.
LEMMA EnterKeeps ==
  ASSUME HoldInv, Enter \/ Ack
  PROVE  Driven'
<1> USE DEF HoldInv
<1>1. CASE Enter
  <2>1. /\ isr = "off" /\ isr' = "ack" /\ ran' = TRUE /\ irq_level
        /\ UNCHANGED <<ataVars, task, request, count>>
    BY <1>1 DEF Enter, IsrStep
  <2>2. request = "write" => ~ wr_pending
    BY <2>1, HandlerServes DEF RequestOK, WriteOK
  <2> QED
    BY <2>1, <2>2, HandlerServes
    DEF Driven, RequestOK, ReadOK, WriteOK, Issued, Still, Toward,
        ataVars, deviceVars, guestVars, lineVars, wrVars, xferVars
<1>2. CASE Ack
  <2>1. /\ isr = "ack" /\ ran' = TRUE
        /\ isr' = IF request = "nodata" \/ (request = "write" /\ sectors_left = 0) THEN "signal" ELSE "transfer"
        /\ UNCHANGED <<ier, xferVars, wrVars, sectors_left, task, request, count>>
        /\ ~ irq_timer' /\ ~ intrq' /\ ~ irq_level'
    BY <1>2 DEF Ack, IsrStep, Acknowledge, Drive, guestVars
  <2>2. ~ wr_pending
    BY <2>1, HandlerServes DEF RequestOK, WriteOK
  <2>3. request = "write" /\ sectors_left # 0 => drq
    BY <2>1, HandlerServes DEF WriteOK, DeviceInv, TransferWhole, AtaTypeOK, CountsOK
  <2> QED
    BY <2>1, <2>2, <2>3, HandlerServes
    DEF Driven, RequestOK, ReadOK, WriteOK, Issued, Still, Toward, wrVars, xferVars
<1> QED
  BY <1>1, <1>2

\* The last word of a sector takes the device one ahead of the handler.
LEMMA MoveKeeps ==
  ASSUME HoldInv, Move
  PROVE  Driven'
<1> USE DEF HoldInv
<1>1. /\ drq /\ isr = "transfer" /\ ran' = TRUE /\ UNCHANGED <<task, request, count>>
      /\ isr' = IF buf_pos + 1 = WORDS THEN "count" ELSE "transfer"
      /\ IF request = "write" THEN DataWrite ELSE DataRead
  BY DEF Move, IsrStep
<1>2. /\ BYTE \in Nat /\ BYTE > 1 /\ sectors_left \in 0 .. BYTE - 1
  BY AtaAssumption, StallAssumption DEF DeviceInv, AtaTypeOK, CountsOK
<1>3. CASE request = "write"
  <2>1. sectors_left = xfer_left /\ ~ wr_pending /\ ~ irq_timer /\ Toward("from_host")
    BY <1>1, <1>3, HandlerServes DEF WriteOK
  <2>2. CASE UNCHANGED <<xfer, xfer_left, drq, lineVars, wrVars>> /\ buf_pos + 1 # WORDS
    BY <1>1, <1>3, <2>1, <2>2, HandlerServes, WordWritten
    DEF Driven, RequestOK, ReadOK, WriteOK, Issued, Still, Toward, lineVars, wrVars, guestVars
  <2>3. CASE buf_pos + 1 = WORDS /\ ~ (UNCHANGED <<xfer, xfer_left, drq, lineVars, wrVars>> /\ buf_pos + 1 # WORDS)
    <3>1. /\ xfer_left' = xfer_left - 1 /\ Toward("from_host")'
          /\ ~ irq_timer' /\ irq_level' = (intrq' /\ ier) /\ xfer_left \in 1 .. BYTE
          /\ sectors_left # xfer_left' % BYTE => wr_pending' /\ wr_polls' = 1 /\ ~ intrq'
      BY <1>1, <1>3, <2>3, WordWritten
    <3>2. xfer_left' \in 0 .. BYTE - 1 /\ xfer_left' < BYTE /\ sectors_left = xfer_left' + 1
      BY <1>2, <2>1, <3>1
    <3>3. OneLess(sectors_left) = xfer_left' /\ sectors_left # xfer_left' % BYTE
      <4>1. OneLess(sectors_left) = sectors_left - 1
        <5>1. sectors_left # 0
          BY <1>2, <2>1, <3>1
        <5> QED
          BY <1>2, <5>1, ByteCount
      <4>2. xfer_left' % BYTE = xfer_left'
        BY <3>2, ByteCount
      <4> QED
        BY <1>2, <3>2, <4>1, <4>2
    <3>4. OneBehind' /\ Held' /\ ~ irq_level'
      <4>1. UNCHANGED sectors_left
        BY <1>1, <1>3, WordWritten DEF guestVars
      <4> QED
        BY <3>1, <3>2, <3>3, <4>1 DEF OneBehind, Held, OneLess
    <3> QED
      BY <1>1, <1>3, <2>3, <3>1, <3>4, HandlerServes, WordWritten
      DEF Driven, RequestOK, ReadOK, WriteOK, Issued, Still, Held
  <2> QED
    BY <1>1, <1>3, <2>2, <2>3, WordWritten
<1>4. CASE request # "write"
  <2>1. /\ request \in {"read", "identify"} /\ sectors_left = xfer_left % BYTE /\ ~ irq_timer /\ ~ wr_pending
        /\ Toward("to_host")
    BY <1>1, <1>4, HandlerServes DEF RequestOK, ReadOK
  <2>2. CASE UNCHANGED <<xfer, xfer_left, drq, lineVars>> /\ buf_pos + 1 # WORDS
    BY <1>1, <1>4, <2>1, <2>2, HandlerServes, WordRead
    DEF Driven, RequestOK, ReadOK, WriteOK, Issued, Still, Toward, lineVars, wrVars, guestVars
  <2>3. CASE buf_pos + 1 = WORDS /\ ~ (UNCHANGED <<xfer, xfer_left, drq, lineVars>> /\ buf_pos + 1 # WORDS)
    <3>1. /\ xfer_left' = xfer_left - 1 /\ Toward("to_host")'
          /\ ~ irq_timer' /\ (irq_level' => intrq') /\ (xfer_left' = 0 => ~ intrq') /\ xfer_left \in 1 .. BYTE
      BY <1>1, <1>4, <2>3, WordRead
    <3>2. xfer_left' \in 0 .. BYTE - 1 /\ xfer_left' < BYTE /\ xfer_left \in 0 .. BYTE
      BY <1>2, <3>1
    <3>3. sectors_left = IF xfer_left = BYTE THEN 0 ELSE xfer_left
      BY <2>1, <3>2, ByteCount
    <3>4. OneLess(sectors_left) = xfer_left'
      BY <1>2, <3>1, <3>2, <3>3, ByteCount
    <3>5. OneBehind'
      <4>1. UNCHANGED sectors_left
        BY <1>1, <1>4, WordRead DEF guestVars
      <4> QED
        BY <3>2, <3>4, <4>1 DEF OneBehind, OneLess
    <3>6. isr' = "count" /\ UNCHANGED <<ier, wr_pending>>
      BY <1>1, <1>4, <2>3, WordRead DEF wrVars
    <3>7. RequestOK'
      BY <1>1, <1>4, <2>1, <3>1, <3>6, HandlerServes DEF RequestOK, Issued
    <3> QED
      BY <1>1, <1>4, <3>1, <3>5, <3>6, <3>7 DEF Driven, ReadOK, WriteOK
  <2> QED
    BY <1>1, <1>4, <2>2, <2>3, WordRead
<1> QED
  BY <1>3, <1>4

\* Counting it brings them together again; signalling ends the request.
LEMMA CountKeeps ==
  ASSUME HoldInv, Count \/ Signal
  PROVE  Driven'
<1> USE DEF HoldInv
<1>1. CASE Count
  <2>1. /\ isr = "count" /\ ran' = TRUE /\ sectors_left' = OneLess(sectors_left)
        /\ isr' = IF request # "write" /\ sectors_left' = 0 THEN "signal" ELSE "off"
        /\ UNCHANGED <<deviceVars, task, request, count>>
    BY <1>1 DEF Count, IsrStep
  <2>2. request \in {"read", "identify", "write"} /\ OneBehind /\ ~ irq_timer
    BY <2>1, HandlerServes DEF RequestOK, ReadOK, WriteOK
  <2>3. sectors_left' = xfer_left /\ xfer_left \in 0 .. BYTE - 1 /\ xfer_left % BYTE = xfer_left
    BY <2>1, <2>2, ByteCount, AtaAssumption DEF OneBehind, DeviceInv, AtaTypeOK, CountsOK
  <2>4. xfer_left # 0 => drq
    BY <2>3, AtaAssumption DEF DeviceInv, TransferWhole
  <2>5. xfer_left = 0 /\ request # "write" => Still
    BY <2>1, <2>2, HandlerServes DEF RequestOK, ReadOK, Still
  <2> QED
    BY <2>1, <2>2, <2>3, <2>4, <2>5, HandlerServes
    DEF Driven, RequestOK, ReadOK, WriteOK, Issued, Still, Toward,
        deviceVars, lineVars, wrVars, xferVars
<1>2. CASE Signal
  <2>1. /\ isr = "signal" /\ isr' = "off" /\ ran' = TRUE /\ task' \in {task, "idle"} /\ request' = "none"
        /\ UNCHANGED <<deviceVars, sectors_left, count>>
    BY <1>2 DEF Signal, IsrStep
  <2> QED
    BY <2>1, HandlerServes
    DEF Driven, RequestOK, ReadOK, WriteOK, Issued, Still, deviceVars, lineVars, wrVars
<1> QED
  BY <1>1, <1>2

\* A timer that fires while the completion is held does not give up: the vCPU
\* has run since the sector was pushed, or since the timer fired before.
LEMMA HoldKeeps ==
  ASSUME HoldInv, Held, OneBehind, ran, WrFire
  PROVE  wr_pending' /\ ~ intrq' /\ wr_polls' = 2 /\ UNCHANGED lineVars
<1> USE DEF HoldInv
<1>1. sectors_left # xfer_left % BYTE
  <2>1. xfer_left \in 0 .. BYTE - 1 /\ sectors_left \in 0 .. BYTE - 1 /\ BYTE \in Nat /\ BYTE > 1
    BY AtaAssumption, StallAssumption DEF OneBehind, DeviceInv, AtaTypeOK, CountsOK
  <2>2. xfer_left % BYTE = xfer_left
    BY <2>1, ByteCount
  <2>3. OneLess(sectors_left) = IF sectors_left = 0 THEN BYTE - 1 ELSE sectors_left - 1
    BY <2>1, ByteCount
  <2> QED
    BY <2>1, <2>2, <2>3 DEF OneBehind
<1>2. wr_pending /\ wr_polls = 1
  BY DEF Held
<1>3. Behind(xfer_left) /\ HeldBack(wr_polls, xfer_left)
  BY <1>1, <1>2, StallAssumption, AtaAssumption DEF Behind, HeldBack
<1>4. wr_pending' /\ UNCHANGED lineVars
  BY <1>2, <1>3, Zenon DEF WrFire, Posted
<1>5. wr_polls' = 2
  BY <1>2, <1>3 DEF WrFire, Posted
<1> QED
  BY <1>4, <1>5 DEF lineVars, Held

\* A timer that fires raises the line for a count that agrees, or holds on.
LEMMA TickKeeps ==
  ASSUME ~ VCPU_STALLS, HoldInv, Tick
  PROVE  Driven'
<1> USE DEF HoldInv
<1>1. /\ UNCHANGED <<task, isr, request, count, sectors_left, ier, xferVars>> /\ ran' = FALSE
      /\ ran \/ (isr = "off" /\ task \in {"idle", "spin", "parked", "wedged"})
      /\ IrqFire \/ WrFire
  BY DEF Tick, IrqFire, WrFire, guestVars
<1>2. CASE IrqFire
  <2>1. irq_timer /\ UNCHANGED <<wr_pending, wr_polls>>
    BY <1>2 DEF IrqFire, wrVars
  <2>2. /\ Issued /\ CARD_PRESENT /\ ier /\ request # "write"
        /\ isr \in {"off", "ack"} /\ request \in {"read", "identify", "nodata"}
    BY <2>1 DEF RequestOK, WriteOK, Still, Issued, Commands
  <2>3. irq_level' => intrq'
    BY <1>2 DEF IrqFire, Drive, lineVars, RequestOK
  <2> QED
    BY <1>1, <2>1, <2>2, <2>3
    DEF Driven, RequestOK, ReadOK, WriteOK, Issued, Still, Toward, xferVars
<1>3. CASE WrFire /\ ~ wr_pending
  <2>1. UNCHANGED <<lineVars, wr_pending, wr_polls>>
    BY <1>3 DEF WrFire
  <2> QED
    BY <1>1, <1>3, <2>1
    DEF Driven, RequestOK, ReadOK, WriteOK, Issued, Still, Held, OneBehind, Toward, xferVars, lineVars
<1>4. CASE WrFire /\ wr_pending
  <2>1. Issued /\ CARD_PRESENT /\ ier /\ request = "write" /\ task # "push" /\ ~ irq_timer
    BY <1>4 DEF RequestOK, WriteOK, Still, Issued
  <2>2. CASE task = "account" \/ isr = "count"
    <3>1. Held /\ OneBehind /\ ran
      BY <1>1, <2>1, <2>2 DEF WriteOK, RequestOK
    <3>2. wr_pending' /\ ~ intrq' /\ wr_polls' = 2 /\ UNCHANGED lineVars
      BY <1>4, <3>1, HoldKeeps
    <3> QED
      BY <1>1, <2>1, <2>2, <3>1, <3>2
      DEF Driven, RequestOK, ReadOK, WriteOK, Issued, Still, Held, OneBehind, Toward, xferVars, lineVars
  <2>3. CASE task # "account" /\ isr # "count"
    <3>1. isr = "off" /\ sectors_left = xfer_left
      BY <1>4, <2>1, <2>3 DEF WriteOK, RequestOK, Still
    <3>2. ~ irq_timer' /\ (irq_level' => intrq') /\ (wr_pending' => ~ intrq')
      <4>1. CASE HeldBack(wr_polls, xfer_left)
        BY <1>4, <2>1, <4>1, Zenon DEF WrFire, Posted, lineVars, RequestOK, WriteOK
      <4>2. CASE ~ HeldBack(wr_polls, xfer_left)
        BY <1>4, <2>1, <4>2, Zenon DEF WrFire, Posted, Drive
      <4> QED
        BY <4>1, <4>2
    <3> QED
      BY <1>1, <2>1, <2>3, <3>1, <3>2
      DEF Driven, RequestOK, ReadOK, WriteOK, Issued, Still, Toward, xferVars
  <2> QED
    BY <2>2, <2>3
<1> QED
  BY <1>1, <1>2, <1>3, <1>4

\* The invariant is inductive.
LEMMA HoldStep ==
  ASSUME ~ VCPU_STALLS, HoldInv, [Next]_vars
  PROVE  HoldInv'
<1>1. DeviceInv'
  BY DriverIsGuest, DeviceStep DEF HoldInv
<1>2. CASE UNCHANGED vars
  BY <1>1, <1>2
  DEF HoldInv, RequestOK, ReadOK, WriteOK, Issued, Still, Held, OneBehind, Toward,
      vars, ataVars, driverVars, deviceVars, guestVars, lineVars, xferVars, wrVars
<1>3. CASE Next
  BY <1>1, <1>3, SetUpKeeps, TaskKeeps, EnterKeeps, MoveKeeps, CountKeeps, TickKeeps
  DEF Next, TaskProgress, IsrProgress, HoldInv, Driven
<1> QED
  BY <1>2, <1>3

\* With a vCPU that runs at all between two polls, the handler never waits for
\* data that nobody asked for: for any sector size, any number of sectors and
\* any limit of polls above two (ot-ata.c:97-112, 383-404).
THEOREM HoldWorks == ~ VCPU_STALLS /\ Spec => []NoSpin
<1>1. HoldInv => NoSpin
  <2> SUFFICES ASSUME HoldInv, isr = "transfer"
               PROVE  drq
    BY DEF NoSpin
  <2> QED
    BY HandlerServes DEF HoldInv, RequestOK, ReadOK, WriteOK
<1>2. ~ VCPU_STALLS /\ HoldInv /\ [Next]_vars => HoldInv'
  BY HoldStep
<1>3. CASE ~ VCPU_STALLS
  BY <1>1, <1>2, <1>3, HoldInit, PTL DEF Spec
<1> QED
  BY <1>3
=============================================================================
