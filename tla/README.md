# octemu in TLA+

octemu runs the firmware of a hardware sampler on an emulated ColdFire board.
It is two processes. *QEMU* holds the board (`src/src/board/`): the ATA
controller, the eDMA engine, the panel UART, the USB controller, the timers and
the shim that runs the two emulated DSP56300 cores. The *frontend*
(`src/src/*.c`) spawns QEMU, draws the panel, plays and records the audio, and
runs scripted walks over the panel. This directory holds TLA+ models of the
parts in which the order of events matters, the TLC runs that check them, and
proofs about them.

Line numbers below are relative to `src/src/` or `src/src/board/`.

    tlc -workers 2 -config MCAudioLink.cfg MCAudioLink.tla     a run
    tlapm AudioLinkProofs.tla                                  a proof

## Inventory

| part | state it keeps | operations | who it talks to | what is hard | what makes it correct |
|---|---|---|---|---|---|
| audio link (`ot-audio-shm.h`, `closeBlock()` of `ot-dsp-shim.cc`, `audio_main()` of `audio.c`) | two shared-memory rings, `consumer_alive`, a socket | publish, backstop, ship, take, connect, loop, leave | vCPU thread of QEMU, audio thread of a frontend | two processes with no lock; crash, quit and reconnect of either; exit from another thread | one reader per ring, FIFO, no overrun, the vCPU is never stuck, an orphan exits |
| ATA device (`ot-ata.c`) | task file, sector buffer, INTRQ and two timers | command, data port, status, control and interrupt registers, timers | firmware requester and its ISR, QEMU timers | the completion must land in a window of the requester | no lost completion, no completion before the requester parks |
| eDMA (`ot-board.c` 752-1582) | TCDs, pending interrupt, the gate | start, minor loops, chaining, interrupt gate | firmware ISRs, ATA, DSP port, panel UART | an interrupt that arrives too early makes the firmware index a jump table out of range | state ISR only with a cleared counter, every completion delivered once |
| DSP host port (`ot-dsp-port.c`, `ot-dsp56k.cc`) | host registers, HREQ, two cores, the inter-core mailbox | read, write, ICR, CVR, bursts | firmware, eDMA, the DSP cores | inline drains on the vCPU thread | no word lost or duplicated |
| DSP scheduler and delivery hold (`ot-dsp-shim.cc` 357-551, 770-800) | published and landed counts, the hold, the hatch | step, hold, hatch, interleave | host port, guest | the DSP is held until the guest has read what it published | a hold always ends; a held block is not overwritten |
| ESAI rings and pace (`ot-dsp-shim.cc` 166-226, 667-685) | frames in `g_out` and `g_in`, the deadline | push, pop, sleep | DSP cores, the audio link | drops at a full ring | order kept, drops only when full |
| panel UART (`ot-panel-uart.c`) | a frame being received, replies, a reply timer, an RX FIFO | receive, stage, pump, command | panel client, firmware | a reply staged while a frame is half received | frames stay whole |
| panel client (`panel.c`) | keys, encoders, crossfader, LEDs and LCD as received | send, apply, heartbeat | the panel UART over a socket, the window, the script walker | a full socket drops frames | what the panel shows is what the guest said; keys are released |
| USB device controller, bench and disk (`ot-board.c` 1601-2379, `main.c` 151-267, `platform/darwin.c` 50-90) | endpoint lists, the mount, the handoff | register writes, poll, bench, mount, eject | firmware, host disk, operator | card owned by the guest or by the host, never by both | handoff exclusive and clean |
| recording (`audio.c` 44-600) | gate, shutter, encoder queues | gate, push, tick, boot thread, stop | audio thread, boot thread, encoder process | two producers of frames, one gate | audio and video start together, queue order kept |
| audio monitor (`audio.c` 655-808) | a ring, a resampling ratio | push, callback | audio thread, SDL callback | the reader may be lapped | never plays what was overwritten |
| script walker (`script.c`) | the step, deadlines, taps, ramps | parse, act, step | panel client, window, OCR | waits, deadlines, retaps, ramps that outlive their step | every step with a deadline ends; what it waited for was there |
| frontend lifecycle (`main.c`) | child, run directory, `g_quit` | spawn, loop, signals, cleanup | QEMU, the operator | death between two steps of the cleanup | no orphan, nothing left behind |
| MIDI input (`platform/darwin.c` 128-226) | a partial message | framing | host MIDI, QEMU chardev | split messages | messages stay whole |
| timers (`ot-board.c` 470-700) | registers, a ptimer, a QEMU timer | register writes, callbacks | firmware, QEMU's main loop | callbacks run late, registers written in any order | no tick lost, none invented |
| DSPI and RTC, GPIO, NVRAM, boot log, skin, OCR, `octdsp` | | | | little order to get wrong | |

Everything on QEMU's side of the table but the death of the process runs on the
vCPU thread or under the big lock: the board's interleavings are those of the
guest's instructions, its interrupts and QEMU's timers. Real concurrency is
between the two processes and between the frontend's threads (render, audio,
boot, panel, the writers, SDL's callback).

## The modules

| module | what it models | proofs |
|---|---|---|
| `RingIndex`, `BlockFifo`, `AudioLink` | the audio link, both processes | `AudioLinkProofs` |
| `Ata`; `AtaDriver` extends it with the firmware | the ATA controller and its timers | `AtaProofs` |
| `Edma`; `EdmaFrame` extends it with the block loop; `Completions`, `BlockLoop` | the eDMA engine and its gate | `EdmaProofs` |
| `DspDelivery`; `HostPort` extends it with the words of a transfer | the delivery hold and the frame line; the host port, its FIFO and its drains | `DspDeliveryProofs` |
| `Recording` | the film: gate, shutter, rings, encoder | `RecordingProofs` |
| `ScriptWalk` | the walker and its ramps | `ScriptWalkProofs` |
| `PanelLink` | the panel client, the socket and the UART | `BoardProofs` |
| `PanelInput` | hands, the event loop and the gestures of the skin | `FrontendProofs` |
| `UsbBench` | the USB device controller and its scripted host | `BoardProofs` |
| `Frontend` | the lives of frontend and QEMU, the run directory, the card | `FrontendProofs` |
| `Timers` | a PIT and a DTIM | `BoardProofs` |

`MC*` modules and configurations instantiate them. A definition whose comment
begins with "Mutant" is what a plausible bug would make of the definition that
follows it; no behaviour uses it. It is there so that each property can be seen
to fail.

How they fit together: `AtaDriver` and `EdmaFrame` are a device composed with the
guest's code, `HostPort` is the register level of `DspDelivery` and implements
it. `Frontend` has the connection of `AudioLink` reduced to what keeps a process
from ending. What the other modules share is named by the same variable:
`PanelInput` ends where `keys` of `PanelLink` begins, `Recording` counts the
blocks that `AudioLink` delivers, `ScriptWalk` ticks with them.

### AudioLink

`pc` is where the vCPU thread is in `closeBlock()`; each frontend is a process
whose audio thread is where `fe` says. A load or store of shared memory that
the two sides order against each other is a step of its own: the payload of a
slot (`WriteSlot`) and the head that publishes it (`PublishHead`), the copy and
the release of a block, the two halves of an answer. `Publish` is
`shmPublish()` with its resync of both tails; `BackstopEof` and `BackstopPass`
are the two ways out of the wait for a frontend that has stopped; `Crash` takes
a frontend away at any point, and `Shutdown`/`Terminate` are `atexit` on
another thread. A block is named by the free-running index it was put at, taken
modulo `WRAP`, which stands for 2^64 and is a multiple of `CAP`, as there.

`BlockFifo` is what a ring promises its reader: a bounded FIFO that may be
cleared. Both rings are shown to implement it (`Fifos`); the
abstract queue is the unread part of the ring while a frontend reads it.

The statements of `shutdownAudio()` are one step.

### Ata and AtaDriver

`Ata` is the controller alone: commands, the data port, status and alternate
status, control with its reset, the interrupt enable, and the timers `irq_timer`
and `wr_timer` with their gates. What the gates peek at in guest memory changes
at will. `AtaDriver` gives it the meaning the comments of `ot-ata.c` disassemble
from the firmware: a requester that publishes an event, writes the command,
reads the event pointer again and waits; and an interrupt handler that moves
sectors and clears the pointer when it signals. Both are marked external.
Sectors have two accesses instead of 256, all of one size; their contents are
left out.

### Edma and EdmaFrame

`Edma` has the control word of each channel, the latched flags, the interrupt
lines and the completions a gate holds back. `SSRT` raises its completion at
once; `START` only when the firmware's state counter reads zero, which `Poll`
looks for once in a quantum of guest instructions. Channels link to one another
to the depth of the code's recursion. `EdmaFrame` adds the frame and state
handlers as the board's comments and `re/coldfire.syms` describe them, with the
counter and the table of eight states. The bound on a hold is counted in quanta.
The bytes a transfer moves, and the DONE bit, are left out.

### DspDelivery

The codec's payload reduced to its three places: its poll, the publication of
an index, and the rendering. `Interleave` is a tick at a TB boundary
(`stepRound()`), where the hold applies; `Drain` is the core stepped inside a
register handler, where it does not. The guest pops the index, transfers and
finishes, with a sum or without. The hold lasts at most `HOLD_MAX` ticks of
the wall clock, after which the hatch lets the codec go. The count of
outstanding deliveries saturates at `OUT_MAX`. One round to a tick is modelled,
the default interleave.

### HostPort

`stage` is how far the guest is with a transfer: the reset of the FIFO (`Icr`),
the two arguments, the host command (`Cvr`), the bursts. The handlers that wait
are split in two, and between the halves the core is stepped (`Drain` for its
program, `CoreStep` for the command handler and the DMA channel, which take from
the same FIFO). A word is the transfer it belongs to. `misplaced` remembers that
one was destroyed, or taken for another's. A wait ends when what it waits for has
come or when the core cannot move: the bounds on the drains are long enough for
a core that can. The boot upload, the second core and the stale pops are left
out; a readback is `DspDelivery`'s.

### Recording

Three threads: the main loop (`render`), `audio_main()` and the boot thread.
A writer, its ring and its pipe are one counter. The test of the gate, the push
and the count are steps of their own. `lead` and `surplus` measure the sound
ahead of the pictures. The encoder takes the streams as it needs them, in
turns, and may die. The `.wav` and `.gif` modes are left out, and so is the
failure of a codec and the statistics.

### ScriptWalk

`pc` separates the top of a pass, where `ramp_advance()` runs, from the loop of
`script_step()`, in which a phase of the step is an action: `ActTap`, `Release`,
`TapAgain`, `Settled` and the polls, which end in `Met`, `Expire`, `Retap` or
`LookAgain`. The walk's clock is the blocks the audio thread takes (`Block`),
and goes on in the middle of a pass, so every deadline is kept as the time
left. The guest draws when it likes; a look may fall into a repaint, which is
taken not to last for two looks. `KINDS` names the kinds of step a walk may
hold. Actions without state, the values a slide sends on its way, the wait in
wall time and the effect of a click are left out.

### PanelLink

A byte is the frame it belongs to and its place there, and a frame is whole when
its bytes follow one another. `hand` and `beat` are what the main thread and the
panel thread are about to send: the state is read under the lock and sent after
it, and `panel_send()` sends a frame whole or not at all. On the guest's side
`Pump` is the refill of the FIFO that follows every change, `Stage` puts a reply
behind what is queued, in the middle of a frame or not, and `Write` takes
version queries out of the guest's stream. The long reply comes by a timer of
250 ms, of which `timer` and `ver_query` are left. `dropped`, `spoiled` and `cut`
say that a frame was not sent, was torn or did not fit; the properties excuse
what they must and no more. `NewFrame` and the order of reads are the guest's.
Encoders are deltas and have no state to converge to.

### UsbBench

A slot is an endpoint and a direction. The chain of a slot is the lengths of its
active descriptors. `Meet` is `ot_usbh_try()`: bytes move when the guest has
primed and the host has asked, and every action that may make it so ends with
it. `Level` and `Raise` are the line, which is driven at some writes only. The
guest brings the controller up (`BringUp`) and then handles its interrupts
(`Handler`) by status bit; the host opens, asks, resets the bus once and leaves.

### Frontend

`fe` is where `main()` is from `emu_die()`'s first possible call to the end of
`cleanup()`; a signal handler may take its place anywhere (`handler`), and a
crash may end it anywhere. `qemu` runs from `fork()` to the reaped child; before
`exec()` the child has the parent's handlers (`ChildTerm`). Mounting and ejecting
the card follow the guest's flag in three steps: the poll of the board, the line
in the notify file, the frontend's read. `Mixes` says which optional events one
behaviour may have.

### PanelInput

Hands move keys, mouse and modifiers and fill SDL's queue; the event loop
handles the head of it, with the modifiers of that moment, and ticks when there
is none. A script's clicks and drags go through the same handlers. Nothing is
asked of the hands. Where the code loses the release of a panel key, the step that
loses it writes the key down in `slipped`, until it comes up: a modifier that is
changed while a key is down (`main.c` 666-671), a second tap (one `tap_id`,
`skin.c` 1096), a gesture that begins inside another (`skin.c` 1036-1046). `LetGo`
says that no other key stays down. `DragAsMeant` relates the switch of the knob
in hand to how its drag was begun; `shared` says that the keyboard (F1 to F7 are
bound to the switches), the wheel or the end of a tap has pressed or released that
same switch during the drag, or that it was down before, and only then is the drag
excused. Ctrl and the wheel over a knob that is push-dragged, for one, release its
switch. A knob has a switch (`skin.c` 1044) which is no button of the panel:
assumptions.

### Timers

Virtual time is relative to now: `left` is the count of the ptimer, `lag` the
age of a DTIM's start and `due` the time until its QEMU timer. The main loop
(`BeginList` to `EndList`) runs what is due, late as a rule; while it does no
register is written. A ptimer that is enabled with no limit disables itself, as
QEMU's does (external). The prescalers only scale. `DTRR + 1` is a sum of 32 bits
(`ot-board.c` 635): at a reference of all ones the period is zero, and the timer
is never armed.

## The runs

| run | configuration | what it shows |
|---|---|---|
| `link_safety` | two frontends, `CAP` 3, `MAX_AHEAD` 1, `OUT_BLOCKS` 1 | through every crash, quit and reconnect the rings have one reader and are never overrun |
| `link_stream` | one frontend, fair | each ring implements `BlockFifo`; blocks arrive; the backstop lets go of a frontend that ends, and an orphan exits |
| `ata_driver` | the firmware's driver, fair | transfers are whole, no completion lands in another command, the requester never waits on a cleared event, the handler never for data that will not come, every request completes |
| `edma_block_loop` | the real table of eight states, fair | no dispatch on a stale counter, no abort, completions kept, the loop implements `BlockLoop`, every block closes |
| `dsp_delivery` | two tracks and the sum, a hold of two ticks, fair | every word lands in its place, the port implements `DspDelivery`, no tick tears a delivery, the codec goes on |
| `recording` | a picture every two blocks, fair | pictures never ahead of the sound, one clock at a time, no old picture after an opening, the stop ends |
| `walk` | three steps of every kind, three controls on two slots, fair | one ramp per control; what a step waited to see gone was gone after the last tap; deadlines end steps in spite of retaps; turns end |
| `panel` | FIFO of one byte, queue and socket of two, frames of two; six mixes | no byte is stuck in the UART; keys, crossfader and lamps become known at the other end; the last query is answered |
| `usb` | control, bulk and isochronous slots, chains of two | guest and host never wait on each other; each operation is answered; the bring-up ends |
| `frontend` | three mixes: start and end, the card with failing ejects, the card with an early end | a frontend that returns leaves nothing behind; both processes end; the host's mount follows the guest |
| `input` | two keys, one of them bound to a knob's switch, two buttons, two knobs and the pot, two events queued; five pairs of keyboard, mouse, wheel and script | a key stays down for the three slips only, a drag turns as it was begun |
| `timers` | moduli up to 2 of a count of 3, every reference on a wrap of 4, two ticks late | a delay is never short, no match is lost or invented, ticks and the timer list go on |

Deadlock is checked in `ata_driver`, `edma_block_loop` and `dsp_delivery`, whose
systems never stop. In the others a stop is legal: the processes end
(`link_*`, `frontend`, `recording`, `walk`), the operator rests (`panel`,
`input`), the host is content (`usb`), no timer is enabled (`timers`).

### Why the bounds are enough

- *Rings.* The link's arguments are about "full", "one left", "empty" and the
  relation `MAX_AHEAD + OUT_BLOCKS < CAP`: three slots are the smallest ring
  that meets it, and indices wrap within the run. The proof of `NoOverrun` is
  for every size that meets the relation, 64 + 64 < 256 among them.
- *Frontends.* Two can contend; a third would queue behind the second. The
  proof is for any number.
- *ATA.* A sector of two accesses has a first and a last; a count of three has a
  middle sector; three polls are before, at and after the bound of a gate.
- *eDMA.* Three channels link past the depth of two. The block loop runs with
  the real table.
- *Delivery.* Two outstanding deliveries are one more than the hold needs.
- *Recording.* A period of two blocks distinguishes "in the middle of a period";
  `AUDIO_CAP` exceeds `BLOCKS_PER_VIDEO * (VIDEO_CAP + 1)`, as in the code for any
  sensible width of picture (see below).
- *Walk.* Three steps let a turn outlive its step, and a third control find both
  slots taken. The deadline leaves room for one retap and a look after it.
- *HostPort.* Three words are one more than the FIFO holds, so a burst has to
  wait; two destinations besides the sum make a word taken for another's visible.
- *Panel.* With a FIFO of one and frames of two no frame fits where it goes in one
  piece, so every tear that the real sizes allow between two bytes happens. What
  may go on together is chosen in pairs (`Mixes`): each of keys, crossfader and
  lamps with queries, and with a reset of the receiver, and queries among themselves.
- *USB.* A chain of two has a last descriptor and one before it; lengths are half a
  packet and a whole one. Slots share the status register and the line only; the
  two control slots are checked together.
- *Frontend.* Two rounds of USB DISK MODE put a second flag before the first
  line is read. `deaf` (below) is left out of the mixes.
- *Input.* Two events wait at the most, so that one is handled while another has
  changed what it is about. What is at work goes in pairs (`InputMixes`): what two
  of them share is the panel's keys and one gesture. The proofs are for all four.
- *Timers.* Two ticks late is more than a period; a reference divides the wrap,
  does not, or wraps itself. The two kinds do not interact: one is in use in a behaviour.

### Fairness

- `AudioLink`: the vCPU thread runs and calls `closeBlock()` when a block is
  complete; an audio thread that can go on does. Quitting, starting or killing a
  frontend is never obliged.
- `AtaDriver`: the vCPU runs, and virtual time passes. With
  `VCPU_STALLS = FALSE` the guest retires something between two timer polls, as
  under `-icount`.
- `EdmaFrame`: the vCPU retires instructions and its quanta are polled.
- `DspDelivery`: the guest runs its handler to its end, quanta are polled, the
  wall clock goes on. Strong fairness stands for the codec's poll, which leaves
  its loop when the ESAI clock has come up often enough, and for the end of a
  delivery that the drains interrupt.
- `Recording`: threads are scheduled, the encoder reads. Nobody has to end the
  run.
- `ScriptWalk`: the main loop goes on and the guest makes sound. A look is due
  every 250 ms of wall time, so among the passes some look (strong fairness of
  `Look`).
- `HostPort`: as `DspDelivery`; the core consumes what it can and a transfer that
  is begun is carried through.
- `PanelLink`: threads and QEMU's main loop run, the reply timer fires, the guest
  reads, enables its receiver and writes what it has begun. The panel thread
  reads the socket again and again between heartbeats (strong). Keys, lamps,
  queries and resets are never obliged.
- `UsbBench`: the guest's bring-up and handler go on, and it queues chains again
  and again for the slots in use (strong, since the handler interrupts it).
- `Frontend`: every thread of both processes is scheduled, a signal is acted on,
  blocks are made and the poll timer fires. Nothing ends a run.
- `Timers`: the clock goes on and the main loop comes round.

## What is proved

Each for every value of the constants that meets the module's assumptions.

- **AudioLink** (`AudioLinkProofs`). `Inv == TypeOK /\ HolderIsClient /\
  LinkBounds /\ CopiedUnread` is inductive. `HolderIsClient` is why a frontend
  that reconnects never meets the old one: whoever has the segment is the
  client, or the one `shutdownAudio()` cut off. `NoOverrun` alone is not
  inductive: the input ring is written without a look at its tail, and stays
  within bounds because an answer is to a block that has left the other ring;
  `LinkBounds` counts the blocks in flight in both directions, before and after
  the shutdown. `CapacityAssumption` is needed exactly there.
  `LinkIsTwoFifos` is the refinement of `BlockFifo` by both rings. Its lemmas say
  what the unread part of a ring is as a sequence, over indices that wrap:
  publishing a block appends what its slot holds (`UnreadPut`), releasing one
  takes the head off (`UnreadTake`), and writing the slot of the head changes
  nothing that is unread as long as one slot is free (`UnreadWrite`). The bounds
  of `LinkBounds` are what keeps it free; that a reader has nothing in hand
  when it takes (`HandsFree`) is the only other strengthening. A reader that
  dies or leaves, and `shmPublish()`, are steps that abandon the queue.
- **Ata** (`AtaProofs`). DRQ with the sectors left, and the owner of a completion
  on its way, by one inductive invariant of the device under any guest. For the
  driver, if virtual time cannot pass with the vCPU standing still: `GateWorks`,
  the gate never lets a completion into the requester's window; and `HoldWorks`,
  the handler is never entered with a count of sectors that is not the device's.
  The invariant of the latter is about who is behind: in a read, the handler
  between a sector's last word and its count; in a write, the task for the first
  sector and the handler for the others, and then the completion is held by a
  timer that has fired at most once, since the vCPU ran last. The assumption on
  the vCPU cannot be dropped (see below).
- **Edma** (`EdmaProofs`). `Latched` and the refinement of `Completions` for any
  guest; with the firmware, an invariant in four parts (handlers, flags, counter,
  hold) gives `NoStaleDispatch`, `HeldIsQuiet` and `NeverAborts`, and one part
  more the refinement of `BlockLoop`.
- **DspDelivery** (`DspDeliveryProofs`). While a counted delivery goes on,
  something is outstanding or the hatch has fired: hence `NoTear` for a hold of
  any length; and `LineHonest`.
- **HostPort** (`DspDeliveryProofs`). `PortInv` says for each stage of a transfer what
  the FIFO and the channel hold, between two register writes and in the middle of
  a drain: before the arguments nothing, so that the command handler meets
  exactly two of them; while words go, no more than the channel has still to take.
  Hence `RightPlace` for transfers of any length and a FIFO of any depth. The
  refinement of `DspDelivery` (`PortDelivers`) is direct, as the variables are the
  same; what it needs of the invariant is that the burst which releases the hold
  is told by the first argument since the reset. `PortKeepsPromises` is what
  follows: `NoTear` and `LineHonest` at register level.
- **Recording** (`RecordingProofs`). `VideoNotAhead`, `OneClock` and
  `FreshAfterOpen` for any period and ring sizes.
- **ScriptWalk** (`ScriptWalkProofs`). Type correctness, one ramp per control for
  any number of slots and encoders, and `GoneSeen`. The invariant behind the last
  is that of two looks in a row at most one was into a repaint: a streak of one
  is either a real absence or a repaint, and then the next look is not.
- **Frontend** (`FrontendProofs`). `ReturnClean` for any number of rounds of USB DISK
  MODE and any mix of events. The invariant has to say what `cleanup()` relies on:
  `g.qemu` is the child for as long as there is one to wait for, the wait comes
  before the directory is removed, and a card on the host has a device to eject
  unless a mount or an eject failed. Most steps of QEMU and the guest keep it for
  one reason (`Quiet`): what they change no returned frontend can see.
- **PanelInput** (`FrontendProofs`). `OnlySlipsStay` is `LetGo` and `DragsAreMeant`
  is `DragAsMeant`, for any keyboard, panel, bindings and queue, and whatever hands
  and script do. `LetGo` is not inductive, since what will release a key may still
  be an event in the queue. `InputInv` says so: every key that is down has slipped
  or has a cause, which is a key of the keyboard that is down or whose release is
  to be handled, a gesture or a tap (`Caused`); a press of the keyboard that waits
  has its release behind it once the finger is off (`KeysOwed`); and a gesture that
  goes on, or waits to begin, has a button down or its end in the queue behind it
  (`GesturesEnd`).
- **Timers** (`BoardProofs`). `MatchesCounted` for any references and lateness: the
  time a timer is overdue is the periods it owes less what is left of the one
  that goes on. `TimersAssumption` bounds the age of a start far enough away for
  an armed timer not to meet the bound. For the PIT, `FullPeriod` for any modulus:
  while a delay goes on there is at least as much left of the count as of the
  delay, and nothing has raised the flag, whatever is written to PCSR.
- **UsbBench** (`BoardProofs`). `NobodyWaits` for any slots, chains and lengths. It
  needs that nothing is primed before the guest has programmed its list, and
  that a host that is not there waits for nothing.
- **PanelLink** (`BoardProofs`). Type correctness, which includes the bounds of FIFO
  and queue, and `NothingStuck` for frames and depths of any size: every path
  that frees a place or brings a byte ends in the pump.

Model-checked only: every liveness property, as the prover has neither fairness
nor `ENABLED`. Every safety property and every refinement that a run checks is a
theorem. `LineHonest` is proved and not run: it follows from `Delivery`.
`TransferWhole`, `NoStaleCompletion` and `CompletionsKept` are checked
under the firmware's driver and proved for any guest at all.

## What was found

Properties that are written down in the modules and do not hold. No run lists
them; give TLC a configuration with the property and the constants named.

- `TapEnds` (`PanelInput`; `InputMixes` {{"mouse"}}). "A plain click on a knob taps
  its switch" (`skin.c` 354-355). There is one place for a "deferred switch release"
  (`skin.c` 361): a click on a second knob that is handled before `skin_tick()` has
  released the first, in 90 ms or after a loop that was held up, takes it, and the
  first switch stays down.
- `BackstopEnds` (`AudioLink`; one frontend). `shmPublish()` sets
  `consumer_alive` before the consumer has the segment (`ot-dsp-shim.cc` 313), and
  an `audio_connect()` that fails after the hello line neither clears it nor
  closes its socket. The backstop then waits for as long as that process lives,
  and `cleanup()` of that process waits for QEMU: with the event `deaf` in the
  mixes of `Frontend`, `BothEnd` fails too.
- `ResetIsClean` (`Ata`). "On release, a clean task file" (`ot-ata.c` 704): the
  reset cancels neither `wr_pending` nor `wr_timer`, and a write completion posted
  before it raises INTRQ after it. The firmware resets once, at bring-up.
- `InStep` (`Recording`; `Spec`, two blocks a picture, `SURPLUS_MAX` 8: with the
  run's bound of 4 the surplus cannot grow far enough). The gate stops the
  pictures (`audio.c` 78-90) and not the sound (`audio.c` 946).
- `QueryForwarded` (`PanelLink`). "The query is forwarded too" (`ot-panel-uart.c`
  25): it is taken out of the stream.
- `ShortPacketEnds` (`UsbBench`; `UsbMixes` {{"in1"}}, no isochronous endpoint,
  `PACKET` 2, `Lengths` {1, 3, 5}: the run's lengths fit one packet). "one packet per poll; a short packet ends a
  bulk transfer" (`ot-board.c` 1977-1978): a chain goes on past a descriptor that is not full.
- `HandoffClean` (`Frontend`). "The guest unmounts its filesystem first, so the
  handoff is clean" (`main.c` 152-153, 222-226; `ot-board.c` 2356-2360). It is clean
  on the way in. On the way out the guest's flag is polled, and the line waits to
  be read, while the guest mounts its card again; and a device is forgotten
  after an eject that failed (`main.c` 263).

Met while modelling:

- `main.c` 351: "Removed on EVERY exit path": between the unlinks and the rmdir of
  `on_term()` QEMU may make a socket or the notify file, and the directory stays.
  `on_term()` does not eject the card either.
- `main.c` 308, 375: a signal between `fork()` and the assignment of its result
  leaves QEMU running, as does a frontend killed before its audio connection;
  between `waitpid()` and `g.qemu = -1` the kill goes to a pid that is free again.
- `audio.c` 835: the read of the hello line does not look at `g_quit`: it ends
  only with QEMU, which is why `cleanup()` has to end QEMU first.
- `audio.c` 804: the monitor's reader may be lapped while it copies.
- `main.c` 666-671: a key is released as what it is found with the modifiers of the
  release, so ctrl or alt changed meanwhile leaves the panel's key down.
  `skin.c` 1036-1046, 1165: a press, or a scripted drag, inside another gesture drops
  what that one held. Both are slips of `PanelInput`.
- `ot-board.c` 540-552: a write to PCSR without PIF clears PIF, though the comment
  has it write-1-to-clear, and restarts the timer: a tick that comes between a
  read and the write back is lost.
- `ot-board.c` 572: a PIT that is enabled the first time without OVW raises its
  interrupt at once.
- `ot-board.c` 591-598, 657-690: outside restart mode a match moves the DTIM's
  start into the future, where DTCN reads as garbage, and the "full wrap" is
  exact only when `DTRR + 1` divides 2^32. A timer that is armed late raises a
  burst of matches to catch up.
- `ot-board.c` 1799: a write to USBINTR does not update the interrupt line.
  `ot-board.c` 2119: a bus reset leaves the host's operations pending. Both are
  excused in `OpAnswered`.
- `ot-dsp-shim.cc` 969: a drain is not held; when it carries the codec past its
  poll in the middle of a delivery, the next readback takes the next published
  index. `DspDelivery` allows it and `NoTear` speaks of ticks only.
- `ot-dsp-shim.cc` 211: more than four blocks shipped in one pass drop the newest
  input.
- `ot-dsp-shim.cc` 823-824: in `HostPort` the barriers of the command add nothing
  to the order of the FIFO, once the reset has emptied it; a burst written at its
  bound may leave the FIFO above its depth.
- `ot-dsp-shim.cc` 647: closeBlock() takes one input block per block shipped, so
  the link stays behind by as much as its worst stall, though `ot-audio-shm.h`
  43-46 has "steady-state occupancy is zero or one block".
- `script.c` 571: `ramp_advance()` runs before the condition is looked at. A block
  that arrives in between can end a slide's or turn's own wait with its last
  value or detent unsent; when the next step turns the same encoder again, or the
  script ends there, it is lost. `script.c` 243: "the step ends when the handle
  arrives".
- `script.c` 603-628: taps of one key in two steps without a condition have no
  gap between release and press, as a double tap has.
- `ot-dsp-shim.cc` 131-132, 454: the hatch settles its accounts before the codec
  crosses, not after.
- `ot-ata.c` 206-208: the gate's escape raises INTRQ whether or not the requester
  is parked. With `VCPU_STALLS = TRUE`, and the deadlock check off (`tlc -deadlock`:
  the firmware does stop there), `NoWedge` and `NoSpin` fail.
- `audio.c` 93, 942: a `.wav` is not gated either.
- `audio.c` 264-276: with a picture less than about 118 pixels wide the ring of
  sound holds less than the pictures need, and the stop can wait for ever.
- `panel.c` 117, `ot-panel-uart.c` 133-152: the snapshot of the keys is the only
  frame without a heartbeat. Dropped at a full socket, or torn by a reply
  staged into its middle, it is made up for by the next key only. Replies beyond
  256 bytes are cut; a reset receiver keeps its queue and its reply timer.

## Not modelled yet, or at all

Next, in this order:

1. The inter-core mailbox and the ESAI rings with their pace (`ot-dsp56k.cc`,
   `ot-dsp-shim.cc` 166-226, 667-685): order kept, drops only when full. Plain
   FIFOs, with one thread on either side of them.
2. The bytes of a transfer (`ot-board.c` 850-990), as operators on small memories.
3. The monitor's lap check and MIDI framing.

Left out of the modelled parts: what `PROJECT.json` says of each.

Not to be modelled: the drawing of the skin, OCR (a matcher over bitmaps), DSPI,
RTC, GPIO and NVRAM (answered within one register access), the boot log,
`octdsp` (a bench for the same chip), the patches and the firmware's own patches
(code outside these processes). The firmware, the codec's payload and the encoder
are modelled only as far as the code that talks to them says.
