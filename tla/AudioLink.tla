------------------------------ MODULE AudioLink ------------------------------
(***************************************************************************)
(* The audio link between the DSP shim inside QEMU and the frontend: two   *)
(* single-producer single-consumer rings in shared memory, one per         *)
(* direction, and a socket that carries one hello line and then only the   *)
(* news that the other side is gone (board/ot-audio-shm.h, closeBlock() of *)
(* board/ot-dsp-shim.cc, audio_main() of audio.c).                         *)
(*                                                                         *)
(* The shim's side runs on the vCPU thread: pc is where that thread is in  *)
(* closeBlock().  Each frontend is a process whose audio thread is where   *)
(* fe says; it may crash, quit and come back at any time.  Every load and  *)
(* store of shared memory the two sides order against each other is a step *)
(* of its own.                                                             *)
(*                                                                         *)
(* A block is named by the free-running index it was put at; audio itself  *)
(* is left out.                                                            *)
(***************************************************************************)
EXTENDS RingIndex, Sequences

CONSTANTS
  Frontends,            \* the processes that connect to the audio socket
  None,                 \* no client, or no block in hand
  MAX_AHEAD,            \* OT_SHM_MAX_AHEAD
  OUT_BLOCKS            \* OutRing::kCap in blocks

ASSUME LinkAssumption ==
  /\ None \notin Frontends
  /\ None \notin Index
  /\ MAX_AHEAD \in Nat \ {0}
  /\ OUT_BLOCKS \in Nat \ {0}

\* The rings are large enough for a full backlog shipped without waiting on
\* top of MAX_AHEAD blocks, with one slot to spare: 64 + 64 < 256 in the code.
ASSUME CapacityAssumption == MAX_AHEAD + OUT_BLOCKS < CAP

VARIABLES
  \* the shim, on the vCPU thread
  pc,              \* where closeBlock() is
  backlog,         \* g_out: whole blocks rendered and not yet shipped
  g_client,        \* the accepted connection, or None
  g_hadFrontend,
  g_shm,           \* is the segment mapped?
  g_running,
  \* the segment
  out_head, out_tail, in_head, in_tail, consumer_alive,
  out, in,         \* the slots of the two rings
  \* the sockets
  listenq,         \* connected and not yet accepted
  shut,            \* the connection shutdownAudio() shut down, or None
  \* the frontends
  fe,              \* where each audio thread is
  quit,            \* g_quit of each frontend
  \* the block each reader has in hand: the local buffers of the two loops
  heard, fed,
  g_exitWithFrontend   \* -M octatrack,exit-with-frontend=: chosen once

shimVars == <<pc, backlog, g_client, g_hadFrontend, g_shm, g_running>>
outVars == <<out_head, out_tail, out, heard>>
inVars == <<in_head, in_tail, in, fed>>
ringVars == <<outVars, inVars, consumer_alive>>
feVars == <<fe, quit>>
linkVars == <<shimVars, ringVars, listenq, shut, feVars>>
vars == <<linkVars, g_exitWithFrontend>>

OutCount == Occupancy(out_head, out_tail)
InCount == Occupancy(in_head, in_tail)

ShimStates == {"run", "ship", "backstop", "write", "publish", "take", "feed", "exited"}

\* "gone": no process, or its socket closed.  "queued": connected, waiting for
\* the hello line.  "greeted": the hello line is in its socket.  "failed":
\* audio_main() returned before it had the segment.  "top" .. "answered": the
\* loop of audio_main().  "done": audio_main() returned, the socket still open.
Looping == {"top", "wait", "copied", "owes", "answered"}
FeStates == {"gone", "queued", "greeted", "failed", "done"} \union Looping

\* recv() on the accepted connection returns 0: the peer closed it, or
\* shutdownAudio() shut it down.
PeerGone(f) == fe[f] = "gone" \/ shut = f

\* The same in the frontend: the shim closed the connection, shut it down or
\* the process is gone.
ShimGone(f) ==
  \/ pc = "exited"
  \/ shut = f
  \/ g_client # f /\ ~ \E i \in DOMAIN listenq : listenq[i] = f

-----------------------------------------------------------------------------
Init ==
  /\ pc = "run"
  /\ backlog = 0
  /\ g_client = None
  /\ g_hadFrontend = FALSE
  /\ g_shm = FALSE
  /\ g_running = TRUE
  /\ out_head = 0 /\ out_tail = 0
  /\ in_head = 0 /\ in_tail = 0
  /\ consumer_alive = FALSE
  /\ out = [s \in 0 .. CAP - 1 |-> 0]
  /\ in = [s \in 0 .. CAP - 1 |-> 0]
  /\ listenq = <<>>
  /\ shut = None
  /\ fe = [f \in Frontends |-> "gone"]
  /\ quit = [f \in Frontends |-> FALSE]
  /\ heard = None
  /\ fed = None
  /\ g_exitWithFrontend \in BOOLEAN

-----------------------------------------------------------------------------
(* The shim *)

\* The DSP is stepped, by ot_dsp_interleave() or an inline drain, until its
\* ESAI has ticked a whole block.  OutRing::push drops the oldest when it is
\* full.
Render ==
  /\ pc = "run"
  /\ g_running
  /\ backlog' = IF backlog < OUT_BLOCKS THEN backlog + 1 ELSE backlog
  /\ UNCHANGED <<pc, g_client, g_hadFrontend, g_shm, g_running, ringVars, listenq, shut, feVars>>

\* closeBlock(), the top: with exit-with-frontend the process ends when the
\* frontend it had is gone.
CloseExit ==
  /\ pc = "run" /\ g_running /\ backlog > 0
  /\ g_exitWithFrontend /\ g_hadFrontend /\ g_client = None
  /\ pc' = "exited"
  /\ UNCHANGED <<backlog, g_client, g_hadFrontend, g_shm, g_running, ringVars, listenq, shut, feVars>>

\* Mutant of Publish: the reused segment is not resynced.
PublishStale(f) ==
  /\ g_shm' = TRUE
  /\ consumer_alive' = TRUE
  /\ IF PeerGone(f)
     THEN g_client' = None /\ UNCHANGED fe
     ELSE g_client' = f /\ fe' = [fe EXCEPT ![f] = "greeted"]
  /\ UNCHANGED <<out_head, out_tail, out, in_head, in_tail, in>>

\* shmPublish(): map the segment the first time, resync both tails when it is
\* reused, then send the hello line, which fails when the peer has gone.
Publish(f) ==
  /\ g_shm' = TRUE
  /\ out_tail' = out_head
  /\ in_tail' = in_head
  /\ consumer_alive' = TRUE
  /\ IF PeerGone(f)
     THEN g_client' = None /\ UNCHANGED fe
     ELSE g_client' = f /\ fe' = [fe EXCEPT ![f] = "greeted"]
  /\ UNCHANGED <<out_head, out, in_head, in>>

\* shmPublish() when the segment cannot be created: the connection is closed.
PublishFails ==
  /\ ~ g_shm
  /\ UNCHANGED <<g_shm, g_client, fe, out_head, out_tail, out, in_head, in_tail, in, consumer_alive>>

\* Mutant of CloseAccept: the newest connection wins.
CloseAcceptAny ==
  /\ pc = "run" /\ g_running /\ backlog > 0
  /\ ~ (g_exitWithFrontend /\ g_hadFrontend /\ g_client = None)
  /\ listenq # <<>>
  /\ listenq' = Tail(listenq)
  /\ g_hadFrontend' = TRUE
  /\ Publish(Head(listenq)) \/ PublishFails
  /\ pc' = "ship"
  /\ UNCHANGED <<backlog, g_running, heard, fed, shut, quit>>

\* closeBlock(), accepting: only with no client, one connection at a time.
CloseAccept ==
  /\ pc = "run" /\ g_running /\ backlog > 0
  /\ ~ (g_exitWithFrontend /\ g_hadFrontend /\ g_client = None)
  /\ g_client = None
  /\ listenq # <<>>
  /\ listenq' = Tail(listenq)
  /\ g_hadFrontend' = TRUE
  /\ Publish(Head(listenq)) \/ PublishFails
  /\ pc' = "ship"
  /\ UNCHANGED <<backlog, g_running, heard, fed, shut, quit>>

\* closeBlock(), nothing to accept.
CloseShip ==
  /\ pc = "run" /\ g_running /\ backlog > 0
  /\ ~ (g_exitWithFrontend /\ g_hadFrontend /\ g_client = None)
  /\ g_client # None \/ listenq = <<>>
  /\ pc' = "ship"
  /\ UNCHANGED <<backlog, g_client, g_hadFrontend, g_shm, g_running, ringVars, listenq, shut, feVars>>

\* OutRing::popBlock gave a block: with nobody to take it the loop goes on.
PopBlock ==
  /\ pc = "ship" /\ backlog > 0
  /\ backlog' = backlog - 1
  /\ pc' = IF g_client = None THEN "ship" ELSE "backstop"
  /\ UNCHANGED <<g_client, g_hadFrontend, g_shm, g_running, ringVars, listenq, shut, feVars>>

\* Mutant of TooFarAhead: it waits only when the ring is full.
TooFarAheadFull == g_running /\ consumer_alive /\ OutCount >= CAP

\* The condition of the loop that waits for a frontend that has stopped.
TooFarAhead == g_running /\ consumer_alive /\ OutCount >= MAX_AHEAD

\* The backstop finds the frontend gone: the block in hand is not shipped.
BackstopEof ==
  /\ pc = "backstop" /\ TooFarAhead
  /\ PeerGone(g_client)
  /\ g_client' = None
  /\ pc' = "ship"
  /\ UNCHANGED <<backlog, g_hadFrontend, g_shm, g_running, ringVars, listenq, shut, feVars>>

BackstopPass ==
  /\ pc = "backstop" /\ ~ TooFarAhead
  /\ pc' = "write"
  /\ UNCHANGED <<backlog, g_client, g_hadFrontend, g_shm, g_running, ringVars, listenq, shut, feVars>>

\* The payload, then the head that publishes it.
WriteSlot ==
  /\ pc = "write"
  /\ out' = [out EXCEPT ![Slot(out_head)] = out_head]
  /\ pc' = "publish"
  /\ UNCHANGED <<backlog, g_client, g_hadFrontend, g_shm, g_running, out_head, out_tail, heard, inVars, consumer_alive, listenq, shut, feVars>>

PublishHead ==
  /\ pc = "publish"
  /\ out_head' = Succ(out_head)
  /\ pc' = "take"
  /\ UNCHANGED <<backlog, g_client, g_hadFrontend, g_shm, g_running, out_tail, out, heard, inVars, consumer_alive, listenq, shut, feVars>>

\* One input block per block shipped: an answer if there is one ...
TakeInput ==
  /\ pc = "take"
  /\ in_head # in_tail
  /\ fed' = in[Slot(in_tail)]
  /\ in_tail' = Succ(in_tail)
  /\ pc' = "feed"
  /\ UNCHANGED <<backlog, g_client, g_hadFrontend, g_shm, g_running, outVars, in_head, in, consumer_alive, listenq, shut, feVars>>

\* ... or silence.
Starved ==
  /\ pc = "take"
  /\ in_head = in_tail
  /\ pc' = "feed"
  /\ UNCHANGED <<backlog, g_client, g_hadFrontend, g_shm, g_running, ringVars, listenq, shut, feVars>>

\* Either way it goes to the DSP's side (InRing::pushBlock, not modelled here).
FeedDsp ==
  /\ pc = "feed"
  /\ fed' = None
  /\ pc' = "ship"
  /\ UNCHANGED <<backlog, g_client, g_hadFrontend, g_shm, g_running, outVars, in_head, in_tail, in, consumer_alive, listenq, shut, feVars>>

\* Everything is shipped: look once more whether the frontend has gone.
Shipped ==
  /\ pc = "ship" /\ backlog = 0
  /\ pc' = "run"
  /\ g_client' = IF g_client # None /\ PeerGone(g_client) THEN None ELSE g_client
  /\ UNCHANGED <<backlog, g_hadFrontend, g_shm, g_running, ringVars, listenq, shut, feVars>>

\* shutdownAudio(), from atexit on another thread, and the end of the process
\* some time after it.
Shutdown ==
  /\ g_running /\ pc # "exited"
  /\ g_running' = FALSE
  /\ shut' = g_client
  /\ UNCHANGED <<pc, backlog, g_client, g_hadFrontend, g_shm, ringVars, listenq, feVars>>

Terminate ==
  /\ ~ g_running /\ pc # "exited"
  /\ pc' = "exited"
  /\ UNCHANGED <<backlog, g_client, g_hadFrontend, g_shm, g_running, ringVars, listenq, shut, feVars>>

-----------------------------------------------------------------------------
(* A frontend *)

FeGoto(f, state) == fe' = [fe EXCEPT ![f] = state]

\* A frontend is started and its connect() succeeds.
Connect(f) ==
  /\ fe[f] = "gone" /\ pc # "exited"
  /\ \A i \in DOMAIN listenq : listenq[i] # f
  /\ f \notin {g_client, shut}
  /\ FeGoto(f, "queued")
  /\ listenq' = Append(listenq, f)
  /\ UNCHANGED <<shimVars, ringVars, shut, quit>>

\* audio_connect() with the hello line read: the segment is there, or it is not
\* (shm_open, mmap or the magic failed).
MapSegment(f) ==
  /\ fe[f] = "greeted"
  /\ \E state \in {"top", "failed"} : FeGoto(f, state)
  /\ UNCHANGED <<shimVars, ringVars, listenq, shut, quit>>

\* audio_connect() finds the connection closed before the hello line.
HelloFails(f) ==
  /\ fe[f] = "queued" /\ ShimGone(f)
  /\ FeGoto(f, "failed")
  /\ UNCHANGED <<shimVars, ringVars, listenq, shut, quit>>

\* The top of the loop; it is left here when g_quit is set.
LoopAgain(f) ==
  /\ fe[f] = "top" /\ ~ quit[f]
  /\ FeGoto(f, "wait")
  /\ UNCHANGED <<shimVars, ringVars, listenq, shut, quit>>

\* Mutant of CopyBlock: a jitter buffer, only the last but one block is taken.
CopyBlockLater(f) ==
  /\ fe[f] = "wait"
  /\ OutCount > 1
  /\ heard' = out[Slot(out_tail)]
  /\ FeGoto(f, "copied")
  /\ UNCHANGED <<shimVars, out_head, out_tail, out, inVars, consumer_alive, listenq, shut, quit>>

\* A block is there: copy it out.
CopyBlock(f) ==
  /\ fe[f] = "wait"
  /\ out_head # out_tail
  /\ heard' = out[Slot(out_tail)]
  /\ FeGoto(f, "copied")
  /\ UNCHANGED <<shimVars, out_head, out_tail, out, inVars, consumer_alive, listenq, shut, quit>>

ReleaseBlock(f) ==
  /\ fe[f] = "copied"
  /\ out_tail' = Succ(out_tail)
  /\ FeGoto(f, "owes")
  /\ UNCHANGED <<shimVars, out_head, out, heard, inVars, consumer_alive, listenq, shut, quit>>

\* The input block that answers it, written with no look at in_tail.
WriteAnswer(f) ==
  /\ fe[f] = "owes"
  /\ in' = [in EXCEPT ![Slot(in_head)] = in_head]
  /\ FeGoto(f, "answered")
  /\ UNCHANGED <<shimVars, outVars, in_head, in_tail, fed, consumer_alive, listenq, shut, quit>>

PublishAnswer(f) ==
  /\ fe[f] = "answered"
  /\ in_head' = Succ(in_head)
  /\ heard' = None
  /\ FeGoto(f, "top")
  /\ UNCHANGED <<shimVars, out_head, out_tail, out, in_tail, in, fed, consumer_alive, listenq, shut, quit>>

\* Mutant of LeaveLoop: it does not say so in the segment.
LeaveLoopSilently(f) ==
  /\ \/ fe[f] = "top" /\ quit[f]
     \/ fe[f] = "wait" /\ out_head = out_tail /\ (quit[f] \/ ShimGone(f))
  /\ FeGoto(f, "done")
  /\ UNCHANGED <<shimVars, ringVars, listenq, shut, quit>>

\* audio_main() ends and says so in the segment: at the top of its loop when
\* g_quit is set, or while it waits when g_quit is set or the shim is gone.
LeaveLoop(f) ==
  /\ \/ fe[f] = "top" /\ quit[f]
     \/ fe[f] = "wait" /\ out_head = out_tail /\ (quit[f] \/ ShimGone(f))
  /\ consumer_alive' = FALSE
  /\ FeGoto(f, "done")
  /\ UNCHANGED <<shimVars, outVars, inVars, listenq, shut, quit>>

\* The operator quits; audio_stop() joins the thread and closes the socket.
Quit(f) ==
  /\ fe[f] # "gone" /\ ~ quit[f]
  /\ quit' = [quit EXCEPT ![f] = TRUE]
  /\ UNCHANGED <<shimVars, ringVars, listenq, shut, fe>>

CloseSocket(f) ==
  /\ quit[f] /\ fe[f] \in {"done", "failed"}
  /\ FeGoto(f, "gone")
  /\ quit' = [quit EXCEPT ![f] = FALSE]
  /\ UNCHANGED <<shimVars, ringVars, listenq, shut>>

\* A SIGKILL or a crash: the kernel closes the socket, nothing else happens.
Crash(f) ==
  /\ fe[f] # "gone"
  /\ FeGoto(f, "gone")
  /\ quit' = [quit EXCEPT ![f] = FALSE]
  /\ heard' = IF fe[f] \in Looping THEN None ELSE heard
  /\ UNCHANGED <<shimVars, out_head, out_tail, out, inVars, consumer_alive, listenq, shut>>

-----------------------------------------------------------------------------
ShimStep ==
  \/ Render \/ CloseExit \/ CloseAccept \/ CloseShip
  \/ PopBlock \/ BackstopEof \/ BackstopPass
  \/ WriteSlot \/ PublishHead
  \/ TakeInput \/ Starved \/ FeedDsp \/ Shipped

LoopStep(f) ==
  \/ LoopAgain(f) \/ CopyBlock(f) \/ ReleaseBlock(f) \/ WriteAnswer(f) \/ PublishAnswer(f)
  \/ LeaveLoop(f)

FrontendStep(f) ==
  \/ Connect(f) \/ MapSegment(f) \/ HelloFails(f)
  \/ LoopStep(f)
  \/ Quit(f) \/ CloseSocket(f) \/ Crash(f)

Step ==
  \/ ShimStep \/ Shutdown \/ Terminate
  \/ \E f \in Frontends : FrontendStep(f)

Next == Step /\ UNCHANGED g_exitWithFrontend

Spec == Init /\ [][Next]_vars

-----------------------------------------------------------------------------
(* Invariants *)

TypeOK ==
  /\ pc \in ShimStates
  /\ backlog \in 0 .. OUT_BLOCKS
  /\ g_client \in Frontends \union {None}
  /\ g_hadFrontend \in BOOLEAN
  /\ g_shm \in BOOLEAN
  /\ g_running \in BOOLEAN
  /\ out_head \in Index /\ out_tail \in Index
  /\ in_head \in Index /\ in_tail \in Index
  /\ consumer_alive \in BOOLEAN
  /\ out \in [0 .. CAP - 1 -> Index]
  /\ in \in [0 .. CAP - 1 -> Index]
  /\ listenq \in Seq(Frontends)
  /\ shut \in Frontends \union {None}
  /\ fe \in [Frontends -> FeStates]
  /\ quit \in [Frontends -> BOOLEAN]
  /\ heard \in Index \union {None}
  /\ fed \in Index \union {None}

\* A frontend that has, or is about to have, the segment in its hands.
Holder(f) == fe[f] \in Looping \union {"greeted"}

\* The rings have one reader and one writer each: no second frontend is let in
\* while the first one still works on the segment, although the shim learns of
\* its end only through the socket.  The tails shmPublish() resyncs are then
\* nobody else's (ot-audio-shm.h:24, ot-dsp-shim.cc:288-290).
OneConsumer == \A f, g \in Frontends : Holder(f) /\ Holder(g) => f = g

\* The block taken off the ring and not yet answered.
Owed == IF \E f \in Frontends : fe[f] \in {"owes", "answered"} THEN 1 ELSE 0

\* Neither side ever writes a slot its reader has not read.  The shim checks
\* for room only while it runs and a consumer lives, and the frontend never
\* checks at all: its ring stays within bounds because every answer is to a
\* block that has left the other ring (ot-dsp-shim.cc:629-655, audio.c:905-916).
NoOverrun ==
  \A f \in Frontends :
    /\ Holder(f) /\ pc = "write" => OutCount < CAP
    /\ fe[f] = "owes" => InCount < CAP

-----------------------------------------------------------------------------
(* The abstract links *)

\* What the frontend has still to copy; nothing once no frontend is reading.
OutQueue ==
  LET unread == Unread(out, out_head, out_tail)
  IN  IF ~ \E f \in Frontends : Holder(f) THEN <<>>
      ELSE IF \E f \in Frontends : fe[f] = "copied" THEN Tail(unread)
      ELSE unread

OutLink == INSTANCE BlockFifo WITH
  Block <- Index, Limit <- CAP, Nothing <- None,
  queue <- OutQueue, hand <- heard

InLink == INSTANCE BlockFifo WITH
  Block <- Index, Limit <- CAP, Nothing <- None,
  queue <- Unread(in, in_head, in_tail), hand <- fed

\* The output ring is a FIFO for as long as a frontend reads it: each block
\* exactly once and in order, whatever the other side does meanwhile.
OutIsFifo == OutLink!Spec

\* So is the input ring, whichever frontend filled it.
InIsFifo == InLink!Spec

\* Both: the link is two FIFOs across two processes that may come, go and die
\* at any step of each other's (ot-dsp-shim.cc:616-656, audio.c:874-968).
Fifos == OutIsFifo /\ InIsFifo

-----------------------------------------------------------------------------
(* The bounds the rings stay within, which make NoOverrun inductive *)

\* Blocks closeBlock() has still to dispose of, the one in its hand included.
ToShip == backlog + (IF pc \in {"backstop", "write", "publish"} THEN 1 ELSE 0)

\* Blocks anywhere between the two processes.
InFlight == OutCount + InCount + Owed

\* While the shim runs it keeps at most MAX_AHEAD blocks in the output ring,
\* and what is in flight in both directions grows only when there is no answer
\* to take.  After shutdownAudio() the backstop no longer holds, and only what
\* is left of the backlog can still be added (ot-dsp-shim.cc:616-656).
LinkBounds ==
  /\ ToShip <= OUT_BLOCKS
  /\ pc \in {"take", "feed"} => backlog < OUT_BLOCKS
  /\ consumer_alive /\ g_running =>
       /\ OutCount <= MAX_AHEAD
       /\ pc \in {"write", "publish"} => OutCount < MAX_AHEAD
       /\ InFlight <= MAX_AHEAD + (IF pc = "take" THEN 2 ELSE 1)
  /\ consumer_alive /\ ~ g_running =>
       /\ OutCount + ToShip <= MAX_AHEAD + OUT_BLOCKS
       /\ InFlight + ToShip <= MAX_AHEAD + OUT_BLOCKS + 1

\* Who may hold the segment: the client while the shim runs, after that the
\* client shutdownAudio() cut off.
HolderIsClient ==
  /\ g_running => shut = None
  /\ \A f \in Frontends : Holder(f) =>
       /\ consumer_alive
       /\ f = IF g_running THEN g_client ELSE shut

-----------------------------------------------------------------------------
(* Liveness *)

\* The vCPU thread is never stopped for good by the host, closeBlock() runs as
\* soon as a block is complete, a process that has begun to exit does exit,
\* and every audio thread is scheduled again and again.  Nothing obliges an
\* operator to start, quit or kill a frontend.
Fairness ==
  /\ WF_linkVars(Render)
  /\ WF_linkVars(CloseExit \/ CloseAccept \/ CloseShip)
  /\ WF_linkVars(PopBlock \/ BackstopEof \/ BackstopPass \/ WriteSlot \/ PublishHead
                \/ TakeInput \/ Starved \/ FeedDsp \/ Shipped)
  /\ WF_linkVars(Terminate)
  /\ \A f \in Frontends :
       WF_linkVars(MapSegment(f)) /\ WF_linkVars(HelloFails(f)) /\ WF_linkVars(LoopStep(f))

FairSpec == Spec /\ Fairness

\* A block in the output ring reaches the frontend that reads it, however far
\* the shim runs ahead and whatever becomes of the shim: it is never stranded
\* behind an index (audio.c:892-907).
BlocksArrive ==
  \A f \in Frontends, n \in Index :
    (fe[f] \in Looping /\ out_tail = n /\ out_head # n)
      ~> (out_tail # n \/ fe[f] \notin Looping)

\* The backstop lets go: of a live frontend because it catches up, of one that
\* quit because it says so, of one that was killed because its socket says so.
\* What it cannot tell is an audio thread that ended before it had the segment
\* while its process lives on (ot-dsp-shim.cc:628-639).
BackstopLetsGo ==
  pc = "backstop" ~> (pc # "backstop" \/ \E f \in Frontends : fe[f] = "failed")

\* With exit-with-frontend=on, a frontend that had the link and died without a
\* word takes the emulator with it, from wherever closeBlock() was
\* (ot-dsp-shim.cc:255-263, 586-589).
OrphanExits ==
  g_exitWithFrontend =>
    \A f \in Frontends : (g_client = f /\ fe[f] = "gone") ~> pc = "exited"

\* The shim is never left waiting for, or running for, a frontend that is gone
\* (ot-dsp-shim.cc:586-639).
ShimLetsGo == BackstopLetsGo /\ OrphanExits

-----------------------------------------------------------------------------
(* What the comments say *)

\* "consumer -> producer liveness, so the producer can tell 'the frontend is
\* slow' from 'the frontend is gone'" (ot-audio-shm.h:85-86): the guest is not
\* held up for ever by a frontend that will never read.
BackstopEnds == pc = "backstop" ~> pc # "backstop"
=============================================================================
