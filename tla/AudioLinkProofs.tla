--------------------------- MODULE AudioLinkProofs ---------------------------
(***************************************************************************)
(* Proofs about AudioLink, for any number of frontends and any sizes that  *)
(* meet its assumptions: type correctness, one reader per ring, that       *)
(* neither ring is ever overrun, and that each implements a FIFO.          *)
(***************************************************************************)
EXTENDS AudioLink, SequenceTheorems, TLAPS

-----------------------------------------------------------------------------
(* The arithmetic of free-running indices *)

\* An index stays in its width.
LEMMA SuccType == \A i \in Index : Succ(i) \in Index
  BY RingAssumption DEF Index, Succ

\* The slot of an index is one of the ring's.
LEMMA SlotType == \A i \in Index : Slot(i) \in 0 .. CAP - 1
  BY RingAssumption DEF Index, Slot

\* Occupancy is a count, and zero exactly when the ring is empty.
LEMMA OccupancyType ==
  \A h, t \in Index :
    /\ Occupancy(h, t) \in 0 .. WRAP - 1
    /\ Occupancy(h, t) = 0 <=> h = t
  BY RingAssumption DEF Index, Occupancy

\* Publishing a block makes one more unread, as long as the count fits.
LEMMA OccupancyHead ==
  \A h, t \in Index :
    Occupancy(h, t) < WRAP - 1 => Occupancy(Succ(h), t) = Occupancy(h, t) + 1
  BY RingAssumption DEF Index, Occupancy, Succ

\* Releasing a block makes one less unread.
LEMMA OccupancyTail ==
  \A h, t \in Index :
    h # t => Occupancy(h, Succ(t)) = Occupancy(h, t) - 1
  BY RingAssumption DEF Index, Occupancy, Succ

-----------------------------------------------------------------------------
(* Type correctness *)

LEMMA TypeInit == Init => TypeOK
  BY RingAssumption, LinkAssumption
  DEF Init, TypeOK, Index, ShimStates, FeStates

LEMMA TypeStep == TypeOK /\ [Step]_linkVars => TypeOK'
<1>. SUFFICES ASSUME TypeOK, [Step]_linkVars PROVE TypeOK'
  OBVIOUS
<1>. USE LinkAssumption
     DEF TypeOK, ShimStates, FeStates, Looping, linkVars, shimVars, ringVars, outVars, inVars, feVars
<1>1. CASE Render
  <2>1. backlog' \in 0 .. OUT_BLOCKS
    BY <1>1 DEF Render
  <2>. QED
    BY <1>1, <2>1 DEF Render
<1>2. CASE CloseExit
  BY <1>2 DEF CloseExit
<1>3. CASE CloseAccept
  <2>1. Head(listenq) \in Frontends /\ Tail(listenq) \in Seq(Frontends)
    BY <1>3 DEF CloseAccept
  <2>2. CASE Publish(Head(listenq))
    BY <1>3, <2>1, <2>2 DEF CloseAccept, Publish
  <2>3. CASE PublishFails
    BY <1>3, <2>1, <2>3 DEF CloseAccept, PublishFails
  <2>. QED
    BY <1>3, <2>2, <2>3 DEF CloseAccept
<1>4. CASE CloseShip
  BY <1>4 DEF CloseShip
<1>5. CASE PopBlock
  BY <1>5 DEF PopBlock
<1>6. CASE BackstopEof
  BY <1>6 DEF BackstopEof
<1>7. CASE BackstopPass
  BY <1>7 DEF BackstopPass
<1>8. CASE WriteSlot
  <2>1. out' \in [0 .. CAP - 1 -> Index]
    BY <1>8, SlotType DEF WriteSlot
  <2>. QED
    BY <1>8, <2>1 DEF WriteSlot
<1>9. CASE PublishHead
  BY <1>9, SuccType DEF PublishHead
<1>10. CASE TakeInput
  <2>1. in[Slot(in_tail)] \in Index
    BY SlotType
  <2>. QED
    BY <1>10, <2>1, SuccType DEF TakeInput
<1>11. CASE Starved
  BY <1>11 DEF Starved
<1>12. CASE FeedDsp
  BY <1>12 DEF FeedDsp
<1>13. CASE Shipped
  BY <1>13 DEF Shipped
<1>14. CASE Shutdown
  BY <1>14 DEF Shutdown
<1>15. CASE Terminate
  BY <1>15 DEF Terminate
<1>16. ASSUME NEW f \in Frontends, FrontendStep(f) PROVE TypeOK'
  <2>. USE <1>16 DEF FeGoto
  <2>1. CASE Connect(f)
    <3>1. Append(listenq, f) \in Seq(Frontends)
      OBVIOUS
    <3>. QED
      BY <2>1, <3>1 DEF Connect
  <2>2. CASE MapSegment(f)
    <3>1. PICK state \in {"top", "failed"} : fe' = [fe EXCEPT ![f] = state]
      BY <2>2 DEF MapSegment
    <3>. QED
      BY <2>2, <3>1 DEF MapSegment
  <2>3. CASE HelloFails(f)
    BY <2>3 DEF HelloFails
  <2>4. CASE LoopAgain(f)
    BY <2>4 DEF LoopAgain
  <2>5. CASE CopyBlock(f)
    <3>1. out[Slot(out_tail)] \in Index
      BY SlotType
    <3>. QED
      BY <2>5, <3>1 DEF CopyBlock
  <2>6. CASE ReleaseBlock(f)
    BY <2>6, SuccType DEF ReleaseBlock
  <2>7. CASE WriteAnswer(f)
    <3>1. in' \in [0 .. CAP - 1 -> Index]
      BY <2>7, SlotType DEF WriteAnswer
    <3>. QED
      BY <2>7, <3>1 DEF WriteAnswer
  <2>8. CASE PublishAnswer(f)
    BY <2>8, SuccType DEF PublishAnswer
  <2>9. CASE LeaveLoop(f)
    <3>1. fe' = [fe EXCEPT ![f] = "done"] /\ consumer_alive' = FALSE
      BY <2>9 DEF LeaveLoop
    <3>2. UNCHANGED <<shimVars, outVars, inVars, listenq, shut, quit>>
      BY <2>9 DEF LeaveLoop
    <3>3. fe' \in [Frontends -> FeStates]
      BY <3>1
    <3>4. consumer_alive' \in BOOLEAN
      BY <3>1
    <3>. QED
      BY ONLY TypeOK, <3>2, <3>3, <3>4
      DEF TypeOK, shimVars, outVars, inVars
  <2>10. CASE Quit(f)
    BY <2>10 DEF Quit
  <2>11. CASE CloseSocket(f)
    BY <2>11 DEF CloseSocket
  <2>12. CASE Crash(f)
    BY <2>12 DEF Crash
  <2>. QED
    BY <2>1, <2>2, <2>3, <2>4, <2>5, <2>6, <2>7, <2>8, <2>9, <2>10, <2>11, <2>12
    DEF FrontendStep, LoopStep
<1>17. CASE UNCHANGED linkVars
  BY <1>17 DEF linkVars
<1>. QED
  BY <1>1, <1>2, <1>3, <1>4, <1>5, <1>6, <1>7, <1>8, <1>9, <1>10, <1>11, <1>12,
     <1>13, <1>14, <1>15, <1>16, <1>17
  DEF Step, ShimStep

\* Every variable stays in its type: in particular the shim's backlog never
\* exceeds OutRing (ot-dsp-shim.cc:176-185) and no index leaves its width.
THEOREM TypeCorrect == Spec => []TypeOK
<1>1. [Next]_vars => [Step]_linkVars
  BY DEF Next, vars
<1>. QED
  BY <1>1, TypeInit, TypeStep, PTL DEF Spec

-----------------------------------------------------------------------------
(* Nobody overruns a ring *)

\* A block being copied is still on the ring: only its reader releases it.
CopiedUnread == \A f \in Frontends : fe[f] = "copied" => OutCount > 0

\* The inductive invariant.  NoOverrun alone is not inductive: that an answer
\* always finds room follows from how many blocks are in flight in all, and
\* the count is only right because one frontend at a time moves the indices.
Inv == TypeOK /\ HolderIsClient /\ LinkBounds /\ CopiedUnread

\* Two holders would both be the client.
LEMMA OneHolder == HolderIsClient => OneConsumer
  BY DEF HolderIsClient, OneConsumer

\* The bounds leave room for the block about to be written, in either ring.
LEMMA RoomToWrite == Inv => NoOverrun
<1>. SUFFICES ASSUME Inv, NEW f \in Frontends
              PROVE  /\ Holder(f) /\ pc = "write" => OutCount < CAP
                     /\ fe[f] = "owes" => InCount < CAP
  BY DEF NoOverrun
<1>. USE LinkAssumption, CapacityAssumption, RingAssumption
<1>1. OutCount \in Nat /\ InCount \in Nat
  BY OccupancyType DEF Inv, TypeOK, OutCount, InCount
<1>2. backlog \in Nat
  BY DEF Inv, TypeOK
<1>3. Holder(f) => consumer_alive
  BY DEF Inv, HolderIsClient
<1>4. ASSUME Holder(f), pc = "write" PROVE OutCount < CAP
  BY <1>1, <1>2, <1>3, <1>4 DEF Inv, LinkBounds, ToShip, InFlight
<1>5. ASSUME fe[f] = "owes" PROVE InCount < CAP
  <2>1. Owed = 1 /\ Holder(f)
    BY <1>5 DEF Owed, Holder, Looping
  <2>. QED
    BY <1>1, <1>2, <1>3, <2>1 DEF Inv, LinkBounds, ToShip, InFlight
<1>. QED
  BY <1>4, <1>5

LEMMA InvInit == Init => Inv
<1>. SUFFICES ASSUME Init PROVE Inv
  OBVIOUS
<1>1. OutCount = 0 /\ InCount = 0
  BY OccupancyType, RingAssumption DEF Init, OutCount, InCount, Index
<1>2. TypeOK
  BY TypeInit
<1>3. \A f \in Frontends : fe[f] = "gone" /\ ~ Holder(f)
  BY DEF Init, Holder, Looping
<1>. QED
  BY <1>1, <1>2, <1>3, LinkAssumption
  DEF Init, Inv, HolderIsClient, LinkBounds, CopiedUnread, ToShip

\* The shim's steps that leave the rings and the frontends alone.
ShimInside ==
  \/ Render \/ CloseExit \/ CloseShip \/ PopBlock \/ BackstopEof \/ BackstopPass
  \/ WriteSlot \/ Starved \/ FeedDsp \/ Shipped \/ Shutdown \/ Terminate

LEMMA InsideStep == Inv /\ ShimInside => Inv'
<1>. SUFFICES ASSUME Inv, ShimInside PROVE HolderIsClient' /\ LinkBounds' /\ CopiedUnread'
  BY TypeStep DEF Inv, ShimInside, Step, ShimStep
<1>. USE LinkAssumption
<1>1. UNCHANGED <<out_head, out_tail, in_head, in_tail, consumer_alive, fe>>
  BY DEF ShimInside, Render, CloseExit, CloseShip, PopBlock, BackstopEof, BackstopPass,
         WriteSlot, Starved, FeedDsp, Shipped, Shutdown, Terminate,
         ringVars, outVars, inVars, feVars
<1>2. UNCHANGED <<OutCount, InCount, Owed, InFlight>> /\ \A f \in Frontends : Holder(f)' = Holder(f)
  BY <1>1 DEF OutCount, InCount, Owed, InFlight, Holder
<1>3. /\ OutCount \in Nat /\ InCount \in Nat /\ backlog \in Nat
      /\ in_head = in_tail => InCount = 0
  BY OccupancyType DEF Inv, TypeOK, OutCount, InCount, Occupancy
<1>4. CopiedUnread'
  BY <1>1, <1>2 DEF Inv, CopiedUnread
<1>5. HolderIsClient'
  BY <1>1, <1>2
  DEF ShimInside, Render, CloseExit, CloseShip, PopBlock, BackstopEof, BackstopPass,
      WriteSlot, Starved, FeedDsp, Shipped, Shutdown, Terminate,
      Inv, TypeOK, HolderIsClient, PeerGone, Holder, Looping
<1>6. LinkBounds'
  <2>. USE <1>1, <1>2, <1>3 DEF Inv, LinkBounds, ToShip, InFlight, Owed
  <2>1. CASE Render
    BY <2>1 DEF Render
  <2>2. CASE CloseExit
    BY <2>2 DEF CloseExit
  <2>3. CASE CloseShip
    BY <2>3 DEF CloseShip
  <2>4. CASE PopBlock
    BY <2>4 DEF PopBlock
  <2>5. CASE BackstopEof
    BY <2>5 DEF BackstopEof, TooFarAhead
  <2>6. CASE BackstopPass
    BY <2>6 DEF BackstopPass, TooFarAhead
  <2>7. CASE WriteSlot
    BY <2>7 DEF WriteSlot
  <2>8. CASE Starved
    BY <2>8 DEF Starved
  <2>9. CASE FeedDsp
    BY <2>9 DEF FeedDsp
  <2>10. CASE Shipped
    BY <2>10 DEF Shipped
  <2>11. CASE Shutdown
    BY <2>11 DEF Shutdown
  <2>12. CASE Terminate
    BY <2>12 DEF Terminate
  <2>. QED
    BY <2>1, <2>2, <2>3, <2>4, <2>5, <2>6, <2>7, <2>8, <2>9, <2>10, <2>11, <2>12 DEF ShimInside
<1>. QED
  BY <1>4, <1>5, <1>6

\* Accepting a frontend: nobody holds the segment when both tails are moved.
LEMMA AcceptStep == Inv /\ CloseAccept => Inv'
<1>. SUFFICES ASSUME Inv, CloseAccept PROVE HolderIsClient' /\ LinkBounds' /\ CopiedUnread'
  BY TypeStep DEF Inv, Step, ShimStep
<1>. USE LinkAssumption
<1>. DEFINE c == Head(listenq)
<1>1. c \in Frontends /\ g_running /\ g_client = None /\ shut = None
  BY DEF CloseAccept, Inv, TypeOK, HolderIsClient
<1>2. \A f \in Frontends : ~ Holder(f)
  BY <1>1 DEF Inv, HolderIsClient
<1>3. Owed = 0
  BY <1>2 DEF Owed, Holder, Looping
<1>4. CASE Publish(c)
  <2>1. OutCount' = 0 /\ InCount' = 0
    BY <1>4, OccupancyType DEF Publish, OutCount, InCount, Inv, TypeOK
  <2>2. \A f \in Frontends : Holder(f)' => f = g_client' /\ fe'[f] = "greeted"
    BY <1>1, <1>2, <1>4 DEF Publish, Holder, Looping, Inv, TypeOK
  <2>3. Owed' = 0
    BY <2>2 DEF Owed, Holder, Looping
  <2>4. HolderIsClient'
    BY <1>1, <1>4, <2>2 DEF CloseAccept, Publish, HolderIsClient
  <2>5. LinkBounds'
    BY <1>1, <1>4, <2>1, <2>3 DEF CloseAccept, Publish, Inv, TypeOK, LinkBounds, ToShip, InFlight
  <2>6. CopiedUnread'
    BY <2>2 DEF CopiedUnread, Holder, Looping
  <2>. QED
    BY <2>4, <2>5, <2>6
<1>5. CASE PublishFails
  <2>1. UNCHANGED <<OutCount, InCount, Owed>> /\ \A f \in Frontends : Holder(f)' = Holder(f)
    BY <1>5 DEF PublishFails, OutCount, InCount, Owed, Holder
  <2>2. HolderIsClient'
    BY <1>1, <1>2, <1>5, <2>1 DEF CloseAccept, PublishFails, HolderIsClient
  <2>3. LinkBounds'
    BY <1>1, <1>5, <2>1 DEF CloseAccept, PublishFails, Inv, LinkBounds, ToShip, InFlight
  <2>4. CopiedUnread'
    BY <1>2, <1>5 DEF PublishFails, CopiedUnread, Holder, Looping
  <2>. QED
    BY <2>2, <2>3, <2>4
<1>. QED
  BY <1>4, <1>5 DEF CloseAccept

\* Shipping a block: the backstop, or what is left of the backlog, bounds it.
LEMMA ShipStep == Inv /\ (PublishHead \/ TakeInput) => Inv'
<1>. SUFFICES ASSUME Inv, PublishHead \/ TakeInput
              PROVE  HolderIsClient' /\ LinkBounds' /\ CopiedUnread'
  BY TypeStep DEF Inv, Step, ShimStep
<1>. USE LinkAssumption, CapacityAssumption
<1>1. UNCHANGED <<fe, shut, g_client, g_running, consumer_alive, backlog, Owed>>
      /\ \A f \in Frontends : Holder(f)' = Holder(f)
  BY DEF PublishHead, TakeInput, outVars, inVars, feVars, Owed, Holder
<1>2. HolderIsClient'
  BY <1>1 DEF Inv, HolderIsClient
<1>3. OutCount \in Nat /\ InCount \in Nat /\ backlog \in Nat /\ Owed \in {0, 1}
  BY OccupancyType DEF Inv, TypeOK, OutCount, InCount, Owed
<1>4. WRAP \in Nat /\ CAP \in Nat /\ CAP < WRAP
  BY RingAssumption
<1>5. CASE PublishHead
  <2>1. InCount' = InCount /\ pc = "publish" /\ pc' = "take"
    BY <1>5 DEF PublishHead, inVars, InCount
  <2>2. OutCount' >= 0 /\ (OutCount < WRAP - 1 => OutCount' = OutCount + 1)
    BY <1>5, SuccType, OccupancyType, OccupancyHead DEF PublishHead, Inv, TypeOK, OutCount
  <2>3. LinkBounds'
    BY <1>1, <1>3, <1>4, <2>1, <2>2 DEF Inv, LinkBounds, ToShip, InFlight
  <2>4. CopiedUnread'
    BY <1>1, <1>3, <1>4, <2>1, <2>2 DEF Inv, CopiedUnread, HolderIsClient, Holder, Looping, LinkBounds, ToShip
  <2>. QED
    BY <1>2, <2>3, <2>4
<1>6. CASE TakeInput
  <2>1. OutCount' = OutCount /\ pc = "take" /\ pc' = "feed"
    BY <1>6 DEF TakeInput, outVars, OutCount
  <2>2. InCount' = InCount - 1
    BY <1>6, OccupancyTail DEF TakeInput, Inv, TypeOK, InCount
  <2>3. LinkBounds'
    BY <1>1, <1>3, <2>1, <2>2 DEF Inv, LinkBounds, ToShip, InFlight
  <2>4. CopiedUnread'
    BY <1>1, <2>1 DEF Inv, CopiedUnread
  <2>. QED
    BY <1>2, <2>3, <2>4
<1>. QED
  BY <1>5, <1>6

\* A frontend that holds nothing the bounds speak of, before and after.
FrontendOutside(f) ==
  \/ Connect(f) \/ MapSegment(f) \/ HelloFails(f) \/ LoopAgain(f) \/ WriteAnswer(f)
  \/ LeaveLoop(f) \/ Quit(f) \/ CloseSocket(f) \/ Crash(f)

LEMMA OutsideStep ==
  ASSUME Inv, NEW f \in Frontends, FrontendOutside(f) PROVE Inv'
<1>. USE LinkAssumption
<1>1. TypeOK'
  BY TypeStep DEF Inv, FrontendOutside, Step, FrontendStep, LoopStep
<1>2. /\ UNCHANGED <<out_head, out_tail, in_head, in_tail, g_client, g_running, shut, pc, backlog>>
      /\ consumer_alive' => consumer_alive
  BY DEF FrontendOutside, Connect, MapSegment, HelloFails, LoopAgain, WriteAnswer, LeaveLoop,
         Quit, CloseSocket, Crash, linkVars, shimVars, ringVars, outVars, inVars, Inv, TypeOK
<1>3. OutCount' = OutCount /\ InCount' = InCount
  BY <1>2 DEF OutCount, InCount
<1>4. \A g \in Frontends :
        /\ Holder(g)' => Holder(g)
        /\ fe'[g] \in {"owes", "answered"} => fe[g] \in {"owes", "answered"}
        /\ fe'[g] = "copied" => fe[g] = "copied"
  BY DEF FrontendOutside, Connect, MapSegment, HelloFails, LoopAgain, WriteAnswer, LeaveLoop,
         Quit, CloseSocket, Crash, FeGoto, Inv, TypeOK, FeStates, Holder, Looping
<1>5. Owed \in {0, 1} /\ (Owed' = 0 \/ Owed' = Owed)
  BY <1>4 DEF Owed
<1>6. OutCount \in Nat /\ InCount \in Nat /\ backlog \in Nat
  BY OccupancyType DEF Inv, TypeOK, OutCount, InCount
<1>7. \A g \in Frontends : Holder(g)' => consumer_alive'
  <2>1. CASE LeaveLoop(f)
    <3>1. Holder(f) /\ ~ Holder(f)'
      BY <2>1 DEF LeaveLoop, FeGoto, Inv, TypeOK, FeStates, Holder, Looping
    <3>2. \A g \in Frontends : Holder(g) => g = f
      BY <3>1, OneHolder DEF Inv, OneConsumer
    <3>. QED
      BY <1>4, <3>1, <3>2
  <2>2. CASE ~ LeaveLoop(f)
    <3>1. UNCHANGED consumer_alive
      BY <2>2 DEF FrontendOutside, Connect, MapSegment, HelloFails, LoopAgain, WriteAnswer,
                  Quit, CloseSocket, Crash, ringVars
    <3>. QED
      BY <1>4, <3>1 DEF Inv, HolderIsClient
  <2>. QED
    BY <2>1, <2>2
<1>8. HolderIsClient'
  BY <1>2, <1>4, <1>7 DEF Inv, HolderIsClient
<1>9. LinkBounds'
  BY <1>2, <1>3, <1>5, <1>6 DEF Inv, LinkBounds, ToShip, InFlight
<1>10. CopiedUnread'
  BY <1>3, <1>4 DEF Inv, CopiedUnread
<1>. QED
  BY <1>1, <1>8, <1>9, <1>10 DEF Inv

\* The reader's own steps: a block leaves one ring and its answer enters the
\* other, so that what is in flight stays the same.
LEMMA AnswerStep ==
  ASSUME Inv, NEW f \in Frontends, CopyBlock(f) \/ ReleaseBlock(f) \/ PublishAnswer(f)
  PROVE  Inv'
<1>. USE LinkAssumption, CapacityAssumption
<1>1. TypeOK'
  BY TypeStep DEF Inv, Step, FrontendStep, LoopStep
<1>2. UNCHANGED <<g_client, g_running, shut, pc, backlog, consumer_alive, out_head, in_tail>>
  BY DEF CopyBlock, ReleaseBlock, PublishAnswer, shimVars, inVars
<1>3. Holder(f) /\ \A g \in Frontends : Holder(g) => g = f
  BY OneHolder DEF CopyBlock, ReleaseBlock, PublishAnswer, Holder, Looping, Inv, OneConsumer
<1>4. \A g \in Frontends : g # f => fe'[g] = fe[g]
  BY DEF CopyBlock, ReleaseBlock, PublishAnswer, FeGoto, Inv, TypeOK
<1>5. \A g \in Frontends : Holder(g)' => g = f
  BY <1>3, <1>4 DEF Holder
<1>6. HolderIsClient'
  BY <1>2, <1>3, <1>5 DEF Inv, HolderIsClient
<1>7. OutCount \in Nat /\ InCount \in Nat /\ backlog \in Nat /\ consumer_alive
  BY <1>3, OccupancyType DEF Inv, TypeOK, OutCount, InCount, HolderIsClient
<1>8. WRAP \in Nat /\ CAP \in Nat /\ CAP < WRAP
  BY RingAssumption
<1>9. CASE CopyBlock(f)
  <2>1. UNCHANGED <<OutCount, InCount>> /\ OutCount > 0
    BY <1>9, OccupancyType, SMTT(30) DEF CopyBlock, inVars, OutCount, InCount, Inv, TypeOK
  <2>2. fe[f] = "wait" /\ fe'[f] = "copied"
    BY <1>9 DEF CopyBlock, FeGoto, Inv, TypeOK
  <2>3. UNCHANGED Owed
    BY <1>4, <2>2 DEF Owed
  <2>4. LinkBounds'
    BY <1>2, <2>1, <2>3 DEF Inv, LinkBounds, ToShip, InFlight
  <2>5. CopiedUnread'
    BY <2>1 DEF CopiedUnread
  <2>. QED
    BY <1>1, <1>6, <2>4, <2>5 DEF Inv
<1>10. CASE ReleaseBlock(f)
  <2>1. InCount' = InCount /\ fe[f] = "copied" /\ fe'[f] = "owes"
    BY <1>10 DEF ReleaseBlock, inVars, InCount, FeGoto, Inv, TypeOK
  <2>2. OutCount' = OutCount - 1
    <3>1. OutCount > 0
      BY <2>1 DEF Inv, CopiedUnread
    <3>2. out_head # out_tail
      BY <3>1, OccupancyType DEF Inv, TypeOK, OutCount
    <3>. QED
      BY <1>10, <3>2, OccupancyTail DEF ReleaseBlock, Inv, TypeOK, OutCount
  <2>3. Owed = 0 /\ Owed' = 1
    BY <1>3, <2>1 DEF Owed, Holder, Looping
  <2>4. LinkBounds'
    BY <1>2, <1>7, <2>1, <2>2, <2>3 DEF Inv, LinkBounds, ToShip, InFlight
  <2>5. CopiedUnread'
    BY <1>5, <2>1 DEF CopiedUnread, Holder, Looping
  <2>. QED
    BY <1>1, <1>6, <2>4, <2>5 DEF Inv
<1>11. CASE PublishAnswer(f)
  <2>1. OutCount' = OutCount /\ fe[f] = "answered" /\ fe'[f] = "top"
    BY <1>11 DEF PublishAnswer, OutCount, FeGoto, Inv, TypeOK
  <2>2. Owed = 1
    BY <2>1 DEF Owed
  <2>3. Owed' = 0
    BY <1>5, <2>1 DEF Owed, Holder, Looping
  <2>4. InCount < WRAP - 1
    BY <1>7, <1>8, <2>2 DEF Inv, LinkBounds, ToShip, InFlight
  <2>5. InCount' = InCount + 1
    BY <1>11, <2>4, OccupancyHead DEF PublishAnswer, Inv, TypeOK, InCount
  <2>6. LinkBounds'
    BY <1>2, <1>7, <2>1, <2>2, <2>3, <2>5 DEF Inv, LinkBounds, ToShip, InFlight
  <2>7. CopiedUnread'
    BY <1>5, <2>1 DEF CopiedUnread, Holder, Looping
  <2>. QED
    BY <1>1, <1>6, <2>6, <2>7 DEF Inv
<1>. QED
  BY <1>9, <1>10, <1>11

LEMMA InvStep == Inv /\ [Step]_linkVars => Inv'
<1>. SUFFICES ASSUME Inv, [Step]_linkVars PROVE Inv'
  OBVIOUS
<1>1. CASE UNCHANGED linkVars
  BY <1>1
  DEF Inv, TypeOK, HolderIsClient, LinkBounds, CopiedUnread, Holder, OutCount, InCount,
      ToShip, InFlight, Owed, linkVars, shimVars, ringVars, outVars, inVars, feVars
<1>2. CASE ShimStep \/ Shutdown \/ Terminate
  BY <1>2, InsideStep, AcceptStep, ShipStep DEF ShimStep, ShimInside
<1>3. ASSUME NEW f \in Frontends, FrontendStep(f) PROVE Inv'
  BY <1>3, OutsideStep, AnswerStep DEF FrontendStep, LoopStep, FrontendOutside
<1>. QED
  BY <1>1, <1>2, <1>3 DEF Step

\* The inductive invariant holds at all times.
THEOREM Invariance == Spec => []Inv
<1>1. [Next]_vars => [Step]_linkVars
  BY DEF Next, vars
<1>. QED
  BY <1>1, InvInit, InvStep, PTL DEF Spec

\* The rings have one reader and one writer at all times (ot-audio-shm.h:24):
\* a second frontend waits in the listen queue until the first is gone.
THEOREM SingleConsumer == Spec => []OneConsumer
<1>1. Inv => OneConsumer
  BY OneHolder DEF Inv
<1>. QED
  BY <1>1, Invariance, PTL

\* The segment is only ever in the hands of the connected frontend.
THEOREM ClientHolds == Spec => []HolderIsClient
<1>1. Inv => HolderIsClient
  BY DEF Inv
<1>. QED
  BY <1>1, Invariance, PTL

\* The bounds on what is in flight, whatever the two sides' speeds.
THEOREM Bounded == Spec => []LinkBounds
<1>1. Inv => LinkBounds
  BY DEF Inv
<1>. QED
  BY <1>1, Invariance, PTL

\* Neither side ever writes a slot its reader has not read, for any capacity
\* above MAX_AHEAD + OUT_BLOCKS (ot-dsp-shim.cc:629-645, audio.c:905-916).
THEOREM NeverOverrun == Spec => []NoOverrun
  BY RoomToWrite, Invariance, PTL

-----------------------------------------------------------------------------
(* The unread part of a ring, as a sequence *)

LEMMA DivMod ==
  ASSUME NEW a \in Int, NEW c \in Int, c > 0
  PROVE  a \div c \in Int /\ a = c * (a \div c) + (a % c)
BY SMT

\* No multiple of c lies strictly between 0 and c.
LEMMA NoMultiple ==
  ASSUME NEW c \in Int, c > 0, NEW q \in Int, 0 < c * q, c * q < c
  PROVE  FALSE
<1>1. q > 0
  BY SMT
<1>2. c * q >= c
  BY <1>1, SMT
<1> QED
  BY <1>2

LEMMA PlusType == \A i \in Index, n \in 0 .. WRAP - 1 : Plus(i, n) \in Index
  BY RingAssumption DEF Index, Plus

LEMMA PlusHead == \A h, t \in Index : Plus(t, Occupancy(h, t)) = h
  BY RingAssumption DEF Index, Plus, Occupancy

LEMMA PlusSucc ==
  \A i \in Index, n \in 0 .. WRAP - 2 : Plus(Succ(i), n) = Plus(i, n + 1)
  BY RingAssumption DEF Index, Plus, Succ

\* Fewer than CAP indices in a row have slots of their own, also where the
\* index wraps, since CAP divides WRAP.
LEMMA SlotsApart ==
  ASSUME NEW i \in Index, NEW m \in 0 .. WRAP - 1, NEW n \in 0 .. WRAP - 1,
         m < n, n - m < CAP
  PROVE  Slot(Plus(i, m)) # Slot(Plus(i, n))
<1> SUFFICES ASSUME Slot(Plus(i, m)) = Slot(Plus(i, n))
             PROVE  FALSE
  OBVIOUS
<1>1. CAP \in Int /\ CAP > 0 /\ WRAP \in Int /\ WRAP % CAP = 0
  BY RingAssumption
<1>2. Plus(i, m) \in Int /\ Plus(i, n) \in Int
  BY PlusType DEF Index
<1>3. PICK p \in Int : Plus(i, m) = CAP * p + Slot(Plus(i, m))
  BY <1>1, <1>2, DivMod DEF Slot
<1>4. PICK q \in Int : Plus(i, n) = CAP * q + Slot(Plus(i, n))
  BY <1>1, <1>2, DivMod DEF Slot
<1>5. PICK w \in Int : WRAP = CAP * w
  <2>1. WRAP \div CAP \in Int /\ WRAP = CAP * (WRAP \div CAP) + (WRAP % CAP)
    BY <1>1, DivMod
  <2>2. PICK w \in Int : w = WRAP \div CAP
    BY <2>1
  <2>3. WRAP = CAP * w + 0
    BY <1>1, <2>1, <2>2
  <2>4. CAP * w \in Int
    BY <1>1
  <2> QED
    BY <2>3, <2>4
<1>6. n - m = Plus(i, n) - Plus(i, m) \/ n - m = Plus(i, n) - Plus(i, m) + WRAP
  BY RingAssumption DEF Index, Plus
<1>7. Slot(Plus(i, n)) \in Int
  BY <1>2, PlusType, SlotType, RingAssumption
<1>8. n - m = CAP * q - CAP * p \/ n - m = CAP * q - CAP * p + CAP * w
  BY <1>1, <1>3, <1>4, <1>5, <1>6, <1>7
<1>9. CAP * q - CAP * p = CAP * (q - p) /\ CAP * q - CAP * p + CAP * w = CAP * (q - p + w)
  BY <1>1, SMT
<1>10. PICK r \in Int : n - m = CAP * r
  BY <1>8, <1>9
<1> QED
  BY <1>1, <1>10, NoMultiple

Slots == 0 .. CAP - 1

\* The unread part of a ring is a sequence as long as the ring is full.
LEMMA UnreadIs ==
  ASSUME NEW s \in [Slots -> Index], NEW h \in Index, NEW t \in Index
  PROVE  /\ Unread(s, h, t) \in Seq(Index) /\ Len(Unread(s, h, t)) = Occupancy(h, t)
         /\ \A k \in 1 .. Occupancy(h, t) : Unread(s, h, t)[k] = s[Slot(Plus(t, k - 1))]
<1>1. Occupancy(h, t) \in Nat /\ Occupancy(h, t) \in 0 .. WRAP - 1
  BY OccupancyType, RingAssumption
<1>2. \A k \in 1 .. Occupancy(h, t) : s[Slot(Plus(t, k - 1))] \in Index
  <2> TAKE k \in 1 .. Occupancy(h, t)
  <2>1. k - 1 \in 0 .. WRAP - 1
    BY <1>1, RingAssumption
  <2> QED
    BY <2>1, PlusType, SlotType DEF Slots
<1>3. Unread(s, h, t) \in [1 .. Occupancy(h, t) -> Index]
  BY <1>2 DEF Unread
<1>4. Unread(s, h, t) \in Seq(Index)
  BY <1>1, <1>3, SeqDef
<1>5. Len(Unread(s, h, t)) = Occupancy(h, t)
  BY <1>1, <1>3, <1>4, LenProperties
<1> QED
  BY <1>4, <1>5 DEF Unread

\* It is empty when the two indices meet.
LEMMA UnreadEmpty ==
  ASSUME NEW s \in [Slots -> Index], NEW h \in Index
  PROVE  Unread(s, h, h) = <<>>
BY UnreadIs, OccupancyType, EmptySeq

\* Publishing a block appends what its slot holds.
LEMMA UnreadPut ==
  ASSUME NEW s \in [Slots -> Index], NEW h \in Index, NEW t \in Index, Occupancy(h, t) < WRAP - 1
  PROVE  s[Slot(h)] \in Index /\ Unread(s, Succ(h), t) = Append(Unread(s, h, t), s[Slot(h)])
<1> DEFINE n == Occupancy(h, t)
           u == Unread(s, h, t)
           v == Unread(s, Succ(h), t)
<1>1. n \in Nat /\ Succ(h) \in Index /\ Occupancy(Succ(h), t) = n + 1
  BY OccupancyType, OccupancyHead, SuccType, RingAssumption
<1>2. s[Slot(h)] \in Index
  BY SlotType DEF Slots
<1>3. /\ u \in Seq(Index) /\ Len(u) = n /\ \A k \in 1 .. n : u[k] = s[Slot(Plus(t, k - 1))]
      /\ v \in Seq(Index) /\ Len(v) = n + 1 /\ \A k \in 1 .. n + 1 : v[k] = s[Slot(Plus(t, k - 1))]
  <2>1. u \in Seq(Index) /\ Len(u) = n /\ \A k \in 1 .. n : u[k] = s[Slot(Plus(t, k - 1))]
    BY UnreadIs
  <2>2. /\ v \in Seq(Index) /\ Len(v) = Occupancy(Succ(h), t)
        /\ \A k \in 1 .. Occupancy(Succ(h), t) : v[k] = s[Slot(Plus(t, k - 1))]
    BY <1>1, UnreadIs
  <2> QED
    BY ONLY <1>1, <2>1, <2>2
<1>4. /\ Append(u, s[Slot(h)]) \in Seq(Index) /\ Len(Append(u, s[Slot(h)])) = n + 1
      /\ \A k \in 1 .. n : Append(u, s[Slot(h)])[k] = u[k]
      /\ Append(u, s[Slot(h)])[n + 1] = s[Slot(h)]
  BY <1>2, <1>3, AppendProperties
<1>5. v[n + 1] = s[Slot(h)]
  <2>1. (n + 1) - 1 = n /\ n + 1 \in 1 .. n + 1
    BY <1>1
  <2> QED
    BY <1>3, <2>1, PlusHead
<1> HIDE DEF n, u, v
<1>6. \A k \in 1 .. n + 1 : v[k] = Append(u, s[Slot(h)])[k]
  <2> TAKE k \in 1 .. n + 1
  <2>1. CASE k \in 1 .. n
    BY <1>1, <1>3, <1>4, <2>1
  <2>2. CASE k = n + 1
    BY <1>4, <1>5, <2>2
  <2>3. k \in 1 .. n \/ k = n + 1
    BY <1>1
  <2> QED
    BY <2>1, <2>2, <2>3
<1>7. v = Append(u, s[Slot(h)])
  BY <1>3, <1>4, <1>6, SeqEqual
<1> QED
  BY <1>2, <1>7 DEF u, v

\* Releasing a block takes the head off.
LEMMA UnreadTake ==
  ASSUME NEW s \in [Slots -> Index], NEW h \in Index, NEW t \in Index, h # t
  PROVE  /\ Unread(s, h, t) # <<>>
         /\ Head(Unread(s, h, t)) = s[Slot(t)]
         /\ Tail(Unread(s, h, t)) = Unread(s, h, Succ(t))
<1> DEFINE n == Occupancy(h, t)
           u == Unread(s, h, t)
           v == Unread(s, h, Succ(t))
<1>1. n \in Nat /\ n > 0 /\ n < WRAP /\ Succ(t) \in Index /\ Occupancy(h, Succ(t)) = n - 1
  BY OccupancyType, OccupancyTail, SuccType, RingAssumption
<1>2. /\ u \in Seq(Index) /\ Len(u) = n /\ \A k \in 1 .. n : u[k] = s[Slot(Plus(t, k - 1))]
      /\ v \in Seq(Index) /\ Len(v) = n - 1
      /\ \A k \in 1 .. n - 1 : v[k] = s[Slot(Plus(Succ(t), k - 1))]
  <2>1. u \in Seq(Index) /\ Len(u) = n /\ \A k \in 1 .. n : u[k] = s[Slot(Plus(t, k - 1))]
    BY UnreadIs
  <2>2. /\ v \in Seq(Index) /\ Len(v) = Occupancy(h, Succ(t))
        /\ \A k \in 1 .. Occupancy(h, Succ(t)) : v[k] = s[Slot(Plus(Succ(t), k - 1))]
    BY <1>1, UnreadIs
  <2> QED
    BY ONLY <1>1, <2>1, <2>2
<1>3. u # <<>>
  BY <1>1, <1>2, EmptySeq
<1>4. /\ Tail(u) \in Seq(Index) /\ Len(Tail(u)) = n - 1
      /\ \A k \in 1 .. n - 1 : Tail(u)[k] = u[k + 1]
  BY <1>2, <1>3, HeadTailProperties
<1>5. Head(u) = s[Slot(t)]
  <2>1. Head(u) = u[1]
    BY <1>2, <1>3
  <2>2. u[1] = s[Slot(Plus(t, 0))]
    BY <1>1, <1>2
  <2>3. Plus(t, 0) = t
    BY RingAssumption DEF Plus, Index
  <2> QED
    BY <2>1, <2>2, <2>3
<1>6. \A k \in 1 .. n - 1 : Tail(u)[k] = v[k]
  <2> TAKE k \in 1 .. n - 1
  <2>1. k - 1 \in 0 .. WRAP - 2 /\ (k - 1) + 1 = k /\ k + 1 \in 1 .. n /\ (k + 1) - 1 = k
    BY <1>1, RingAssumption
  <2>2. Plus(Succ(t), k - 1) = Plus(t, k)
    BY <2>1, PlusSucc
  <2>3. v[k] = s[Slot(Plus(t, k))]
    BY <1>2, <2>2
  <2>4. u[k + 1] = s[Slot(Plus(t, k))]
    BY <1>2, <2>1
  <2> QED
    BY <1>4, <2>3, <2>4
<1> HIDE DEF n, u, v
<1>7. Tail(u) = v
  BY <1>2, <1>4, <1>6, SeqEqual
<1> QED
  BY <1>3, <1>5, <1>7 DEF u, v

\* Writing the slot of the head leaves what is unread alone, while a slot is free.
LEMMA UnreadWrite ==
  ASSUME NEW s \in [Slots -> Index], NEW h \in Index, NEW t \in Index, NEW b \in Index,
         Occupancy(h, t) < CAP
  PROVE  Unread([s EXCEPT ![Slot(h)] = b], h, t) = Unread(s, h, t)
<1> DEFINE n == Occupancy(h, t)
           w == [s EXCEPT ![Slot(h)] = b]
<1>1. n \in Nat /\ n < CAP /\ n \in 0 .. WRAP - 1
  BY OccupancyType, RingAssumption
<1>2. w \in [Slots -> Index]
  BY SlotType DEF Slots
<1>3. \A k \in 1 .. n : w[Slot(Plus(t, k - 1))] = s[Slot(Plus(t, k - 1))]
  <2> TAKE k \in 1 .. n
  <2>2. n - (k - 1) <= n /\ k - 1 \in 0 .. WRAP - 1 /\ k - 1 < n
    BY <1>1, RingAssumption
  <2>3. Slot(Plus(t, k - 1)) # Slot(Plus(t, n))
    BY <1>1, <2>2, SlotsApart, RingAssumption
  <2>4. Slot(Plus(t, k - 1)) \in Slots
    BY <2>2, PlusType, SlotType DEF Slots
  <2> QED
    BY <2>3, <2>4, PlusHead
<1> HIDE DEF w
<1>4. /\ Unread(w, h, t) \in Seq(Index) /\ Len(Unread(w, h, t)) = n
      /\ \A k \in 1 .. n : Unread(w, h, t)[k] = w[Slot(Plus(t, k - 1))]
      /\ Unread(s, h, t) \in Seq(Index) /\ Len(Unread(s, h, t)) = n
      /\ \A k \in 1 .. n : Unread(s, h, t)[k] = s[Slot(Plus(t, k - 1))]
  BY <1>2, UnreadIs
<1> HIDE DEF n
<1>5. \A k \in 1 .. n : Unread(w, h, t)[k] = Unread(s, h, t)[k]
  BY <1>3, <1>4
<1>6. Unread(w, h, t) = Unread(s, h, t)
  BY <1>4, <1>5, SeqEqual
<1> QED
  BY <1>6 DEF w

-----------------------------------------------------------------------------
(* The link is two FIFOs *)

\* A reader has a block in hand only while it works on it.
HandsFree ==
  /\ (\A f \in Frontends : fe[f] \notin {"copied", "owes", "answered"}) => heard = None
  /\ pc \notin {"feed", "exited"} => fed = None

\* Only a copy puts a block in the frontend's hand, and only an answer taken one
\* in the shim's.
LEMMA HandsFreeStep == Inv /\ HandsFree /\ [Step]_linkVars => HandsFree'
<1> SUFFICES ASSUME Inv, TypeOK, HandsFree, [Step]_linkVars
             PROVE  HandsFree'
  BY DEF Inv
<1> USE DEF HandsFree
<1>1. CASE ShimStep \/ Shutdown \/ Terminate
  <2>1. ASSUME \A f \in Frontends : fe'[f] \notin {"copied", "owes", "answered"}, NEW f \in Frontends
        PROVE  fe[f] \notin {"copied", "owes", "answered"}
    <3>2. CASE CloseAccept
      <4>1. ~ Holder(f)
        BY <2>1, <3>2, LinkAssumption DEF Inv, HolderIsClient, CloseAccept
      <4> QED
        BY <4>1 DEF Holder, Looping
    <3>3. CASE ~ CloseAccept
      <4>1. UNCHANGED fe
        BY <1>1, <3>3 DEF ShimStep, Render, CloseExit, CloseShip, PopBlock,
                  BackstopEof, BackstopPass, WriteSlot, PublishHead, TakeInput, Starved, FeedDsp, Shipped,
                  Shutdown, Terminate, feVars
      <4> QED
        BY <2>1, <4>1
    <3> QED
      BY <3>2, <3>3
  <2>2. UNCHANGED heard
    BY <1>1 DEF ShimStep, Render, CloseExit, CloseAccept, CloseShip, PopBlock,
                BackstopEof, BackstopPass, WriteSlot, PublishHead, TakeInput, Starved, FeedDsp, Shipped,
                Shutdown, Terminate, ringVars, outVars
  <2>3. pc' \notin {"feed", "exited"} => fed' = None
    BY <1>1 DEF ShimStep, Render, CloseExit, CloseAccept, CloseShip, PopBlock,
                BackstopEof, BackstopPass, WriteSlot, PublishHead, TakeInput, Starved, FeedDsp, Shipped,
                Shutdown, Terminate, ringVars, inVars
  <2> QED
    BY <2>1, <2>2, <2>3
<1>2. ASSUME NEW f \in Frontends, FrontendStep(f) PROVE HandsFree'
  <2>1. UNCHANGED <<pc, fed>>
    BY <1>2 DEF FrontendStep, LoopStep, Connect, MapSegment, HelloFails, LoopAgain, CopyBlock, ReleaseBlock,
                WriteAnswer, PublishAnswer, LeaveLoop, Quit, CloseSocket, Crash, shimVars, ringVars, inVars
  <2>2. CASE heard' = None
    BY <2>1, <2>2
  <2>3. CASE fe'[f] \in {"copied", "owes", "answered"}
    BY <2>1, <2>3
  <2>4. CASE /\ fe[f] \notin {"copied", "owes", "answered"}
             /\ UNCHANGED heard
             /\ \A g \in Frontends : g # f => fe'[g] = fe[g]
    BY <2>1, <2>4
  <2>5. \A g \in Frontends : g # f => fe'[g] = fe[g]
    BY <1>2 DEF FrontendStep, LoopStep, Connect, MapSegment, HelloFails, LoopAgain, CopyBlock, ReleaseBlock,
                WriteAnswer, PublishAnswer, LeaveLoop, Quit, CloseSocket, Crash, FeGoto, TypeOK
  <2>6. CASE Connect(f) \/ MapSegment(f) \/ HelloFails(f) \/ LoopAgain(f) \/ LeaveLoop(f) \/ CloseSocket(f)
    BY <2>4, <2>5, <2>6 DEF Connect, MapSegment, HelloFails, LoopAgain, LeaveLoop, CloseSocket, ringVars, outVars
  <2>7. CASE Quit(f)
    BY <2>1, <2>7 DEF Quit, ringVars, outVars
  <2>8. CASE CopyBlock(f) \/ ReleaseBlock(f) \/ WriteAnswer(f)
    BY <2>3, <2>8 DEF CopyBlock, ReleaseBlock, WriteAnswer, FeGoto, TypeOK
  <2>9. CASE PublishAnswer(f)
    BY <2>2, <2>9 DEF PublishAnswer
  <2>10. CASE Crash(f)
    BY <2>2, <2>4, <2>5, <2>10 DEF Crash, Looping
  <2> QED
    BY <1>2, <2>6, <2>7, <2>8, <2>9, <2>10 DEF FrontendStep, LoopStep
<1>3. CASE UNCHANGED linkVars
  BY <1>3 DEF linkVars, shimVars, ringVars, outVars, inVars, feVars
<1> QED
  BY <1>1, <1>2, <1>3 DEF Step

FifoInv == Inv /\ HandsFree

\* A frontend has the segment; it is in the middle of a copy.
Reading == \E f \in Frontends : Holder(f)
Copied == \E f \in Frontends : fe[f] = "copied"

\* The three cases of the abstract queue, before a step and after it.
LEMMA OutQueueIs ==
  /\ OutQueue = IF ~ Reading THEN <<>>
                ELSE IF Copied THEN Tail(Unread(out, out_head, out_tail))
                ELSE Unread(out, out_head, out_tail)
  /\ OutQueue' = IF ~ Reading' THEN <<>>
                 ELSE IF Copied' THEN Tail(Unread(out', out_head', out_tail'))
                 ELSE Unread(out', out_head', out_tail')
BY DEF OutQueue, Reading, Copied

\* Room for the block that the reader will find: with it the ring is not over-full.
LEMMA RoomToPublish ==
  ASSUME Inv, Reading, pc \in {"write", "publish"}
  PROVE  OutCount \in Nat /\ OutCount < CAP /\ OutCount < WRAP - 1
<1> USE LinkAssumption, CapacityAssumption, RingAssumption
<1>1. OutCount \in Nat /\ backlog \in Nat
  BY OccupancyType DEF Inv, TypeOK, OutCount
<1>2. consumer_alive
  BY DEF Inv, HolderIsClient, Reading
<1>3. OutCount < CAP
  BY <1>1, <1>2 DEF Inv, LinkBounds, ToShip
<1> QED
  BY <1>1, <1>3

\* The part of TypeOK that the lemmas about Unread ask for.
LEMMA RingsTyped ==
  TypeOK => /\ out_head \in Index /\ out_tail \in Index /\ in_head \in Index /\ in_tail \in Index
            /\ out \in [Slots -> Index] /\ in \in [Slots -> Index]
BY DEF TypeOK, Slots

\* A step of the shim is a step, or a stutter, of the output FIFO.
LEMMA ShimOut ==
  FifoInv /\ (ShimStep \/ Shutdown \/ Terminate \/ UNCHANGED linkVars) => [OutLink!Next]_<<OutQueue, heard>>
<1> SUFFICES ASSUME FifoInv, ShimStep \/ Shutdown \/ Terminate \/ UNCHANGED linkVars
             PROVE  [OutLink!Next]_<<OutQueue, heard>>
  OBVIOUS
<1> USE RingsTyped DEF FifoInv, Inv
<1>1. CASE UNCHANGED <<fe, out, out_head, out_tail, heard>>
  BY <1>1 DEF OutQueue, Holder
<1>2. CASE WriteSlot
  <2>1. UNCHANGED <<fe, out_head, out_tail, heard>> /\ pc = "write" /\ out' = [out EXCEPT ![Slot(out_head)] = out_head]
    BY <1>2 DEF WriteSlot, feVars
  <2>2. (Reading' <=> Reading) /\ (Copied' <=> Copied)
    BY <2>1 DEF Reading, Copied, Holder
  <2>3. CASE ~ Reading
    BY <2>1, <2>2, <2>3, OutQueueIs
  <2>4. CASE Reading
    <3>1. Occupancy(out_head, out_tail) < CAP
      BY <2>1, <2>4, RoomToPublish DEF OutCount
    <3>2. Unread(out', out_head', out_tail') = Unread(out, out_head, out_tail)
      <4>1. Unread([out EXCEPT ![Slot(out_head)] = out_head], out_head, out_tail)
              = Unread(out, out_head, out_tail)
        <5> HIDE DEF FifoInv, Inv
        <5>1. out_head \in Index /\ out_tail \in Index /\ out \in [Slots -> Index]
          BY DEF FifoInv, Inv
        <5> QED
          BY ONLY <3>1, <5>1, UnreadWrite
      <4> QED
        BY ONLY <2>1, <4>1
    <3> QED
      BY <2>1, <2>2, <2>4, <3>2, OutQueueIs
  <2> QED
    BY <2>3, <2>4
<1>3. CASE PublishHead
  <2> DEFINE u == Unread(out, out_head, out_tail)
             v == Unread(out', out_head', out_tail')
             b == out[Slot(out_head)]
  <2>1. UNCHANGED <<fe, out, out_tail, heard>> /\ pc = "publish" /\ out_head' = Succ(out_head)
    BY <1>3 DEF PublishHead, feVars
  <2>2. (Reading' <=> Reading) /\ (Copied' <=> Copied)
    BY <2>1 DEF Reading, Copied, Holder
  <2>3. CASE ~ Reading
    BY <2>1, <2>2, <2>3, OutQueueIs
  <2>4. CASE Reading
    <3>1. Occupancy(out_head, out_tail) < CAP /\ Occupancy(out_head, out_tail) < WRAP - 1
      BY <2>1, <2>4, RoomToPublish DEF OutCount
    <3>2. b \in Index /\ v = Append(u, b)
      BY <2>1, <3>1, UnreadPut
    <3>3. u \in Seq(Index) /\ Len(u) = Occupancy(out_head, out_tail)
      BY UnreadIs
    <3>4. OutLink!Put(b)
      <4>1. CASE Copied
        <5>1. u # <<>>
          BY <3>3, <4>1, EmptySeq DEF CopiedUnread, Copied, OutCount
        <5>2. Len(Tail(u)) < CAP /\ Tail(v) = Append(Tail(u), b)
          BY <3>1, <3>2, <3>3, <5>1, HeadTailProperties, HeadTailAppend, RingAssumption, LenProperties
        <5> QED
          BY <2>1, <2>2, <2>4, <4>1, <5>2, OutQueueIs DEF OutLink!Put
      <4>2. CASE ~ Copied
        BY <2>1, <2>2, <2>4, <3>1, <3>2, <3>3, <4>2, OutQueueIs DEF OutLink!Put
      <4> QED
        BY <4>1, <4>2
    <3> QED
      BY <3>2, <3>4 DEF OutLink!Next
  <2> QED
    BY <2>3, <2>4
<1>4. CASE CloseAccept /\ Publish(Head(listenq))
  <2>1. g_running /\ g_client = None
    BY <1>4 DEF CloseAccept
  <2>2. ~ Reading
    BY <2>1, LinkAssumption DEF HolderIsClient, Reading
  <2>3. Unread(out', out_head', out_tail') = <<>> /\ heard' = heard
    BY <1>4, UnreadEmpty DEF CloseAccept, Publish
  <2>4. ~ Copied'
    BY <1>4, <2>2 DEF Publish, Copied, Reading, Holder, Looping, TypeOK
  <2>5. OutQueue = <<>> /\ OutQueue' = <<>>
    BY <2>2, <2>3, <2>4, OutQueueIs
  <2> QED
    BY <2>3, <2>5
<1>5. CASE ~ (WriteSlot \/ PublishHead \/ (CloseAccept /\ Publish(Head(listenq))))
  <2>1. UNCHANGED <<fe, out, out_head, out_tail, heard>>
    BY <1>5 DEF ShimStep, Render, CloseExit, CloseAccept, PublishFails, CloseShip, PopBlock,
                BackstopEof, BackstopPass, TakeInput, Starved, FeedDsp, Shipped,
                Shutdown, Terminate, linkVars, ringVars, outVars, feVars
  <2> QED
    BY <1>1, <2>1
<1> QED
  BY <1>2, <1>3, <1>4, <1>5

\* A step of a frontend is a step, or a stutter, of the output FIFO.
LEMMA FrontendOut ==
  ASSUME FifoInv, NEW f \in Frontends, FrontendStep(f)
  PROVE  [OutLink!Next]_<<OutQueue, heard>>
<1> USE RingsTyped DEF FifoInv, Inv
<1> DEFINE u == Unread(out, out_head, out_tail)
           v == Unread(out', out_head', out_tail')
<1>1. \A g \in Frontends : g # f => fe'[g] = fe[g]
  BY DEF FrontendStep, LoopStep, Connect, MapSegment, HelloFails, LoopAgain, CopyBlock, ReleaseBlock,
         WriteAnswer, PublishAnswer, LeaveLoop, Quit, CloseSocket, Crash, FeGoto, TypeOK
<1>2. Holder(f) => \A g \in Frontends : Holder(g) => g = f
  BY OneHolder DEF OneConsumer
<1>3. ASSUME UNCHANGED <<out, out_head, out_tail>>, Holder(f)' <=> Holder(f), (fe'[f] = "copied") <=> (fe[f] = "copied")
      PROVE  UNCHANGED OutQueue
  <2>1. (Reading' <=> Reading) /\ (Copied' <=> Copied)
    BY <1>1, <1>3 DEF Reading, Copied, Holder
  <2> QED
    BY <1>3, <2>1, OutQueueIs
<1>4. ASSUME Holder(f), ~ Holder(f)' PROVE OutQueue' = <<>>
  <2>1. ~ Reading'
    BY <1>1, <1>2, <1>4 DEF Reading, Holder
  <2> QED
    BY <2>1, OutQueueIs
<1>5. CASE Connect(f) \/ HelloFails(f) \/ LoopAgain(f) \/ WriteAnswer(f) \/ Quit(f) \/ CloseSocket(f)
  <2>1. UNCHANGED <<out, out_head, out_tail, heard>>
    BY <1>5 DEF Connect, HelloFails, LoopAgain, WriteAnswer, Quit, CloseSocket, ringVars, outVars
  <2>2. (Holder(f)' <=> Holder(f)) /\ ((fe'[f] = "copied") <=> (fe[f] = "copied"))
    BY <1>5 DEF Connect, HelloFails, LoopAgain, WriteAnswer, Quit, CloseSocket, FeGoto, Holder, Looping, TypeOK
  <2> QED
    BY <1>3, <2>1, <2>2
<1>6. CASE MapSegment(f) \/ LeaveLoop(f) \/ Crash(f)
  <2>1. UNCHANGED <<out, out_head, out_tail>> /\ heard' \in {heard, None}
    BY <1>6 DEF MapSegment, LeaveLoop, Crash, ringVars, outVars
  <2>2. CASE Holder(f) /\ ~ Holder(f)'
    BY <1>4, <2>1, <2>2 DEF OutLink!Next, OutLink!Abandon
  <2>3. CASE ~ (Holder(f) /\ ~ Holder(f)')
    <3>1. UNCHANGED heard /\ (Holder(f)' <=> Holder(f)) /\ fe[f] # "copied" /\ fe'[f] # "copied"
      BY <1>6, <2>3 DEF MapSegment, LeaveLoop, Crash, ringVars, outVars, FeGoto, Holder, Looping, TypeOK
    <3> QED
      BY <1>3, <2>1, <3>1
  <2> QED
    BY <2>2, <2>3
<1>7. CASE CopyBlock(f)
  <2>1. /\ fe[f] = "wait" /\ fe'[f] = "copied" /\ out_head # out_tail
        /\ UNCHANGED <<out, out_head, out_tail>> /\ heard' = out[Slot(out_tail)]
    BY <1>7 DEF CopyBlock, FeGoto, TypeOK
  <2>2. Reading /\ ~ Copied /\ Reading' /\ Copied'
    BY <1>2, <2>1 DEF Reading, Copied, Holder, Looping
  <2>3. heard = None
    BY <1>2, <2>1 DEF HandsFree, Holder, Looping
  <2>4. u # <<>> /\ heard' = Head(u)
    BY <2>1, UnreadTake
  <2>5. OutQueue = u /\ OutQueue' = Tail(u)
    BY <2>1, <2>2, OutQueueIs
  <2>6. OutLink!Take
    BY <2>3, <2>4, <2>5 DEF OutLink!Take
  <2> QED
    BY <2>6 DEF OutLink!Next
<1>8. CASE ReleaseBlock(f)
  <2>1. /\ fe[f] = "copied" /\ fe'[f] = "owes" /\ out_tail' = Succ(out_tail)
        /\ UNCHANGED <<out, out_head, heard>>
    BY <1>8 DEF ReleaseBlock, FeGoto, TypeOK
  <2>2. Reading /\ Copied /\ Reading' /\ ~ Copied'
    BY <1>1, <1>2, <2>1 DEF Reading, Copied, Holder, Looping
  <2>3. out_head # out_tail
    BY <2>1, OccupancyType DEF CopiedUnread, OutCount
  <2>4. v = Tail(u)
    BY <2>1, <2>3, UnreadTake
  <2> QED
    BY <2>1, <2>2, <2>4, OutQueueIs
<1>9. CASE PublishAnswer(f)
  <2>1. /\ fe[f] = "answered" /\ fe'[f] = "top" /\ UNCHANGED <<out, out_head, out_tail>> /\ heard' = None
    BY <1>9 DEF PublishAnswer, FeGoto, TypeOK
  <2>2. UNCHANGED OutQueue
    BY <1>3, <2>1 DEF Holder, Looping
  <2> QED
    BY <2>1, <2>2 DEF OutLink!Next, OutLink!Finish
<1> QED
  BY <1>5, <1>6, <1>7, <1>8, <1>9 DEF FrontendStep, LoopStep

\* The answers the shim has still to take.
InQueue == Unread(in, in_head, in_tail)

\* A step of the shim is a step, or a stutter, of the input FIFO.
LEMMA ShimIn ==
  ASSUME FifoInv, ShimStep \/ Shutdown \/ Terminate \/ UNCHANGED linkVars
  PROVE  [InLink!Next]_<<InQueue, fed>>
<1> USE RingsTyped DEF FifoInv, Inv
<1>1. CASE TakeInput
  <2>1. /\ pc = "take" /\ in_head # in_tail /\ UNCHANGED <<in, in_head>>
        /\ fed' = in[Slot(in_tail)] /\ in_tail' = Succ(in_tail)
    BY <1>1 DEF TakeInput
  <2>2. InQueue' = Unread(in, in_head, Succ(in_tail))
    BY <2>1 DEF InQueue
  <2>3. InQueue # <<>> /\ fed' = Head(InQueue) /\ InQueue' = Tail(InQueue)
    BY <2>1, <2>2, UnreadTake DEF InQueue
  <2>4. fed = None
    BY <2>1 DEF HandsFree
  <2>5. InLink!Take
    BY <2>3, <2>4 DEF InLink!Take, InQueue
  <2> QED
    BY <2>5 DEF InLink!Next, InQueue
<1>2. CASE FeedDsp
  BY <1>2 DEF FeedDsp, InLink!Next, InLink!Finish, InQueue
<1>3. CASE CloseAccept /\ Publish(Head(listenq))
  <2>1. UNCHANGED <<in, in_head, fed>> /\ in_tail' = in_head
    BY <1>3 DEF CloseAccept, Publish
  <2>2. InQueue' = <<>>
    BY <2>1, UnreadEmpty DEF InQueue
  <2> QED
    BY <2>1, <2>2 DEF InLink!Next, InLink!Abandon, InQueue
<1>4. CASE ~ (TakeInput \/ FeedDsp \/ (CloseAccept /\ Publish(Head(listenq))))
  <2>1. UNCHANGED <<in, in_head, in_tail, fed>>
    BY <1>4 DEF ShimStep, Render, CloseExit, CloseAccept, PublishFails, CloseShip, PopBlock,
                BackstopEof, BackstopPass, WriteSlot, PublishHead, Starved, Shipped,
                Shutdown, Terminate, linkVars, ringVars, inVars
  <2> QED
    BY <2>1 DEF InQueue
<1> QED
  BY <1>1, <1>2, <1>3, <1>4

\* Room for the answer: the ring it goes to never holds more than what is in flight.
LEMMA RoomToAnswer ==
  ASSUME Inv, NEW f \in Frontends, fe[f] \in {"owes", "answered"}
  PROVE  InCount \in Nat /\ InCount < CAP /\ InCount < WRAP - 1
<1> USE LinkAssumption, CapacityAssumption, RingAssumption
<1>1. OutCount \in Nat /\ InCount \in Nat /\ backlog \in Nat
  BY OccupancyType DEF Inv, TypeOK, OutCount, InCount
<1>2. consumer_alive /\ Owed = 1
  BY DEF Inv, HolderIsClient, Holder, Looping, Owed
<1>3. InCount < CAP
  BY <1>1, <1>2 DEF Inv, LinkBounds, ToShip, InFlight
<1> QED
  BY <1>1, <1>3

\* A step of a frontend is a step, or a stutter, of the input FIFO.
LEMMA FrontendIn ==
  ASSUME FifoInv, NEW f \in Frontends, FrontendStep(f)
  PROVE  [InLink!Next]_<<InQueue, fed>>
<1> USE RingsTyped DEF FifoInv, Inv
<1>1. CASE WriteAnswer(f)
  <2>1. fe[f] = "owes" /\ in' = [in EXCEPT ![Slot(in_head)] = in_head] /\ UNCHANGED <<in_head, in_tail, fed>>
    BY <1>1 DEF WriteAnswer
  <2>2. Occupancy(in_head, in_tail) < CAP
    BY <2>1, RoomToAnswer DEF InCount
  <2>3. Unread([in EXCEPT ![Slot(in_head)] = in_head], in_head, in_tail) = Unread(in, in_head, in_tail)
    <3>1. in_head \in Index /\ in_tail \in Index /\ in \in [Slots -> Index]
      OBVIOUS
    <3> QED
      BY ONLY <2>2, <3>1, UnreadWrite
  <2>4. UNCHANGED InQueue
    BY ONLY <2>1, <2>3 DEF InQueue
  <2> QED
    BY <2>1, <2>4
<1>2. CASE PublishAnswer(f)
  <2> DEFINE b == in[Slot(in_head)]
  <2>1. fe[f] = "answered" /\ in_head' = Succ(in_head) /\ UNCHANGED <<in, in_tail, fed>>
    BY <1>2 DEF PublishAnswer
  <2>2. Occupancy(in_head, in_tail) < CAP /\ Occupancy(in_head, in_tail) < WRAP - 1
    BY <2>1, RoomToAnswer DEF InCount
  <2>3. InQueue' = Unread(in, Succ(in_head), in_tail)
    BY <2>1 DEF InQueue
  <2>4. b \in Index /\ InQueue' = Append(InQueue, b)
    BY <2>2, <2>3, UnreadPut DEF InQueue
  <2>5. Len(InQueue) < CAP
    BY <2>2, UnreadIs DEF InQueue
  <2>6. InLink!Put(b)
    BY <2>1, <2>4, <2>5 DEF InLink!Put, InQueue
  <2> QED
    BY <2>4, <2>6 DEF InLink!Next, InQueue
<1>3. CASE ~ (WriteAnswer(f) \/ PublishAnswer(f))
  <2>1. UNCHANGED <<in, in_head, in_tail, fed>>
    BY <1>3 DEF FrontendStep, LoopStep, Connect, MapSegment, HelloFails, LoopAgain, CopyBlock, ReleaseBlock,
                LeaveLoop, Quit, CloseSocket, Crash, ringVars, inVars
  <2> QED
    BY <2>1 DEF InQueue
<1> QED
  BY <1>1, <1>2, <1>3

\* Both rings are FIFOs of blocks from the moment a frontend is let in until it
\* parts, whatever order the loads and stores of the two processes come in,
\* whoever crashes and whatever the sizes: no block is lost, repeated, torn or
\* reordered between them (ot-dsp-shim.cc:616-656, audio.c:874-968).
THEOREM LinkIsTwoFifos == Spec => Fifos
<1>1. Init => OutLink!Init /\ InLink!Init /\ HandsFree
  <2>1. ASSUME Init PROVE OutLink!Init /\ InLink!Init /\ HandsFree
    <3>1. TypeOK
      BY <2>1, TypeInit
    <3>2. ~ Reading
      BY <2>1 DEF Init, Reading, Holder, Looping
    <3>3. OutQueue = <<>> /\ Unread(in, in_head, in_tail) = <<>>
      BY <2>1, <3>1, <3>2, RingsTyped, OutQueueIs, UnreadEmpty DEF Init
    <3> QED
      BY <2>1, <3>3 DEF Init, OutLink!Init, InLink!Init, HandsFree
  <2> QED
    BY <2>1
<1>2. FifoInv /\ [Next]_vars => FifoInv'
  BY InvStep, HandsFreeStep DEF FifoInv, Next, vars
<1>3. FifoInv /\ [Next]_vars => [OutLink!Next]_<<OutQueue, heard>>
  BY ShimOut, FrontendOut DEF Next, Step, vars
<1>4. FifoInv /\ [Next]_vars => [InLink!Next]_<<Unread(in, in_head, in_tail), fed>>
  BY ShimIn, FrontendIn DEF Next, Step, vars, InQueue
<1>5. Init => FifoInv
  BY <1>1, InvInit DEF FifoInv
<1> QED
  BY <1>1, <1>2, <1>3, <1>4, <1>5, PTL DEF Spec, Fifos, OutIsFifo, InIsFifo, OutLink!Spec, InLink!Spec
=============================================================================
