-------------------------- MODULE DspDeliveryProofs --------------------------
(***************************************************************************)
(* Proofs about the delivery to the DSP, for a hold of any length: a tick  *)
(* never tears a delivery that counts, and the frame line is never up      *)
(* without a word to take.  And about the host port, for any destinations, *)
(* length of a transfer and depth of the FIFO: every word goes where its   *)
(* transfer says, and the port is one that delivers as DspDelivery says.   *)
(***************************************************************************)
EXTENDS HostPort, SequenceTheorems, TLAPS

\* What makes the hold hold: while a counted delivery goes on, something is
\* outstanding, or the hatch has fired.
DeliveryInv ==
  /\ outstanding \in Nat
  /\ guest # "idle" /\ counted => outstanding > 0 \/ hatched

LEMMA DeliveryInitial == Init => DeliveryInv
BY DEF Init, DeliveryInv

LEMMA DeliveryStep ==
  ASSUME DeliveryInv, [Next]_vars
  PROVE  DeliveryInv'
<1> USE DEF DeliveryInv
<1>1. CASE Interleave
  <2>1. UNCHANGED <<guest, counted>>
    BY <1>1 DEF Interleave, guestVars
  <2>2. CASE Hatch
    BY <2>1, <2>2 DEF Hatch
  <2>3. CASE HeldByLatch \/ HeldByDelivery \/ RunFree
    <3>1. UNCHANGED <<outstanding, hatched>>
      BY <2>3 DEF HeldByLatch, HeldByDelivery, RunFree
    <3> QED
      BY <2>1, <3>1
  <2> QED
    BY <1>1, <2>2, <2>3 DEF Interleave, StepRound
<1>2. CASE Pop
  <2>1. /\ counted' = sumSeen
        /\ outstanding' = IF sumSeen /\ outstanding < OUT_MAX THEN outstanding + 1 ELSE outstanding
    BY <1>2 DEF Pop
  <2>2. outstanding' \in Nat
    BY <2>1
  <2>3. ASSUME counted' PROVE outstanding' > 0
    BY <2>1, <2>3, DeliveryAssumption
  <2> QED
    BY <2>2, <2>3
<1>3. CASE Handle \/ Drain \/ Handled \/ Readback
  <2>1. /\ UNCHANGED <<outstanding, counted, hatched>>
        /\ guest # "idle"
    BY <1>3 DEF Handle, Drain, Handled, Readback, holdVars, guestVars
  <2> QED
    BY <2>1
<1>4. CASE Finish
  <2>1. guest' = "idle" /\ (outstanding' = 0 \/ outstanding' = outstanding)
    BY <1>4 DEF Finish, Sum, NoSum, holdVars
  <2> QED
    BY <2>1
<1>5. CASE EnableRreq \/ WallClock \/ UNCHANGED vars
  <2>1. UNCHANGED <<outstanding, counted, hatched, guest>>
    BY <1>5 DEF EnableRreq, WallClock, vars, holdVars, guestVars
  <2> QED
    BY <2>1
<1> QED
  BY <1>1, <1>2, <1>3, <1>4, <1>5 DEF Next, Guest

\* A tick that lets the codec cross has found nothing outstanding, unless it
\* is the one that fires the hatch.
LEMMA TornStep ==
  ASSUME DeliveryInv, [Next]_vars,
         Crosses, guest = "transfer", counted, audioLive, HOLD_ON
  PROVE  hatched'
<1>1. CASE Interleave
  <2>1. CASE Hatch
    BY <2>1 DEF Hatch
  <2>2. CASE RunFree
    <3>1. ~ (Outstanding /\ AtBlockPoll) /\ UNCHANGED hatched
      BY <2>2 DEF RunFree
    <3>2. ~ (outstanding > 0)
      BY <3>1 DEF Outstanding, AtBlockPoll, Crosses
    <3> QED
      BY <3>1, <3>2 DEF DeliveryInv
  <2>3. CASE HeldByLatch \/ HeldByDelivery
    BY <2>3 DEF HeldByLatch, HeldByDelivery, codecVars, Crosses
  <2> QED
    BY <1>1, <2>1, <2>2, <2>3 DEF Interleave, StepRound
<1>2. CASE Guest \/ WallClock \/ UNCHANGED vars
  <2>1. UNCHANGED pc
    BY <1>2 DEF Guest, EnableRreq, Pop, Handle, Handled, Readback, Finish, Sum, NoSum, WallClock,
                vars, codecVars
  <2> QED
    BY <2>1 DEF Crosses
<1>3. CASE Drain
  BY <1>3 DEF Drain
<1> QED
  BY <1>1, <1>2, <1>3 DEF Next

\* With the hold on and audio to be heard, a tick lets the codec cross in the
\* middle of a counted delivery only by the hatch (ot-dsp-shim.cc:432-470).
THEOREM TicksDoNotTear == Spec => NoTear
<1>1. DeliveryInv /\ [Next]_vars
      => [Crosses /\ guest = "transfer" /\ counted /\ audioLive /\ HOLD_ON => hatched']_vars
  BY TornStep
<1> QED
  BY DeliveryInitial, DeliveryStep, <1>1, PTL DEF Spec, NoTear

\* The frame line is up only for a word that is there, and that the guest has
\* asked to be told of (ot-dsp-port.c:63-69, 83-99).
THEOREM LineIsHonest == Spec => []LineHonest
<1>1. Init => LineHonest
  BY DEF Init, LineHonest
<1>2. ASSUME LineHonest, [Next]_vars
      PROVE  LineHonest'
  <2>1. CASE HreqUpdate
    BY <2>1 DEF HreqUpdate, LineHonest
  <2>2. CASE Interleave
    <3>1. UNCHANGED rreq /\ line' = (rreq /\ tx')
      BY <2>2 DEF Interleave, HreqSync, guestVars
    <3> QED
      BY <3>1 DEF LineHonest
  <2>3. CASE Drain
    <3>1. (tx => tx') /\ UNCHANGED <<rreq, line>>
      BY <2>3 DEF Drain, CodecStep, guestVars
    <3> QED
      BY <1>2, <3>1 DEF LineHonest
  <2>4. ASSUME UNCHANGED <<tx, rreq, line>>
        PROVE  LineHonest'
    BY <1>2, <2>4 DEF LineHonest
  <2>5. CASE EnableRreq \/ Pop \/ Readback
    BY <2>1, <2>5 DEF EnableRreq, Pop, Readback
  <2>6. CASE Handled
    <3>1. HreqUpdate \/ UNCHANGED <<tx, rreq, line>>
      BY <2>6 DEF Handled, codecVars
    <3> QED
      BY <3>1, <2>1, <2>4
  <2>7. CASE Handle \/ Finish \/ WallClock \/ UNCHANGED vars
    BY <2>4, <2>7 DEF Handle, Finish, Sum, NoSum, WallClock, vars, codecVars, guestVars
  <2> QED
    BY <1>2, <2>2, <2>3, <2>5, <2>6, <2>7 DEF Next, Guest
<1> QED
  BY <1>1, <1>2, PTL DEF Spec

-----------------------------------------------------------------------------
(* The host port *)

Word(d) == [to |-> d, arg |-> FALSE]
Arg(d) == [to |-> d, arg |-> TRUE]

PortTyped ==
  /\ dest \in Dests \union {"none"}
  /\ stage \in {"free", "args", "arg2", "command", "words"}
  /\ op \in {"none", "icr", "cvr", "burst"}
  /\ togo \in Nat
  /\ dma \in [to : Dests \union {"none"}, left : Nat]
  /\ vector \in BOOLEAN /\ handler \in BOOLEAN

\* How far the guest is, what the register handler it waits in belongs to, and
\* what the port remembers of the arguments.
HostSide ==
  /\ op # "none" <=> guest = "drain"
  /\ guest = "idle" => stage = "free"
  /\ op = "icr" => stage = "free" /\ argPhase = 0 /\ dest \in Dests /\ togo = Words(dest)
  /\ op = "cvr" => stage = "command"
  /\ op = "burst" => stage = "words"
  /\ stage = "args" => argPhase = 0
  /\ stage = "arg2" => argPhase = 1
  /\ stage \in {"arg2", "command", "words"} => lastDest = dest
  /\ stage \in {"args", "arg2", "command"} => dest \in Dests /\ togo = Words(dest)

Quiet == ~ vector /\ ~ handler

\* The FIFO holds nothing but words for the channel that is armed.
Streams == Quiet /\ fifo \in Seq({Word(dma.to)})

\* The arguments wait for the handler.
Waiting == dma.left = 0 /\ fifo = <<Arg(dest), Arg(dest)>>

\* The channel takes what is in the FIFO and what is still to be sent, no word
\* more, so that it has nothing left when the next transfer begins.
CoreSide ==
  /\ ~ misplaced
  /\ stage = "free" => Streams /\ dma.left = Len(fifo)
  /\ stage = "args" => Quiet /\ dma.left = 0 /\ fifo = <<>>
  /\ stage = "arg2" => Quiet /\ dma.left = 0 /\ fifo = <<Arg(dest)>>
  /\ stage = "command" =>
       \/ op = "none" /\ Quiet /\ Waiting
       \/ op = "cvr" /\ Waiting /\ (vector <=> ~ handler)
       \/ op = "cvr" /\ Quiet /\ fifo = <<>> /\ dma = [to |-> dest, left |-> Words(dest)]
  /\ stage = "words" =>
       /\ Streams /\ dma.to = dest
       /\ togo \in 1 .. Words(dest) /\ dma.left = Len(fifo) + togo

PortInv == PortTyped /\ HostSide /\ CoreSide

LEMMA WordsPositive == (\A d : Words(d) \in Nat \ {0}) /\ Words("sum") = 1
BY PortAssumption DEF Words

\* A FIFO of equal words.
LEMMA SameWords ==
  ASSUME NEW w, NEW s \in Seq({w})
  PROVE  /\ Len(s) \in Nat /\ (s = <<>> <=> Len(s) = 0)
         /\ Append(s, w) \in Seq({w}) /\ Len(Append(s, w)) = Len(s) + 1
         /\ s # <<>> => Head(s) = w /\ Tail(s) \in Seq({w}) /\ Len(Tail(s)) = Len(s) - 1
<1>1. Len(s) \in Nat /\ (s = <<>> <=> Len(s) = 0)
  BY EmptySeq, LenProperties
<1>2. Append(s, w) \in Seq({w}) /\ Len(Append(s, w)) = Len(s) + 1
  BY AppendProperties
<1>3. ASSUME s # <<>>
      PROVE  Head(s) = w /\ Tail(s) \in Seq({w}) /\ Len(Tail(s)) = Len(s) - 1
  BY <1>3, HeadTailProperties
<1> QED
  BY <1>1, <1>2, <1>3

LEMMA TwoWords == \A w : Append(<<w>>, w) = <<w, w>>
<1> TAKE w
<1>1. <<w>> \in Seq({w}) /\ <<w, w>> \in Seq({w}) /\ Len(<<w>>) = 1 /\ Len(<<w, w>>) = 2
  OBVIOUS
<1>2. /\ Append(<<w>>, w) \in Seq({w}) /\ Len(Append(<<w>>, w)) = 2
      /\ \A i \in 1 .. 2 : Append(<<w>>, w)[i] = <<w, w>>[i]
  BY <1>1, AppendProperties
<1> QED
  BY <1>1, <1>2, SeqEqual

LEMMA PortInitial == PortInit => PortInv
<1> SUFFICES ASSUME PortInit
             PROVE  PortInv
  OBVIOUS
<1>1. PortTyped
  BY DEF PortInit, PortTyped, Off
<1>2. HostSide
  BY DEF PortInit, Init, HostSide
<1>3. fifo \in Seq({Word(dma.to)}) /\ Len(fifo) = 0
  BY EmptySeq DEF PortInit
<1>4. CoreSide
  BY <1>3 DEF PortInit, CoreSide, Streams, Quiet, Off
<1> QED
  BY <1>1, <1>2, <1>4 DEF PortInv

\* The core takes what comes next for what it is.
LEMMA CoreKeeps ==
  ASSUME PortInv, CoreMove, UNCHANGED <<hostSide, guest>>
  PROVE  PortInv'
<1> USE DEF PortInv
<1>1. HostSide'
  BY DEF HostSide, hostSide
<1>2. UNCHANGED <<op, stage, dest, togo>>
  BY DEF hostSide
<1>3. CASE TakesVector /\ vector' = FALSE /\ handler' = TRUE /\ UNCHANGED <<fifo, dma, misplaced>>
  <2>1. PortTyped'
    BY <1>2, <1>3 DEF PortTyped
  <2>2. CoreSide'
    BY <1>2, <1>3 DEF CoreSide, TakesVector, Quiet, Streams, Waiting
  <2> QED
    BY <1>1, <2>1, <2>2
<1>4. CASE /\ ReadsArgs
           /\ handler' = FALSE
           /\ dma' = [to |-> fifo[1].to, left |-> Words(fifo[1].to)]
           /\ misplaced' = (misplaced \/ ~ fifo[1].arg \/ ~ fifo[2].arg \/ fifo[1].to # fifo[2].to)
           /\ fifo' = SubSeq(fifo, 3, Len(fifo))
           /\ UNCHANGED vector
  <2>1. /\ stage = "command" /\ op = "cvr" /\ Waiting /\ ~ vector
        /\ dest \in Dests
    BY <1>4 DEF ReadsArgs, CoreSide, HostSide, PortTyped, Quiet, Streams
  <2>2. fifo' = <<>>
    <3>1. Len(fifo) = 2
      BY <2>1 DEF Waiting
    <3> QED
      BY <1>4, <3>1, SubSeqEmpty
  <2>3. dma' = [to |-> dest, left |-> Words(dest)] /\ ~ misplaced'
    <3>1. fifo[1] = Arg(dest) /\ fifo[2] = Arg(dest)
      BY <2>1 DEF Waiting
    <3>2. fifo[1].to = dest /\ fifo[2].to = dest /\ fifo[1].arg /\ fifo[2].arg
      BY <3>1 DEF Arg
    <3> QED
      BY <1>4, <3>2 DEF CoreSide
  <2>4. PortTyped'
    <3>1. dma' \in [to : Dests \union {"none"}, left : Nat]
      BY <2>1, <2>3, WordsPositive
    <3> QED
      BY <1>2, <1>4, <3>1 DEF PortTyped
  <2>5. CoreSide'
    BY <1>2, <1>4, <2>1, <2>2, <2>3 DEF CoreSide, Quiet
  <2> QED
    BY <1>1, <2>4, <2>5
<1>5. CASE /\ DmaTakes
           /\ dma' = IF dma.left = 1 THEN Off ELSE [dma EXCEPT !.left = @ - 1]
           /\ misplaced' = (misplaced \/ Head(fifo) # [to |-> dma.to, arg |-> FALSE])
           /\ fifo' = Tail(fifo)
           /\ UNCHANGED <<vector, handler>>
  <2>1. /\ stage \in {"free", "words"} /\ Streams
        /\ dma.left > 0 /\ fifo # <<>>
    BY <1>5 DEF DmaTakes, CoreSide, PortTyped, Waiting
  <2>2. /\ Len(fifo) \in Nat \ {0}
        /\ Head(fifo) = Word(dma.to) /\ fifo' \in Seq({Word(dma.to)})
        /\ Len(fifo') = Len(fifo) - 1
    BY <1>5, <2>1, SameWords DEF Streams
  <2>3. ~ misplaced'
    BY <1>5, <2>2 DEF Word, CoreSide
  <2>4. PortTyped'
    BY <1>2, <1>5, <2>1 DEF PortTyped, Off
  <2>5. CASE stage = "words"
    <3>1. dma.left = Len(fifo) + togo /\ togo \in 1 .. Words(dest) /\ dma.to = dest
      BY <2>5 DEF CoreSide
    <3>2. dma.left - 1 \in Nat \ {0}
      BY <2>2, <3>1, WordsPositive
    <3>3. dma' = [dma EXCEPT !.left = @ - 1]
      BY <1>5, <3>2 DEF PortTyped
    <3>4. dma'.to = dma.to /\ dma'.left = dma.left - 1
      BY <3>3 DEF PortTyped
    <3>5. dma'.left = Len(fifo') + togo
      BY <2>2, <3>1, <3>4, WordsPositive
    <3>6. Quiet'
      BY <1>5, <2>1 DEF Quiet, Streams
    <3> QED
      BY <1>1, <1>2, <2>2, <2>3, <2>4, <2>5, <3>1, <3>4, <3>5, <3>6 DEF CoreSide, Streams
  <2>6. CASE stage = "free"
    <3>1. dma.left = Len(fifo)
      BY <2>6 DEF CoreSide
    <3>2. Quiet'
      BY <1>5, <2>1 DEF Quiet, Streams
    <3>3. dma'.left = Len(fifo') /\ fifo' \in Seq({Word(dma'.to)})
      <4>1. CASE dma.left = 1
        <5>1. fifo' = <<>>
          BY <2>2, <3>1, <4>1, SameWords
        <5> QED
          BY <1>5, <2>2, <3>1, <4>1, <5>1, EmptySeq DEF Off
      <4>2. CASE dma.left # 1
        <5>1. dma'.to = dma.to /\ dma'.left = dma.left - 1
          BY <1>5, <4>2 DEF PortTyped
        <5> QED
          BY <2>2, <3>1, <5>1
      <4> QED
        BY <4>1, <4>2
    <3> QED
      BY <1>1, <1>2, <2>3, <2>4, <2>6, <3>2, <3>3 DEF CoreSide, Streams
  <2> QED
    BY <2>1, <2>5, <2>6
<1> QED
  BY <1>3, <1>4, <1>5 DEF CoreMove

\* The guest's side, while the core stands still.
LEMMA HostKeeps ==
  ASSUME PortInv, Transfer \/ Waits
  PROVE  PortInv'
<1> USE DEF PortInv
<1>1. ASSUME NEW d \in Dests, Icr(d) PROVE PortInv'
  <2>1. /\ guest = "transfer" /\ guest' = "drain" /\ op = "none"
        /\ op' = "icr" /\ dest' = d /\ togo' = Words(d) /\ argPhase' = 0
        /\ stage = "free" /\ UNCHANGED <<coreSide, stage, lastDest>>
    BY <1>1 DEF Icr, Handle, PhaseAfterReset, HostSide
  <2>2. PortTyped'
    BY <1>1, <2>1, WordsPositive DEF PortTyped, coreSide
  <2>3. HostSide'
    BY <1>1, <2>1 DEF HostSide
  <2>4. CoreSide'
    BY <2>1 DEF CoreSide, coreSide, Streams, Quiet
  <2> QED
    BY <2>2, <2>3, <2>4
<1>2. CASE IcrDone
  <2>1. /\ guest = "drain" /\ guest' = "transfer"
        /\ op = "icr" /\ stage = "free" /\ op' = "none" /\ stage' = "args"
        /\ UNCHANGED <<vector, handler, dma, dest, togo, argPhase, lastDest>>
    BY <1>2 DEF IcrDone, Handled, HostSide
  <2>2. Quiet /\ fifo \in Seq({Word(dma.to)}) /\ dma.left = Len(fifo)
    BY <2>1 DEF CoreSide, Streams
  \* The reset destroys nothing: a word that is left has a channel.
  <2>3. fifo = <<>>
    <3>1. ASSUME fifo # <<>> PROVE CanMove
      BY <2>2, <3>1, SameWords DEF CanMove, DmaTakes
    <3> QED
      BY <1>2, <3>1 DEF IcrDone, Drained
  <2>4. dma.left = 0 /\ fifo' = <<>> /\ ~ misplaced'
    BY <1>2, <2>2, <2>3, SameWords DEF IcrDone, CoreSide
  <2>5. PortTyped'
    BY <2>1 DEF PortTyped
  <2>6. HostSide'
    BY <2>1 DEF HostSide
  <2>7. CoreSide'
    BY <2>1, <2>2, <2>4 DEF CoreSide, Quiet
  <2> QED
    BY <2>5, <2>6, <2>7
<1>3. CASE WriteArg
  <2>1. /\ guest = "transfer" /\ op = "none" /\ UNCHANGED guest
        /\ stage \in {"args", "arg2"}
        /\ UNCHANGED <<vector, handler, dma, misplaced, op, dest, togo>>
    BY <1>3 DEF WriteArg, HostSide, vars, guestVars
  <2>2. fifo' = Append(fifo, Arg(dest))
    BY <1>3 DEF WriteArg, Put, Arg
  <2>3. CASE stage = "args"
    <3>1. stage' = "arg2" /\ lastDest' = dest /\ argPhase' = 1 /\ fifo' = <<Arg(dest)>>
      BY <1>3, <2>2, <2>3 DEF WriteArg, HostSide, CoreSide
    <3> QED
      BY <2>1, <2>3, <3>1 DEF PortTyped, HostSide, CoreSide, Quiet
  <2>4. CASE stage = "arg2"
    <3>1. stage' = "command" /\ lastDest' = dest /\ fifo' = <<Arg(dest), Arg(dest)>>
      <4>1. fifo = <<Arg(dest)>>
        BY <2>4 DEF CoreSide
      <4>2. Append(<<Arg(dest)>>, Arg(dest)) = <<Arg(dest), Arg(dest)>>
        BY TwoWords
      <4>3. stage' = "command" /\ lastDest' = dest
        BY <1>3, <2>4 DEF WriteArg, HostSide
      <4> QED
        BY <2>2, <4>1, <4>2, <4>3
    <3> QED
      BY <2>1, <2>4, <3>1 DEF PortTyped, HostSide, CoreSide, Quiet, Waiting
  <2> QED
    BY <2>1, <2>3, <2>4
<1>4. CASE Cvr
  <2>1. /\ guest = "transfer" /\ guest' = "drain" /\ op = "none" /\ op' = "cvr"
        /\ stage = "command" /\ vector' = TRUE
        /\ UNCHANGED <<fifo, handler, dma, misplaced, stage, dest, togo, argPhase, lastDest>>
    BY <1>4 DEF Cvr, Handle, HostSide
  <2>2. PortTyped' /\ HostSide'
    BY <2>1 DEF PortTyped, HostSide
  <2>3. CoreSide'
    BY <2>1 DEF CoreSide, Quiet, Waiting
  <2> QED
    BY <2>2, <2>3
<1>5. CASE CvrDone
  <2>1. /\ guest = "drain" /\ guest' = "transfer"
        /\ op = "cvr" /\ stage = "command" /\ op' = "none" /\ stage' = "words"
        /\ UNCHANGED <<fifo, vector, handler, dma, misplaced, dest, togo, argPhase, lastDest>>
    BY <1>5 DEF CvrDone, Handled, HostSide, coreSide
  \* Both barriers: the core has set up the channel.
  <2>2. Quiet /\ fifo = <<>> /\ dma = [to |-> dest, left |-> Words(dest)]
    <3>1. ASSUME Waiting, vector <=> ~ handler
          PROVE  CanMove /\ fifo # <<>>
      BY <3>1 DEF Waiting, CanMove, TakesVector, ReadsArgs
    <3>2. ~ (Waiting /\ (vector <=> ~ handler))
      BY <1>5, <3>1 DEF CvrDone
    <3> QED
      BY <2>1, <3>2 DEF CoreSide
  <2>3. togo = Words(dest) /\ dest \in Dests
    BY <2>1 DEF HostSide
  <2>4. PortTyped' /\ HostSide'
    BY <2>1, <2>3 DEF PortTyped, HostSide
  <2>5. CoreSide'
    <3>1. fifo' \in Seq({Word(dma'.to)}) /\ Len(fifo') = 0
      BY <2>1, <2>2, EmptySeq
    <3>2. togo' \in 1 .. Words(dest') /\ dma'.left = Len(fifo') + togo' /\ dma'.to = dest'
      BY <2>1, <2>2, <2>3, <3>1, WordsPositive
    <3>3. ~ misplaced' /\ Quiet'
      BY <2>1, <2>2 DEF CoreSide, Quiet
    <3> QED
      BY <2>1, <3>1, <3>2, <3>3 DEF CoreSide, Streams
  <2> QED
    BY <2>4, <2>5
<1>6. CASE Burst
  <2>1. /\ guest = "transfer" /\ guest' = "drain" /\ op = "none" /\ op' = "burst"
        /\ stage = "words" /\ UNCHANGED <<coreSide, stage, dest, togo, argPhase, lastDest>>
    BY <1>6 DEF Burst, HostSide
  <2>2. PortTyped' /\ HostSide'
    BY <2>1 DEF PortTyped, HostSide, coreSide
  <2>3. CoreSide'
    BY <2>1 DEF CoreSide, coreSide, Streams, Quiet
  <2> QED
    BY <2>2, <2>3
<1>7. ASSUME stage = "words", op' = "none", guest' # "drain", guest' = "idle" => togo = 1,
             Put(FALSE), UNCHANGED <<vector, handler, dma, misplaced, dest, argPhase, lastDest>>,
             togo' = togo - 1, stage' = IF togo = 1 THEN "free" ELSE "words"
      PROVE  PortInv'
  <2>1. /\ Quiet /\ fifo \in Seq({Word(dma.to)}) /\ dma.to = dest
        /\ togo \in 1 .. Words(dest) /\ dma.left = Len(fifo) + togo
    BY <1>7 DEF CoreSide, Streams
  <2>2. Words(dest) \in Nat
    BY WordsPositive
  <2>3. Len(fifo) \in Nat /\ fifo' \in Seq({Word(dma.to)}) /\ Len(fifo') = Len(fifo) + 1
    BY <1>7, <2>1, SameWords DEF Put, Word
  <2>4. dma'.left = Len(fifo') + togo' /\ togo' \in 0 .. Words(dest) - 1
    BY <1>7, <2>1, <2>2, <2>3
  <2>5. PortTyped' /\ HostSide'
    BY <1>7, <2>2, <2>4 DEF PortTyped, HostSide
  <2>6. Quiet' /\ ~ misplaced' /\ dma'.to = dest'
    BY <1>7, <2>1 DEF CoreSide, Quiet
  <2>7. CASE togo = 1
    <3>1. stage' = "free" /\ dma'.left = Len(fifo')
      BY <1>7, <2>3, <2>4, <2>7
    <3> QED
      BY <1>7, <2>3, <2>5, <2>6, <3>1 DEF CoreSide, Streams
  <2>8. CASE togo # 1
    <3>1. stage' = "words" /\ togo' \in 1 .. Words(dest')
      BY <1>7, <2>1, <2>2, <2>8
    <3> QED
      BY <1>7, <2>3, <2>4, <2>5, <2>6, <3>1 DEF CoreSide, Streams
  <2> QED
    BY <2>7, <2>8
<1>8. CASE BurstDone
  BY <1>7, <1>8 DEF BurstDone, Handled, HostSide
<1>9. CASE SumBurst
  <2>1. togo = 1
    BY <1>9, WordsPositive DEF SumBurst, CoreSide
  <2> QED
    BY <1>7, <1>9, <2>1 DEF SumBurst, HostSide
<1> QED
  BY <1>1, <1>2, <1>3, <1>4, <1>5, <1>6, <1>8, <1>9 DEF Transfer, Waits

LEMMA PortStep == PortInv /\ [PortNext]_allVars => PortInv'
<1> SUFFICES ASSUME PortInv, [PortNext]_allVars
             PROVE  PortInv'
  OBVIOUS
<1>1. ASSUME UNCHANGED portVars, guest' = "drain" <=> guest = "drain",
             guest' = "idle" => guest = "idle" \/ stage = "free"
      PROVE  PortInv'
  <2>1. /\ UNCHANGED <<fifo, vector, handler, dma, misplaced>>
        /\ UNCHANGED <<op, stage, dest, togo, argPhase, lastDest>>
    BY <1>1 DEF portVars, coreSide, hostSide
  <2>2. PortTyped'
    BY <2>1 DEF PortInv, PortTyped
  <2>3. HostSide'
    BY <1>1, <2>1 DEF PortInv, HostSide
  <2>4. CoreSide'
    BY <2>1 DEF PortInv, CoreSide, Streams, Quiet, Waiting
  <2> QED
    BY <2>2, <2>3, <2>4 DEF PortInv
<1>2. CASE PortInterleave \/ PortDrain \/ PortWallClock \/ UNCHANGED allVars
  <2>1. UNCHANGED portVars /\ UNCHANGED guest
    BY <1>2 DEF PortInterleave, Interleave, PortDrain, Drain, PortWallClock, WallClock,
                allVars, vars, guestVars
  <2> QED
    BY <1>1, <2>1
<1>3. CASE PortEnableRreq \/ PortPop \/ PortReadback \/ PortNoSum
  <2>1. /\ stage = "free" /\ UNCHANGED portVars
        /\ (guest # "drain" /\ guest' # "drain") \/ UNCHANGED guest
    BY <1>3 DEF PortEnableRreq, EnableRreq, PortPop, Pop, PortReadback, Readback, PortNoSum, NoSum,
                Between
  <2> QED
    BY <1>1, <2>1
<1>4. CASE CoreStep
  BY <1>4, CoreKeeps DEF CoreStep, vars, guestVars
<1>5. CASE Transfer \/ Waits
  BY <1>5, HostKeeps
<1> QED
  BY <1>2, <1>3, <1>4, <1>5 DEF PortNext

\* The invariant of the port: the channel has as much left to take as there is
\* to come, and the guest's place tells where the core is (ot-dsp56k.h:18-22).
THEOREM PortInvariance == PortSpec => []PortInv
  BY PortInitial, PortStep, PTL DEF PortSpec

\* For transfers of any length through a FIFO of any depth, no word is
\* destroyed, taken for an argument or sent to another's channel
\* (ot-dsp-shim.cc:823-824).
THEOREM WordsGoRight == PortSpec => []RightPlace
<1>1. PortInv => RightPlace
  BY DEF PortInv, CoreSide, RightPlace
<1> QED
  BY <1>1, PortInvariance, PTL

\* Each step of the port is a step of the delivery, or leaves it alone.
LEMMA PortImplements ==
  ASSUME PortInv, [PortNext]_allVars
  PROVE  [Next]_vars
<1>1. CASE CoreStep \/ WriteArg \/ UNCHANGED allVars
  BY <1>1 DEF CoreStep, WriteArg, allVars
<1>2. CASE PortInterleave \/ PortDrain \/ PortWallClock
  BY <1>2 DEF PortInterleave, PortDrain, PortWallClock, Next
<1>3. CASE PortEnableRreq \/ PortPop \/ PortReadback \/ PortNoSum
  BY <1>3 DEF PortEnableRreq, PortPop, PortReadback, PortNoSum, Next, Guest, Finish
<1>4. CASE (\E d \in Dests : Icr(d)) \/ Cvr
  BY <1>4 DEF Icr, Cvr, Next, Guest
<1>5. CASE Burst
  <2>1. lastDest # "sum"
    BY <1>5 DEF Burst, PortInv, HostSide
  <2>2. Handle
    BY <1>5, <2>1 DEF Burst, Release, BurstVars, Handle, codecVars, holdVars
  <2> QED
    BY <2>2 DEF Next, Guest
<1>6. CASE SumBurst
  <2>1. lastDest = "sum"
    BY <1>6 DEF SumBurst, PortInv, HostSide
  <2>2. Sum
    BY <1>6, <2>1 DEF SumBurst, Release, BurstVars, Sum, codecVars
  <2> QED
    BY <2>2 DEF Next, Guest, Finish
<1>7. CASE Waits
  <2>1. Handled
    BY <1>7 DEF Waits, IcrDone, CvrDone, BurstDone, Handled
  <2> QED
    BY <2>1 DEF Next, Guest
<1> QED
  BY <1>1, <1>2, <1>3, <1>4, <1>5, <1>6, <1>7 DEF PortNext, Transfer

\* Of a transfer to where the sum goes only its burst ends the delivery.
LEMMA SumReleases ==
  ASSUME PortInv, [PortNext]_allVars,
         stage = "words", dest = "sum", guest' = "idle"
  PROVE  outstanding' = 0 /\ sumSeen'
<1>1. guest # "idle" /\ stage # "free"
  BY DEF PortInv, HostSide
<1>2. SumBurst
  <2>1. UNCHANGED guest \/ guest' # "idle" \/ Between \/ SumBurst
    BY DEF PortNext, PortInterleave, Interleave, PortDrain, Drain, CoreStep, PortWallClock, WallClock,
           PortEnableRreq, PortPop, PortReadback, PortNoSum, Transfer, Icr, Handle, WriteArg, Cvr, Burst,
           Waits, IcrDone, CvrDone, BurstDone, Handled, allVars, vars, guestVars
  <2> QED
    BY <1>1, <2>1 DEF Between
<1>3. lastDest = "sum"
  BY DEF PortInv, HostSide
<1> QED
  BY <1>2, <1>3 DEF SumBurst, Release

\* The port, its transfers taken apart into registers, a FIFO and a channel, is
\* one that delivers as DspDelivery says, and the hold is released by the
\* burst to where the sum goes (ot-dsp-shim.cc:921-925).
THEOREM PortDelivers == PortSpec => Delivery
<1>1. PortInit => Init
  BY DEF PortInit
<1>2. PortInv /\ [PortNext]_allVars => [Next]_vars
  BY PortImplements
<1>3. PortInv /\ [PortNext]_allVars
      => [stage = "words" /\ dest = "sum" /\ guest' = "idle" => outstanding' = 0 /\ sumSeen']_allVars
  BY SumReleases
<1> QED
  BY <1>1, <1>2, <1>3, PortInvariance, PTL DEF PortSpec, Spec, Delivery, SumLands

\* So the port inherits what the delivery promises: no tick tears a delivery,
\* and the line is honest.
COROLLARY PortKeepsPromises == PortSpec => NoTear /\ []LineHonest
  BY PortDelivers, TicksDoNotTear, LineIsHonest, PTL DEF Delivery
=============================================================================
