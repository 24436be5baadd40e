----------------------------- MODULE EdmaProofs -----------------------------
(***************************************************************************)
(* Proofs about the eDMA engine: its completions are kept whatever the     *)
(* guest does, and the firmware's block loop never dispatches on a stale   *)
(* counter nor runs into the bound of the gate.                            *)
(***************************************************************************)
EXTENDS EdmaFrame, TLAPS

-----------------------------------------------------------------------------
(* The engine under any guest *)

SetsOK ==
  /\ intflags \subseteq CHANNELS
  /\ pending \subseteq CHANNELS
  /\ lines = intflags

LEMMA CompletedChannels ==
  ASSUME NEW c, NEW ch
  PROVE  Completed(c, ch) \subseteq CHANNELS
BY DEF Completed, Serviced

\* What one step of the engine does to its flags.
LEMMA EngineStep ==
  ASSUME SetsOK, [Guest \/ GatePoll]_edmaVars
  PROVE  /\ SetsOK'
         /\ [P!PromiseNext]_(P!promiseVars)
<1> USE DEF SetsOK, P!PromiseNext, P!promiseVars
<1>1. ASSUME NEW c, NEW ch, Start(c, ch, TRUE)
      PROVE  SetsOK' /\ P!Complete
  <2>1. Completed(c, ch) \subseteq CHANNELS
    BY CompletedChannels
  <2>2. /\ pending' = pending \union Completed(c, ch)
        /\ UNCHANGED <<intflags, lines>>
    BY <1>1 DEF Start, Hold
  <2>3. /\ (intflags \union pending)' = (intflags \union pending) \union Completed(c, ch)
        /\ lines' = lines \union {}
    BY <2>2
  <2> QED
    BY <2>1, <2>2, <2>3 DEF P!Complete
<1>2. ASSUME NEW c, NEW ch, Start(c, ch, FALSE)
      PROVE  SetsOK' /\ P!Complete
  <2>1. Completed(c, ch) \subseteq CHANNELS
    BY CompletedChannels
  <2>2. /\ intflags' = intflags \union Completed(c, ch)
        /\ lines' = lines \union Completed(c, ch)
        /\ pending' = pending
    BY <1>2 DEF Start, Raise
  <2>3. (intflags \union pending)' = (intflags \union pending) \union Completed(c, ch)
    BY <2>2
  <2> QED
    BY <2>1, <2>2, <2>3 DEF P!Complete
<1>3. ASSUME NEW ch \in CHANNELS, WriteCint(ch)
      PROVE  SetsOK' /\ P!Acknowledge
  <2>1. /\ (intflags \union pending)' = (intflags \union pending) \ {ch}
        /\ lines' = lines \ {ch}
    BY <1>3 DEF WriteCint
  <2> QED
    BY <1>3, <2>1 DEF WriteCint, P!Acknowledge
<1>4. ASSUME WriteCair
      PROVE  SetsOK' /\ P!Acknowledge
  <2>1. /\ (intflags \union pending)' = (intflags \union pending) \ CHANNELS
        /\ lines' = lines \ CHANNELS
    BY <1>4 DEF WriteCair
  <2> QED
    BY <1>4, <2>1 DEF WriteCair, P!Acknowledge
<1>5. ASSUME GatePoll
      PROVE  SetsOK' /\ (P!Deliver \/ UNCHANGED P!promiseVars)
  <2>1. CASE ctr # 0
    BY <1>5, <2>1 DEF GatePoll
  <2>2. CASE ctr = 0
    <3>1. /\ intflags' = intflags \union pending
          /\ lines' = lines \union pending
          /\ pending' = {}
      BY <1>5, <2>2 DEF GatePoll, IrqFire, Raise
    <3> QED
      BY <3>1 DEF P!Deliver
  <2> QED
    BY <2>1, <2>2
<1>6. ASSUME UNCHANGED <<intflags, lines, pending>>
      PROVE  SetsOK' /\ UNCHANGED P!promiseVars
  BY <1>6
<1>7. ASSUME NEW ch \in CHANNELS, NEW int, NEW link, NEW start \in BOOLEAN,
             WriteCsr(ch, int, link, start)
      PROVE  SetsOK' /\ (P!Complete \/ UNCHANGED P!promiseVars)
  <2>1. CASE start
    BY <1>7, <2>1, <1>1 DEF WriteCsr
  <2>2. CASE ~ start
    BY <1>7, <2>2, <1>6 DEF WriteCsr
  <2> QED
    BY <2>1, <2>2
<1>8. ASSUME NEW ch \in CHANNELS, WriteSsrt(ch)
      PROVE  SetsOK' /\ P!Complete
  BY <1>8, <1>2 DEF WriteSsrt
<1> QED
  BY <1>3, <1>4, <1>5, <1>6, <1>7, <1>8 DEF Guest, edmaVars

\* The lines the processor sees are the latched flags, under any guest
\* (ot-board.c:758, 948, 1513).
THEOREM LinesAreLatched == EdmaSpec => []Latched
<1>1. EdmaInit => SetsOK
  BY DEF EdmaInit, SetsOK
<1>2. SetsOK /\ [Guest \/ GatePoll]_edmaVars => SetsOK'
  BY EngineStep
<1>3. SetsOK => Latched
  BY DEF SetsOK, Latched
<1> QED
  BY <1>1, <1>2, <1>3, PTL DEF EdmaSpec

\* The engine implements its promise: a completion is owed until it is
\* acknowledged, through links, holds and late deliveries.
THEOREM CompletionsAreKept == EdmaSpec => CompletionsKept
<1>1. EdmaInit => SetsOK /\ P!PromiseInit
  BY DEF EdmaInit, SetsOK, P!PromiseInit
<1>2. SetsOK /\ [Guest \/ GatePoll]_edmaVars => SetsOK' /\ [P!PromiseNext]_(P!promiseVars)
  BY EngineStep
<1> QED
  BY <1>1, <1>2, PTL DEF EdmaSpec, CompletionsKept, P!Promise
-----------------------------------------------------------------------------
(* Under the firmware *)

\* Where the two handlers may be, and with which completions outstanding.
HandlersOK ==
  /\ frame \in {"off", "arm", "block", "clear", "rest"}
  /\ state \in {"off", "ack", "dispatch", "transfer", "count", "close"}
  /\ lines = intflags
  /\ ~ masked => intflags = {} /\ pending = {} /\ state = "off"
  /\ frame = "arm" => masked /\ intflags = {} /\ pending = {} /\ state = "off"
  /\ pending # {} => intflags = {} /\ state = "off"
  /\ state \in {"dispatch", "transfer", "close"} => 0 \notin intflags
  /\ state \in {"transfer", "count", "close"} => 7 \notin intflags

\* What is ever raised.
FlagsOK ==
  /\ csr = Wired
  /\ intflags \subseteq {0, 7}
  /\ pending \subseteq {0, 7}

\* The state counter.
CtrOK ==
  /\ ctr \in 0 .. LAST
  /\ 7 \in intflags => ctr = 0
  /\ state \in {"transfer", "count"} => ctr < LAST

\* The gate is shut on a held completion only until the frame handler has
\* cleared the counter, two quanta after it armed the chain at the most.
Bound == IF frame = "block" THEN IF ran THEN 0 ELSE 1
                            ELSE IF ran THEN 1 ELSE 2

HeldOK ==
  /\ held \in Nat
  /\ ran \in BOOLEAN
  /\ aborted = FALSE
  /\ pending # {} /\ ctr # 0 => frame \in {"block", "clear"} /\ held <= Bound

FrameInv == HandlersOK /\ FlagsOK /\ CtrOK /\ HeldOK

LEMMA WiredChannels ==
  /\ Wired \in [CHANNELS -> Csr]
  /\ [Wired EXCEPT ![1] = [int |-> FALSE, link |-> 6]] = Wired
  /\ \A ch : Completed(Wired, ch) \subseteq {0, 7}
  /\ Completed(Wired, 0) \subseteq {0}
<1> USE FrameAssumption, EdmaAssumption
<1>1. Wired \in [CHANNELS -> Csr]
  BY DEF Wired, Csr
<1>2. Wired[1] = [int |-> FALSE, link |-> 6]
  BY DEF Wired
<1>3. [Wired EXCEPT ![1] = [int |-> FALSE, link |-> 6]] = Wired
  BY <1>1, <1>2
<1>4. \A ch : Completed(Wired, ch) \subseteq {0, 7}
  BY DEF Completed, Serviced, Wired
<1>5. LinkOf(Wired, 0) = NoLink
  BY DEF LinkOf, Wired
<1>6. ASSUME NEW x \in Serviced(Wired, 0)
      PROVE  x = 0
  <2>1. PICK depth \in 0 .. LINK_DEPTH - 1 : \E path \in [0 .. depth -> CHANNELS] :
          /\ path[0] = 0 /\ path[depth] = x
          /\ \A d \in 1 .. depth : path[d] = LinkOf(Wired, path[d - 1])
    BY <1>6 DEF Serviced
  <2>2. PICK path \in [0 .. depth -> CHANNELS] :
          /\ path[0] = 0 /\ path[depth] = x
          /\ \A d \in 1 .. depth : path[d] = LinkOf(Wired, path[d - 1])
    BY <2>1
  <2>3. CASE depth = 0
    BY <2>2, <2>3
  <2>4. CASE depth # 0
    <3>1. 1 \in 1 .. depth /\ 1 \in 0 .. depth
      BY <2>4
    <3>2. path[1] = LinkOf(Wired, path[1 - 1])
      BY <2>2, <3>1
    <3>3. path[1] = NoLink
      BY <3>2, <2>2, <1>5
    <3>4. path[1] \in CHANNELS
      BY <3>1, <2>2
    <3> QED
      BY <3>3, <3>4
  <2> QED
    BY <2>3, <2>4
<1>7. Completed(Wired, 0) \subseteq {0}
  BY <1>6 DEF Completed
<1> QED
  BY <1>1, <1>3, <1>4, <1>7

LEMMA FrameInitial == Init => FrameInv
<1> SUFFICES ASSUME Init PROVE FrameInv
  OBVIOUS
<1>1. HandlersOK
  BY DEF Init, HandlersOK
<1>2. FlagsOK
  BY DEF Init, FlagsOK
<1>3. 0 \in 0 .. LAST
  BY FrameAssumption, EdmaAssumption DEF LAST
<1>4. CtrOK
  BY <1>3 DEF Init, CtrOK
<1>5. HeldOK
  BY DEF Init, HeldOK
<1> QED
  BY <1>1, <1>2, <1>4, <1>5 DEF FrameInv

\* The steps of the frame handler.
LEMMA FrameHandlerStep ==
  ASSUME FrameInv, FrameHandler
  PROVE  FrameInv'
<1> USE DEF FrameInv
<1>1. CASE EnterFrame
  BY <1>1 DEF EnterFrame, FrameStep, HandlersOK, FlagsOK, CtrOK, HeldOK, Bound, edmaVars
<1>2. CASE Arm
  <2> DEFINE S == Completed(Wired, 1)
  <2>1. S \subseteq {0, 7}
    BY WiredChannels
  <2>2. /\ frame = "arm" /\ frame' = "block" /\ ran' = TRUE
        /\ state = "off" /\ state' = "off" /\ masked' = masked
    BY <1>2 DEF Arm, FrameStep
  <2>3. csr = Wired
    BY DEF FlagsOK
  <2>4. [csr EXCEPT ![1] = [int |-> FALSE, link |-> 6]] = Wired
    BY WiredChannels, <2>3
  <2>5. /\ csr' = Wired
        /\ pending' = pending \union S
        /\ held' = IF S = {} THEN held ELSE 0
        /\ UNCHANGED <<intflags, lines, ctr, aborted>>
    BY <1>2, <2>4 DEF Arm, WriteCsr, Start, Hold
  <2>6. masked /\ intflags = {} /\ pending = {}
    BY <2>2 DEF HandlersOK
  <2>7. HandlersOK'
    BY <2>2, <2>5, <2>6 DEF HandlersOK
  <2>8. FlagsOK' /\ CtrOK'
    BY <2>1, <2>2, <2>5, <2>6 DEF FlagsOK, CtrOK
  <2>9. HeldOK'
    BY <2>2, <2>5, <2>6 DEF HeldOK, Bound
  <2> QED
    BY <2>7, <2>8, <2>9
<1>3. CASE SetBlock
  <2>1. HandlersOK'
    BY <1>3 DEF SetBlock, FrameStep, HandlersOK, edmaVars
  <2>2. FlagsOK' /\ CtrOK'
    BY <1>3 DEF SetBlock, FlagsOK, CtrOK, edmaVars
  <2>3. HeldOK'
    BY <1>3 DEF SetBlock, FrameStep, HeldOK, Bound, edmaVars
  <2> QED
    BY <2>1, <2>2, <2>3
<1>4. CASE ClearCtr
  <2>1. HandlersOK' /\ FlagsOK'
    BY <1>4 DEF ClearCtr, FrameStep, HandlersOK, FlagsOK
  <2>2. state' = "off" /\ ctr' = 0
    BY <1>4 DEF ClearCtr, FrameStep
  <2>3. 0 \in 0 .. LAST
    BY FrameAssumption, EdmaAssumption DEF LAST
  <2>4. CtrOK'
    BY <2>2, <2>3 DEF CtrOK
  <2>5. HeldOK'
    BY <1>4 DEF ClearCtr, FrameStep, HeldOK
  <2> QED
    BY <2>1, <2>4, <2>5
<1>5. CASE LeaveFrame
  BY <1>5 DEF LeaveFrame, FrameStep, HandlersOK, FlagsOK, CtrOK, HeldOK, Bound, edmaVars
<1> QED
  BY <1>1, <1>2, <1>3, <1>4, <1>5 DEF FrameHandler

\* The steps of the state handler.
LEMMA StateHandlerStep ==
  ASSUME FrameInv, StateHandler
  PROVE  FrameInv'
<1> USE DEF FrameInv
\* No completion is held while the state handler runs, so the gate is open.
<1>0. ASSUME state # "off", pending' \subseteq pending, held' = held, ran' = TRUE, aborted' = aborted
      PROVE  HeldOK'
  BY <1>0 DEF HandlersOK, HeldOK
<1>1. CASE EnterState
  <2>1. /\ lines \intersect {0, 7} # {}
        /\ state = "off" /\ state' = "ack" /\ ran' = TRUE
        /\ UNCHANGED <<csr, intflags, lines, pending, held, ctr, aborted, frame, masked>>
    BY <1>1 DEF EnterState, StateStep, edmaVars
  <2>2. intflags # {} /\ pending = {} /\ masked
    BY <2>1 DEF HandlersOK
  <2>3. frame # "arm"
    BY <2>2 DEF HandlersOK
  <2>4. HandlersOK'
    BY <2>1, <2>2, <2>3 DEF HandlersOK
  <2>5. FlagsOK' /\ CtrOK'
    BY <2>1 DEF FlagsOK, CtrOK
  <2>6. HeldOK'
    BY <2>1, <2>2 DEF HeldOK
  <2> QED
    BY <2>4, <2>5, <2>6
<1>2. CASE AckState
  <2>1. /\ state = "ack" /\ state' = "dispatch" /\ ran' = TRUE
        /\ intflags' = intflags \ {0} /\ lines' = lines \ {0} /\ pending' = pending \ {0}
        /\ UNCHANGED <<csr, held, ctr, aborted, frame, masked>>
    BY <1>2 DEF AckState, StateStep, WriteCint
  <2>2. HandlersOK'
    BY <2>1 DEF HandlersOK
  <2>3. FlagsOK' /\ CtrOK'
    BY <2>1 DEF FlagsOK, CtrOK
  <2> QED
    BY <2>1, <2>2, <2>3, <1>0
<1>3. CASE Dispatch
  <2>1. /\ state = "dispatch" /\ state' = IF ctr < LAST THEN "transfer" ELSE "close"
        /\ ran' = TRUE
        /\ UNCHANGED <<csr, held, ctr, aborted, frame, masked>>
    BY <1>3 DEF Dispatch, StateStep, WriteCint, edmaVars
  <2>2. /\ intflags' = IF ctr = 0 THEN intflags \ {7} ELSE intflags
        /\ lines' = IF ctr = 0 THEN lines \ {7} ELSE lines
        /\ pending' = IF ctr = 0 THEN pending \ {7} ELSE pending
    BY <1>3 DEF Dispatch, WriteCint, edmaVars
  <2>3. pending = {} /\ pending' = {} /\ 0 \notin intflags
    BY <2>1, <2>2 DEF HandlersOK
  <2>4. 7 \notin intflags'
    BY <2>2 DEF CtrOK
  <2>5. intflags' \subseteq intflags
    BY <2>2
  <2>6. state' \in {"transfer", "close"} /\ lines' = intflags'
    BY <2>1, <2>2 DEF HandlersOK
  <2>7. masked /\ frame # "arm"
    BY <2>1 DEF HandlersOK
  <2>8. HandlersOK'
    BY <2>1, <2>3, <2>4, <2>5, <2>6, <2>7 DEF HandlersOK
  <2>9. FlagsOK'
    BY <2>1, <2>3, <2>5 DEF FlagsOK
  <2>10. CtrOK'
    BY <2>1, <2>4 DEF CtrOK
  <2> QED
    BY <2>1, <2>3, <2>8, <2>9, <2>10, <1>0
<1>4. CASE Transfer
  <2> DEFINE S == Completed(Wired, 0)
  <2>1. S \subseteq {0}
    BY WiredChannels
  <2>2. /\ state = "transfer" /\ state' = "count" /\ ran' = TRUE
        /\ UNCHANGED <<pending, held, ctr, aborted, frame, masked>>
    BY <1>4 DEF Transfer, StateStep, WriteSsrt, Start
  <2>3. csr' = csr /\ intflags' = intflags \union S /\ lines' = lines \union S
    BY <1>4 DEF Transfer, WriteSsrt, Start, Raise, FlagsOK
  <2>4. masked /\ frame # "arm" /\ pending = {} /\ 7 \notin intflags'
    BY <2>1, <2>2, <2>3 DEF HandlersOK
  <2>5. HandlersOK'
    BY <2>2, <2>3, <2>4 DEF HandlersOK
  <2>6. FlagsOK'
    BY <2>1, <2>2, <2>3 DEF FlagsOK
  <2>7. CtrOK'
    BY <2>2, <2>4 DEF CtrOK
  <2> QED
    BY <2>2, <2>5, <2>6, <2>7, <1>0
<1>5. CASE SkipSum
  <2>1. /\ state = "transfer" /\ state' = "off" /\ ran' = TRUE
        /\ ctr' = ctr + 1 /\ masked' = FALSE
        /\ UNCHANGED <<csr, intflags, lines, pending, held, aborted, frame>>
    BY <1>5 DEF SkipSum, StateStep
  <2>2. intflags = {} /\ pending = {} /\ frame # "arm"
    BY <2>1 DEF HandlersOK, FlagsOK
  <2>3. HandlersOK' /\ FlagsOK'
    BY <2>1, <2>2 DEF HandlersOK, FlagsOK
  <2>4. ctr \in 0 .. LAST /\ ctr < LAST
    BY <2>1 DEF CtrOK
  <2>5. ctr' \in 0 .. LAST
    BY <2>1, <2>4, EdmaAssumption DEF LAST
  <2>6. CtrOK'
    BY <2>1, <2>2, <2>5 DEF CtrOK
  <2> QED
    BY <2>1, <2>3, <2>6, <1>0
<1>6. CASE CountState
  <2>1. /\ state = "count" /\ state' = "off" /\ ran' = TRUE /\ ctr' = ctr + 1
        /\ UNCHANGED <<csr, intflags, lines, pending, held, aborted, frame, masked>>
    BY <1>6 DEF CountState, StateStep
  <2>2. 7 \notin intflags /\ pending = {} /\ frame # "arm"
    BY <2>1 DEF HandlersOK
  <2>3. HandlersOK' /\ FlagsOK'
    BY <2>1, <2>2 DEF HandlersOK, FlagsOK
  <2>4. ctr \in 0 .. LAST /\ ctr < LAST
    BY <2>1 DEF CtrOK
  <2>5. ctr' \in 0 .. LAST
    BY <2>1, <2>4, EdmaAssumption DEF LAST
  <2>6. CtrOK'
    BY <2>1, <2>2, <2>5 DEF CtrOK
  <2> QED
    BY <2>1, <2>3, <2>6, <1>0
<1>7. CASE CloseBlock
  <2>1. /\ state = "close" /\ state' = "off" /\ ran' = TRUE /\ masked' = FALSE
        /\ UNCHANGED <<csr, intflags, lines, pending, held, ctr, aborted, frame>>
    BY <1>7 DEF CloseBlock, StateStep, edmaVars
  <2>2. intflags = {} /\ pending = {} /\ frame # "arm"
    BY <2>1 DEF HandlersOK, FlagsOK
  <2>3. HandlersOK' /\ FlagsOK'
    BY <2>1, <2>2 DEF HandlersOK, FlagsOK
  <2>4. CtrOK'
    BY <2>1 DEF CtrOK
  <2> QED
    BY <2>1, <2>3, <2>4, <1>0
<1> QED
  BY <1>1, <1>2, <1>3, <1>4, <1>5, <1>6, <1>7 DEF StateHandler

\* The rest: the task level, the DSP, the poll, and no step at all.
LEMMA OtherStep ==
  ASSUME FrameInv, Idle \/ DspRequest \/ Poll \/ UNCHANGED vars
  PROVE  FrameInv'
<1> USE DEF FrameInv
<1>0. ASSUME UNCHANGED <<csr, intflags, lines, pending, held, ctr, aborted,
                          frame, state, masked, ran>>
      PROVE  FrameInv'
  <2>1. HandlersOK'
    BY <1>0 DEF HandlersOK
  <2>2. FlagsOK' /\ CtrOK'
    BY <1>0 DEF FlagsOK, CtrOK
  <2>3. HeldOK'
    BY <1>0 DEF HeldOK, Bound
  <2> QED
    BY <2>1, <2>2, <2>3
<1>1. CASE Idle
  <2>1. /\ frame = "off" /\ ran' = TRUE
        /\ UNCHANGED <<csr, intflags, lines, pending, held, ctr, aborted, frame, state, masked>>
    BY <1>1 DEF Idle, edmaVars
  <2>2. HandlersOK'
    BY <2>1 DEF HandlersOK
  <2>3. FlagsOK' /\ CtrOK'
    BY <2>1 DEF FlagsOK, CtrOK
  <2>4. HeldOK'
    BY <2>1 DEF HeldOK
  <2> QED
    BY <2>2, <2>3, <2>4
<1>2. CASE DspRequest
  <2>1. UNCHANGED <<csr, intflags, lines, pending, held, ctr, aborted, frame, state, masked, ran>>
    BY <1>2 DEF DspRequest, edmaVars
  <2> QED
    BY <2>1, <1>0
<1>3. CASE Poll
  <2>1. /\ ran /\ ran' = FALSE /\ pending # {}
        /\ UNCHANGED <<csr, ctr, frame, state, masked>>
    BY <1>3 DEF Poll, GatePoll
  <2>2. state = "off" /\ intflags = {} /\ lines = {} /\ masked /\ frame # "arm"
    BY <2>1 DEF HandlersOK
  <2>3. CASE ctr # 0
    <3>1. /\ IF held < GATE_MAX THEN held' = held + 1 /\ UNCHANGED aborted
                                 ELSE aborted' = TRUE /\ UNCHANGED held
          /\ UNCHANGED <<intflags, lines, pending>>
      BY <1>3, <2>3 DEF Poll, GatePoll
    <3>2. frame \in {"block", "clear"} /\ held <= Bound /\ held \in Nat
      BY <2>1, <2>3 DEF HeldOK
    <3>3. held <= IF frame = "block" THEN 0 ELSE 1
      BY <3>2, <2>1 DEF Bound
    <3>4. GATE_MAX \in Nat /\ GATE_MAX >= 2
      BY EdmaAssumption, FrameAssumption
    <3>5. held < GATE_MAX
      BY <3>2, <3>3, <3>4
    <3>6. UNCHANGED aborted /\ held' = held + 1
      BY <3>1, <3>5
    <3>8. Bound' = IF frame = "block" THEN 1 ELSE 2
      BY <2>1 DEF Bound
    <3>9. held' \in Nat /\ held' <= Bound'
      BY <3>2, <3>3, <3>6, <3>8
    <3>10. HeldOK'
      BY <3>2, <3>6, <3>9, <2>1 DEF HeldOK
    <3>7. HandlersOK' /\ FlagsOK' /\ CtrOK'
      BY <2>1, <3>1 DEF HandlersOK, FlagsOK, CtrOK
    <3> QED
      BY <3>7, <3>10
  <2>4. CASE ctr = 0
    <3>1. /\ intflags' = intflags \union pending
          /\ lines' = lines \union pending
          /\ pending' = {}
          /\ UNCHANGED <<held, aborted>>
      BY <1>3, <2>4 DEF Poll, GatePoll, IrqFire, Raise
    <3>2. HandlersOK'
      BY <2>1, <2>2, <3>1 DEF HandlersOK
    <3>3. FlagsOK' /\ CtrOK'
      BY <2>1, <2>2, <2>4, <3>1 DEF FlagsOK, CtrOK
    <3>4. HeldOK'
      BY <2>1, <3>1 DEF HeldOK
    <3> QED
      BY <3>2, <3>3, <3>4
  <2> QED
    BY <2>3, <2>4
<1>4. CASE UNCHANGED vars
  <2>1. UNCHANGED <<csr, intflags, lines, pending, held, ctr, aborted, frame, state, masked, ran>>
    BY <1>4 DEF vars, cpuVars, edmaVars
  <2> QED
    BY <2>1, <1>0
<1> QED
  BY <1>1, <1>2, <1>3, <1>4

LEMMA FrameInvariance == Spec => []FrameInv
<1>1. FrameInv /\ [Next]_vars => FrameInv'
  BY FrameHandlerStep, StateHandlerStep, OtherStep DEF Next
<1> QED
  BY FrameInitial, <1>1, PTL DEF Spec

\* The state handler never dispatches the completion that opens a block on
\* the counter of the block before (ot-board.c:779-786, 912).
THEOREM DispatchIsFresh == Spec => []NoStaleDispatch
<1>1. FrameInv => NoStaleDispatch
  BY DEF FrameInv, CtrOK, NoStaleDispatch
<1> QED
  BY <1>1, FrameInvariance, PTL

\* While a completion is held nothing else can vector the state handler
\* (ot-board.c:817-820).
THEOREM HoldIsQuiet == Spec => []HeldIsQuiet
<1>1. FrameInv => HeldIsQuiet
  BY DEF FrameInv, HandlersOK, HeldIsQuiet
<1> QED
  BY <1>1, FrameInvariance, PTL

\* The gate never gives up on this firmware, if the bound is two quanta or
\* more (ot-board.c:826-830, 926-934).
THEOREM GateOpens == Spec => []NeverAborts
<1>1. FrameInv => NeverAborts
  BY DEF FrameInv, HeldOK, NeverAborts
<1> QED
  BY <1>1, FrameInvariance, PTL

-----------------------------------------------------------------------------
(* The block loop *)

\* A dispatch that is due: the first of its block, or the next.
Due == \/ ctr = 0 /\ body = STATES
       \/ body \in 0 .. LAST - 1 /\ ctr = body + 1

OrderOK ==
  /\ body \in 0 .. STATES
  /\ frame = "arm" => body = STATES
  /\ pending # {} => body = STATES
  /\ state = "off" /\ intflags # {} => Due
  /\ state \in {"ack", "dispatch"} => Due
  /\ state \in {"transfer", "count"} => body = ctr
  /\ state = "close" => body = LAST

\* A step that leaves the handlers' bookkeeping alone.
LEMMA OrderKept ==
  ASSUME FrameInv, OrderOK,
         UNCHANGED <<body, ctr, state, intflags>>,
         pending' \subseteq pending,
         frame' # "arm" \/ frame = "arm"
  PROVE  OrderOK'
<1>1. pending' # {} => pending # {}
  OBVIOUS
<1> QED
  BY <1>1 DEF OrderOK, Due

LEMMA LastNat == LAST \in Nat /\ LAST >= 2 /\ STATES = LAST + 1
BY EdmaAssumption, FrameAssumption DEF LAST

LEMMA FrameOrder ==
  ASSUME FrameInv, OrderOK, FrameHandler
  PROVE  OrderOK' /\ [L!LoopNext]_(IF masked THEN body ELSE STATES + 1)
<1>1. CASE EnterFrame
  <2>1. /\ masked = FALSE /\ masked' = TRUE /\ body' = STATES
        /\ UNCHANGED <<intflags, pending, state, ctr>>
    BY <1>1 DEF EnterFrame, edmaVars, FrameInv, HandlersOK
  <2>2. intflags = {} /\ pending = {} /\ state = "off"
    BY <2>1 DEF FrameInv, HandlersOK
  <2>3. OrderOK'
    BY <2>1, <2>2, LastNat DEF OrderOK, Due
  <2>4. L!OpenBlock
    BY <2>1, LastNat DEF L!OpenBlock, L!idle, L!open
  <2> QED
    BY <2>3, <2>4 DEF L!LoopNext
<1>2. CASE Arm
  <2>1. /\ frame = "arm" /\ frame' = "block"
        /\ UNCHANGED <<body, ctr, state, intflags, masked>>
    BY <1>2 DEF Arm, FrameStep, WriteCsr, Start
  <2>2. body = STATES /\ state = "off" /\ intflags = {}
    BY <2>1 DEF OrderOK, FrameInv, HandlersOK
  <2>3. OrderOK'
    BY <2>1, <2>2 DEF OrderOK, Due
  <2> QED
    BY <2>1, <2>3
<1>3. CASE ClearCtr
  <2>1. /\ frame' = "rest" /\ state = "off" /\ intflags = {}
        /\ UNCHANGED <<body, state, intflags, pending, masked>>
    BY <1>3 DEF ClearCtr, FrameStep, FrameInv, HandlersOK
  <2>2. OrderOK'
    BY <2>1 DEF OrderOK
  <2> QED
    BY <2>1, <2>2
<1>4. CASE SetBlock \/ LeaveFrame
  <2>1. /\ frame' # "arm"
        /\ UNCHANGED <<body, ctr, state, intflags, pending, masked>>
    BY <1>4 DEF SetBlock, LeaveFrame, FrameStep, edmaVars
  <2> QED
    BY <2>1, OrderKept
<1> QED
  BY <1>1, <1>2, <1>3, <1>4 DEF FrameHandler

LEMMA StateOrder ==
  ASSUME FrameInv, OrderOK, StateHandler
  PROVE  OrderOK' /\ [L!LoopNext]_(IF masked THEN body ELSE STATES + 1)
<1>1. CASE EnterState
  <2>1. /\ state = "off" /\ state' = "ack" /\ lines # {}
        /\ UNCHANGED <<body, ctr, intflags, pending, frame, masked>>
    BY <1>1 DEF EnterState, StateStep, edmaVars
  <2>2. Due
    BY <2>1 DEF OrderOK, FrameInv, HandlersOK
  <2>3. OrderOK'
    BY <2>1, <2>2 DEF OrderOK, Due
  <2> QED
    BY <2>1, <2>3
<1>2. CASE AckState
  <2>1. /\ state = "ack" /\ state' = "dispatch" /\ pending' \subseteq pending
        /\ UNCHANGED <<body, ctr, frame, masked>>
    BY <1>2 DEF AckState, StateStep, WriteCint
  <2>2. pending' # {} => pending # {}
    BY <2>1
  <2>3. OrderOK'
    BY <2>1, <2>2 DEF OrderOK, Due
  <2> QED
    BY <2>1, <2>3
<1>3. CASE Dispatch
  <2>1. /\ state = "dispatch" /\ state' = (IF ctr < LAST THEN "transfer" ELSE "close")
        /\ body' = ctr /\ pending' \subseteq pending
        /\ UNCHANGED <<ctr, frame, masked>>
    BY <1>3 DEF Dispatch, StateStep, WriteCint, edmaVars
  <2>2. masked = TRUE /\ frame # "arm" /\ pending' = {} /\ ctr \in 0 .. LAST
    BY <2>1 DEF FrameInv, HandlersOK, CtrOK, FlagsOK
  <2>3. Due
    BY <2>1 DEF OrderOK
  <2>4. OrderOK'
    BY <2>1, <2>2, LastNat DEF OrderOK
  <2>5. CASE ctr = 0 /\ body = STATES
    BY <2>1, <2>2, <2>4, <2>5, LastNat DEF L!LoopNext, L!FirstState, L!open
  <2>6. CASE body \in 0 .. LAST - 1 /\ ctr = body + 1
    BY <2>1, <2>2, <2>4, <2>6, LastNat DEF L!LoopNext, L!NextState
  <2> QED
    BY <2>3, <2>5, <2>6 DEF Due
<1>4. CASE Transfer
  <2>1. /\ state = "transfer" /\ state' = "count" /\ pending' = pending
        /\ UNCHANGED <<body, ctr, frame, masked>>
    BY <1>4 DEF Transfer, StateStep, WriteSsrt, Start
  <2>2. OrderOK'
    BY <2>1 DEF OrderOK
  <2> QED
    BY <2>1, <2>2
<1>5. CASE SkipSum
  <2>1. /\ state = "transfer" /\ state' = "off" /\ body = LAST - 1
        /\ masked' = FALSE
        /\ UNCHANGED <<body, intflags, pending, frame>>
    BY <1>5 DEF SkipSum, StateStep
  <2>2. masked = TRUE /\ intflags = {}
    BY <2>1 DEF FrameInv, HandlersOK, FlagsOK
  <2>3. OrderOK'
    BY <2>1, <2>2 DEF OrderOK
  <2>4. L!CloseBlock
    BY <2>1, <2>2, LastNat DEF L!CloseBlock, L!idle
  <2> QED
    BY <2>3, <2>4 DEF L!LoopNext
<1>6. CASE CountState
  <2>1. /\ state = "count" /\ state' = "off" /\ ctr' = ctr + 1
        /\ UNCHANGED <<body, intflags, pending, frame, masked>>
    BY <1>6 DEF CountState, StateStep
  <2>2. ctr \in 0 .. LAST - 1 /\ body = ctr
    BY <2>1, LastNat DEF OrderOK, FrameInv, CtrOK
  <2>3. OrderOK'
    BY <2>1, <2>2 DEF OrderOK, Due
  <2> QED
    BY <2>1, <2>3
<1>7. CASE CloseBlock
  <2>1. /\ state = "close" /\ state' = "off" /\ masked' = FALSE
        /\ UNCHANGED <<body, intflags, pending, frame>>
    BY <1>7 DEF CloseBlock, StateStep, edmaVars
  <2>2. masked = TRUE /\ intflags = {} /\ body = LAST
    BY <2>1 DEF FrameInv, HandlersOK, FlagsOK, OrderOK
  <2>3. OrderOK'
    BY <2>1, <2>2 DEF OrderOK
  <2>4. L!CloseBlock
    BY <2>1, <2>2, LastNat DEF L!CloseBlock, L!idle
  <2> QED
    BY <2>3, <2>4 DEF L!LoopNext
<1> QED
  BY <1>1, <1>2, <1>3, <1>4, <1>5, <1>6, <1>7 DEF StateHandler

LEMMA OtherOrder ==
  ASSUME FrameInv, OrderOK, Idle \/ DspRequest \/ Poll \/ UNCHANGED vars
  PROVE  OrderOK' /\ UNCHANGED (IF masked THEN body ELSE STATES + 1)
<1>1. CASE Idle \/ DspRequest \/ UNCHANGED vars
  <2>1. UNCHANGED <<body, ctr, state, intflags, pending, frame, masked>>
    BY <1>1 DEF Idle, DspRequest, vars, cpuVars, edmaVars
  <2> QED
    BY <2>1, OrderKept
<1>2. CASE Poll
  <2>1. /\ pending # {} /\ UNCHANGED <<body, ctr, state, frame, masked>>
    BY <1>2 DEF Poll, GatePoll
  <2>2. CASE ctr # 0
    <3>1. UNCHANGED <<intflags, pending>>
      BY <1>2, <2>2 DEF Poll, GatePoll
    <3> QED
      BY <2>1, <3>1, OrderKept
  <2>3. CASE ctr = 0
    <3>1. pending' = {}
      BY <1>2, <2>3 DEF Poll, GatePoll, IrqFire
    <3>2. body = STATES
      BY <2>1 DEF OrderOK
    <3>3. OrderOK'
      BY <2>1, <2>3, <3>1, <3>2 DEF OrderOK, Due
    <3> QED
      BY <2>1, <3>3
  <2> QED
    BY <2>2, <2>3
<1> QED
  BY <1>1, <1>2

\* The two handlers implement the block loop: one pass over the states for
\* every frame interrupt, in order.
THEOREM BlocksInOrder == Spec => InOrder
<1>1. Init => OrderOK /\ L!LoopInit
  <2> SUFFICES ASSUME Init PROVE OrderOK /\ L!LoopInit
    OBVIOUS
  <2>1. body = STATES /\ intflags = {} /\ pending = {} /\ state = "off" /\ masked = FALSE
    BY DEF Init
  <2>2. OrderOK
    BY <2>1, LastNat DEF OrderOK
  <2>3. L!LoopInit
    BY <2>1, LastNat DEF L!LoopInit, L!idle
  <2> QED
    BY <2>2, <2>3
<1>2. FrameInv /\ OrderOK /\ [Next]_vars
      => OrderOK' /\ [L!LoopNext]_(IF masked THEN body ELSE STATES + 1)
  BY FrameOrder, StateOrder, OtherOrder DEF Next
<1> QED
  BY <1>1, <1>2, FrameInvariance, PTL DEF Spec, InOrder, L!Loop
=============================================================================
