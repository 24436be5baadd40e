---------------------------- MODULE FrontendProofs ----------------------------
(***************************************************************************)
(* Proofs about the frontend.                                              *)
(*                                                                         *)
(*   lifecycle  for any number of rounds of USB DISK MODE, and wherever it *)
(*              was when it ended: one that returns leaves neither QEMU    *)
(*              nor its directory nor the card behind                      *)
(*   input      for any keyboard, panel, bindings, queue and hands: a key  *)
(*              stays down that nobody holds for one of three slips only,  *)
(*              and a drag comes with the switch it was begun with         *)
(***************************************************************************)
EXTENDS Frontend, PanelInput, SequenceTheorems, TLAPS

-----------------------------------------------------------------------------
(* The lifecycle *)

\* QEMU has not been forked, or has been waited for.
Over == qemu \in {"none", "reaped"}

\* While the loop runs g.qemu is the child, and from the wait on there is none.
Child ==
  /\ fe \in {"setup", "listening", "forked"} => ~ g_qemu
  /\ fe \in {"setup", "listening"} => qemu = "none"
  /\ fe \in {"spawned", "loop", "usb"} => g_qemu
  /\ fe = "kill" /\ ~ g_qemu => Over
  /\ fe \in {"eject", "stop", "remove"} \/ how = "return" => Over

\* A frontend returns once, and a handler has not interrupted it.
Ended ==
  /\ how # "none" => fe = "gone"
  /\ how = "return" => handler = "none"

Directory == how = "return" => ~ dir /\ files = {}

\* A card on the host has a device to eject, unless something failed, and
\* after the cleanup's eject there is no device.
Card ==
  /\ host => usb_disk_dev \/ misfire
  /\ fe \in {"stop", "remove"} \/ how = "return" => ~ usb_disk_dev

Inv == Ended /\ Child /\ Directory /\ Card

-----------------------------------------------------------------------------
(* What most of the steps leave alone *)

\* A step in which the frontend stays where it is, QEMU does not start, and
\* neither the directory nor the card changes once it has returned.
Quiet ==
  /\ UNCHANGED <<fe, how, handler, g_qemu>>
  /\ qemu' = qemu \/ ~ Over
  /\ UNCHANGED <<dir, files>> \/ ~ Over
  /\ UNCHANGED <<usb_disk_dev, host, misfire>>

LEMMA QuietKeeps ==
  ASSUME Inv, Quiet
  PROVE  Inv'
  <1>1. Ended'
    BY DEF Inv, Ended, Quiet
  <1>2. Child'
    BY DEF Inv, Child, Quiet, Over
  <1>3. Directory'
    BY DEF Inv, Directory, Child, Quiet
  <1>4. Card'
    BY DEF Inv, Card, Quiet
  <1> QED
    BY <1>1, <1>2, <1>3, <1>4 DEF Inv

\* The threads of QEMU, of the guest, and the frontend's audio thread are quiet.
LEMMA OthersQuiet ==
  ASSUME AudioThread \/ AudioGivesUp \/ QemuRuns \/ QemuFails \/ ShimRuns \/ Stuck \/ Terminate
           \/ QemuDies \/ GuestEnters \/ GuestFlag \/ GuestRemounts \/ Board \/ UNCHANGED vars
  PROVE  Quiet
  <1> USE DEF Quiet, Over, feVars, dirVars, hostVars
  <1>1. CASE AudioThread \/ AudioGivesUp
    BY <1>1 DEF AudioThread, AudioGivesUp, AudioConnect, AudioHello, AudioHelloEof, AudioDone, Audio
  <1>2. CASE QemuRuns
    BY <1>2 DEF QemuRuns, ChildTerm, QemuStarts, QemuListens, Qemu
  <1>3. CASE QemuFails \/ Terminate \/ QemuDies
    BY <1>3 DEF QemuFails, Terminate, QemuDies, Qemu
  <1>4. CASE ShimRuns \/ Stuck
    BY <1>4 DEF ShimRuns, Stuck, Accept, Unstuck, ClientGone, OrphanExit, Qemu
  <1>5. CASE GuestEnters \/ GuestFlag \/ GuestRemounts
    BY <1>5 DEF GuestEnters, GuestFlag, GuestRemounts, GuestMoves
  <1>6. CASE Board
    BY <1>6 DEF Board, PollActive
  <1>7. CASE UNCHANGED vars
    BY <1>7 DEF vars
  <1> QED
    BY <1>1, <1>2, <1>3, <1>4, <1>5, <1>6, <1>7

-----------------------------------------------------------------------------
(* The frontend's own steps *)

\* The start, the loop and a death in between.
LEMMA RunKeeps ==
  ASSUME Inv, Startup \/ Die \/ PeerGone \/ Reap \/ UsbPoll \/ UsbEof \/ LoopEnds
  PROVE  Inv'
  <1> USE DEF Inv, Main, feVars, dirVars, hostVars
  <1>1. Ended' /\ Directory'
    <2>1. how = "none" /\ how' = how /\ handler' = handler
      BY DEF Ended, Startup, Die, PeerGone, Reap, UsbPoll, UsbEof, LoopEnds, PanelStart, Fork,
             Forked, AudioStart
    <2> QED
      BY <2>1 DEF Ended, Directory
  <1>2. Child'
    <2>1. CASE Startup
      BY <2>1 DEF Startup, PanelStart, Fork, Forked, AudioStart, Child, Ended, Over
    <2>2. CASE Die
      BY <2>2 DEF Die, Child, Ended, Over
    <2>3. CASE PeerGone \/ LoopEnds
      BY <2>3 DEF PeerGone, LoopEnds, Child, Ended, Over
    <2>4. CASE Reap
      BY <2>4 DEF Reap, Child, Ended, Over
    <2>5. CASE UsbPoll \/ UsbEof
      BY <2>5 DEF UsbPoll, UsbEof, Child, Ended, Over
    <2> QED
      BY <2>1, <2>2, <2>3, <2>4, <2>5
  <1>3. Card'
    <2>1. /\ UNCHANGED <<usb_disk_dev, host, misfire>>
          /\ fe' \notin {"stop", "remove"} /\ how' # "return"
      BY DEF Ended, Startup, Die, PeerGone, Reap, UsbPoll, UsbEof, LoopEnds, PanelStart, Fork,
             Forked, AudioStart
    <2> QED
      BY <2>1 DEF Card
  <1> QED
    BY <1>1, <1>2, <1>3

\* A line of the notify file.
LEMMA UsbLineKeeps ==
  ASSUME Inv, UsbLine
  PROVE  Inv'
  <1> USE DEF Inv, UsbLine, Main
  <1>1. Ended' /\ Directory'
    BY DEF Ended, Directory
  <1>2. Child'
    BY DEF Child, Over, Ended
  <1>3. Card'
    <2>1. how = "none" /\ fe' = "usb" /\ how' = how
      BY DEF Ended
    <2>2. host' => usb_disk_dev' \/ misfire'
      BY DEF Card
    <2> QED
      BY <2>1, <2>2 DEF Card
  <1> QED
    BY <1>1, <1>2, <1>3

\* cleanup()
LEMMA CleanupKeeps ==
  ASSUME Inv, Cleanup
  PROVE  Inv'
  <1> USE DEF Inv, Main, dirVars, hostVars
  <1>1. CASE CleanupKill \/ CleanupWait
    <2>1. Ended' /\ Directory'
      BY <1>1 DEF CleanupKill, CleanupWait, Ended, Directory
    <2>2. Child'
      BY <1>1 DEF CleanupKill, CleanupWait, Child, Ended, Over
    <2>3. Card'
      BY <1>1 DEF CleanupKill, CleanupWait, Card, Ended
    <2> QED
      BY <2>1, <2>2, <2>3
  <1>2. CASE CleanupEject
    <2>1. Ended' /\ Directory'
      BY <1>2 DEF CleanupEject, Ended, Directory
    <2>2. Child'
      BY <1>2 DEF CleanupEject, Child, Ended, Over
    <2>3. Card'
      BY <1>2 DEF CleanupEject, Card, Ended
    <2> QED
      BY <2>1, <2>2, <2>3
  <1>3. CASE CleanupStop
    <2>1. Ended' /\ Directory'
      BY <1>3 DEF CleanupStop, Ended, Directory
    <2>2. Child'
      BY <1>3 DEF CleanupStop, Child, Ended, Over
    <2>3. Card'
      BY <1>3 DEF CleanupStop, Card, Ended
    <2> QED
      BY <2>1, <2>2, <2>3
  <1>4. CASE CleanupRemove
    <2>1. Ended' /\ Directory'
      BY <1>4 DEF CleanupRemove, Ended, Directory
    <2>2. Child'
      BY <1>4 DEF CleanupRemove, Child, Ended, Over
    <2>3. Card'
      BY <1>4 DEF CleanupRemove, Card, Ended
    <2> QED
      BY <2>1, <2>2, <2>3
  <1> QED
    BY <1>1, <1>2, <1>3, <1>4 DEF Cleanup

\* A signal, and a crash.
LEMMA DeathKeeps ==
  ASSUME Inv, OnTerm \/ Signalled \/ Crash
  PROVE  Inv'
  <1> USE DEF Inv, dirVars, hostVars
  <1>1. how' # "return"
    BY DEF OnTerm, Signalled, OnTermUnlink, OnTermExit, Crash, Ended
  <1>2. Ended' /\ Directory'
    BY <1>1 DEF OnTerm, Signalled, OnTermUnlink, OnTermExit, Crash, Ended, Directory
  <1>3. Child'
    BY <1>1 DEF OnTerm, Signalled, OnTermUnlink, OnTermExit, Crash, Child, Over
  <1>4. Card'
    BY <1>1 DEF OnTerm, Signalled, OnTermUnlink, OnTermExit, Crash, Card
  <1> QED
    BY <1>2, <1>3, <1>4

-----------------------------------------------------------------------------
\* The invariant: g.qemu is the child for as long as there is one to wait for,
\* and the card on the host has a device (spawn_qemu(), cleanup(), usb_poll()).
THEOREM Invariance == Spec => []Inv
  <1>1. Init => Inv
    BY DEF Init, Inv, Ended, Child, Directory, Card
  <1>2. Inv /\ [Next]_vars => Inv'
    <2> SUFFICES ASSUME Inv, [Next]_vars
                 PROVE  Inv'
      OBVIOUS
    <2>1. CASE Startup \/ Die \/ PeerGone \/ Reap \/ UsbPoll \/ UsbEof \/ LoopEnds
      BY <2>1, RunKeeps
    <2>2. CASE UsbLine
      BY <2>2, UsbLineKeeps
    <2>3. CASE Cleanup
      BY <2>3, CleanupKeeps
    <2>4. CASE OnTerm \/ Signalled \/ Crash
      BY <2>4, DeathKeeps
    <2>5. CASE AudioThread \/ AudioGivesUp \/ QemuRuns \/ QemuFails \/ ShimRuns \/ Stuck \/ Terminate
                 \/ QemuDies \/ GuestEnters \/ GuestFlag \/ GuestRemounts \/ Board \/ UNCHANGED vars
      BY <2>5, OthersQuiet, QuietKeeps
    <2> QED
      BY <2>1, <2>2, <2>3, <2>4, <2>5 DEF Next, Loop
  <1> QED
    BY <1>1, <1>2, PTL DEF Spec

\* A frontend that returned leaves no QEMU, no run directory, and no card on
\* the host that it could eject, wherever in its life it ended (cleanup() and
\* remove_rundir() of main.c).
THEOREM LeavesNothing == Spec => []ReturnClean
  <1>1. Inv => ReturnClean
    BY DEF Inv, Child, Over, Directory, Card, ReturnClean
  <1> QED
    BY <1>1, Invariance, PTL

-----------------------------------------------------------------------------
(* The panel's input: what keeps a key down, and what will release it *)

Places == 1 .. Len(queue)
Down(i) == queue[i].what = "mouse" /\ queue[i].down
Up(i) == queue[i].what = "mouse" /\ ~ queue[i].down
UpAfter(i) == \E j \in Places : i < j /\ Up(j)

Dragging == btn # Nothing \/ enc # Nothing
Pressed == mouse # Nothing \/ click # Nothing

\* A press of a key that waits is followed by its release, now or later.
KeysOwed ==
  \A i \in Places : queue[i].what = "key" /\ queue[i].down =>
    queue[i].at \in fingers \/ \E j \in Places : i < j /\ queue[j] = Release(queue[i].at)

\* So is a press of the mouse button, and a gesture that has begun.
GesturesEnd ==
  /\ Dragging => Pressed \/ UpAfter(0)
  /\ \A i \in Places : Down(i) => Pressed \/ UpAfter(i)

\* What holds a key of the panel down.
Typed == TypedWith(ctrl, alt)
Caused == keys \subseteq Typed \union GestureHolds \union TapHolds \union slipped

InputInv == InputTypeOK /\ KeysOwed /\ GesturesEnd /\ Caused /\ DragAsMeant

-----------------------------------------------------------------------------
(* The queue after a step *)

LEMMA Popped ==
  ASSUME InputTypeOK, queue # <<>>, queue' = Tail(queue)
  PROVE  /\ queue' \in Seq(Events) /\ Len(queue) \in Nat /\ Len(queue) > 0 /\ Len(queue') = Len(queue) - 1
         /\ Head1 = queue[1] /\ Head1 \in Events
         /\ \A i \in Places' : i + 1 \in Places /\ queue'[i] = queue[i + 1]
         /\ \A i \in Places : i > 1 => i - 1 \in Places' /\ queue'[i - 1] = queue[i]
<1>1. queue \in Seq(Events) /\ Len(queue) \in Nat /\ Len(queue) > 0
  BY LenProperties, EmptySeq DEF InputTypeOK
<1>2. /\ queue' \in Seq(Events) /\ Len(queue') = Len(queue) - 1
      /\ \A i \in 1 .. Len(queue') : queue'[i] = queue[i + 1]
  BY <1>1, HeadTailProperties
<1>3. Head1 = queue[1] /\ Head1 \in Events
  BY <1>1, HeadTailProperties DEF Head1
<1>4. \A i \in Places' : i + 1 \in Places /\ queue'[i] = queue[i + 1]
  BY <1>1, <1>2 DEF Places
<1>5. ASSUME NEW i \in Places, i > 1 PROVE i - 1 \in Places' /\ queue'[i - 1] = queue[i]
  <2>1. i - 1 \in 1 .. Len(queue') /\ (i - 1) + 1 = i
    BY <1>1, <1>2, <1>5 DEF Places
  <2> QED
    BY <1>2, <2>1 DEF Places
<1> QED
  BY <1>1, <1>2, <1>3, <1>4, <1>5

LEMMA Grown ==
  ASSUME InputTypeOK, NEW e \in Events, Len(queue) < MAX_QUEUE, queue' = Append(queue, e)
  PROVE  /\ queue' \in Seq(Events) /\ Len(queue) \in Nat /\ Len(queue') = Len(queue) + 1
         /\ Len(queue') <= MAX_QUEUE
         /\ Places' = Places \union {Len(queue) + 1}
         /\ \A i \in Places : queue'[i] = queue[i] /\ i < Len(queue) + 1
         /\ queue'[Len(queue) + 1] = e
<1>1. queue \in Seq(Events) /\ Len(queue) \in Nat /\ MAX_QUEUE \in Nat
  BY LenProperties, InputAssumption DEF InputTypeOK
<1>2. /\ queue' \in Seq(Events) /\ Len(queue') = Len(queue) + 1
      /\ \A i \in 1 .. Len(queue) : queue'[i] = queue[i]
      /\ queue'[Len(queue) + 1] = e
  BY <1>1, AppendProperties
<1>3. Places' = Places \union {Len(queue) + 1}
  BY <1>1, <1>2 DEF Places
<1> QED
  BY <1>1, <1>2, <1>3 DEF Places

-----------------------------------------------------------------------------
(* Handling an event *)

LEMMA PopKeysOwed ==
  ASSUME InputInv, queue # <<>>, queue' = Tail(queue), UNCHANGED fingers
  PROVE  KeysOwed'
<1>1. /\ \A i \in Places' : i + 1 \in Places /\ queue'[i] = queue[i + 1]
      /\ \A i \in Places : i > 1 => i - 1 \in Places' /\ queue'[i - 1] = queue[i]
  BY Popped DEF InputInv
<1>2. SUFFICES ASSUME NEW i \in Places', queue'[i].what = "key", queue'[i].down, queue'[i].at \notin fingers'
               PROVE  \E j \in Places' : i < j /\ queue'[j] = Release(queue'[i].at)
  BY DEF KeysOwed, Release
<1>3. PICK j \in Places : i + 1 < j /\ queue[j] = Release(queue[i + 1].at)
  BY <1>1, <1>2 DEF InputInv, KeysOwed
<1>4. i \in Int /\ j \in Int /\ i > 0
  BY DEF Places
<1>5. j > 1 /\ i < j - 1
  BY <1>3, <1>4
<1>6. j - 1 \in Places' /\ queue'[j - 1] = queue[j] /\ queue'[i] = queue[i + 1]
  BY <1>1, <1>5
<1>7. queue'[j - 1] = Release(queue'[i].at)
  BY <1>3, <1>6
<1> QED
  BY <1>5, <1>6, <1>7

\* A gesture ends in spite of an event that is handled, and that may begin it.
LEMMA PopGestures ==
  ASSUME InputInv, queue # <<>>, queue' = Tail(queue), UNCHANGED <<mouse, click>>,
         \/ Head1.what # "mouse" /\ UNCHANGED <<btn, enc>>
         \/ Head1.what = "mouse" /\ Head1.down
         \/ btn' = Nothing /\ enc' = Nothing
  PROVE  GesturesEnd'
<1>1. /\ Head1 = queue[1] /\ 1 \in Places
      /\ \A i \in Places' : i \in Int /\ i > 0 /\ i + 1 \in Places /\ Down(i)' = Down(i + 1)
      /\ \A j \in Places : j \in Int /\ j > 0 /\ (Up(j) /\ j > 1 => j - 1 \in Places' /\ Up(j - 1)')
  <2>1. /\ \A i \in Places' : i + 1 \in Places /\ queue'[i] = queue[i + 1]
        /\ \A i \in Places : i > 1 => i - 1 \in Places' /\ queue'[i - 1] = queue[i]
        /\ Head1 = queue[1] /\ Len(queue) \in Nat /\ Len(queue) > 0
    BY Popped DEF InputInv
  <2>2. (\A i \in Places' : i \in Int /\ i > 0) /\ (\A i \in Places : i \in Int /\ i > 0) /\ 1 \in Places
    BY <2>1 DEF Places
  <2> QED
    BY <2>1, <2>2 DEF Down, Up
<1>2. ASSUME NEW i \in Places' \union {0}, UpAfter(i + 1) PROVE UpAfter(i)'
  <2>1. PICK j \in Places : i + 1 < j /\ Up(j)
    BY <1>2 DEF UpAfter
  <2>2. i \in Int /\ i >= 0 /\ j \in Int
    BY <1>1
  <2>3. j > 1 /\ i < j - 1
    BY <2>1, <2>2
  <2> QED
    BY <1>1, <2>1, <2>3 DEF UpAfter
<1>3. Pressed' <=> Pressed
  BY DEF Pressed
<1>4. ASSUME NEW i \in Places', Down(i)' PROVE Pressed' \/ UpAfter(i)'
  <2>1. i + 1 \in Places /\ Down(i + 1)
    BY <1>1, <1>4
  <2>2. Pressed \/ UpAfter(i + 1)
    BY <2>1 DEF InputInv, GesturesEnd
  <2> QED
    BY <1>2, <1>3, <2>2
<1>5. ASSUME Dragging' PROVE Pressed' \/ UpAfter(0)'
  <2>1. Down(1) \/ (Dragging /\ ~ Up(1))
    BY <1>1, <1>5 DEF Dragging, Down, Up
  <2>2. Pressed \/ UpAfter(1)
    <3>1. CASE Down(1)
      BY <1>1, <3>1 DEF InputInv, GesturesEnd
    <3>2. CASE Dragging /\ ~ Up(1)
      <4>1. Pressed \/ UpAfter(0)
        BY <3>2 DEF InputInv, GesturesEnd
      <4>2. UpAfter(0) => UpAfter(1)
        <5>1. \A j \in Places : Up(j) => j > 1
          <6> TAKE j \in Places
          <6>1. j \in Int /\ j > 0
            BY <1>1
          <6>2. j = 1 \/ j > 1
            BY <6>1
          <6> QED
            BY <3>2, <6>2
        <5> QED
          BY <5>1 DEF UpAfter
      <4> QED
        BY <4>1, <4>2
    <3> QED
      BY <2>1, <3>1, <3>2
  <2>3. UpAfter(1) => UpAfter(0)'
    <3>1. 0 + 1 = 1
      OBVIOUS
    <3> QED
      BY <1>2, <3>1
  <2> QED
    BY <1>3, <2>2, <2>3
<1> QED
  BY <1>4, <1>5 DEF GesturesEnd

\* A key of the keyboard that bears goes on doing so, unless the event was its
\* release.
LEMMA PopBearing ==
  ASSUME InputInv, queue # <<>>, queue' = Tail(queue), UNCHANGED fingers, NEW k \in Bearing
  PROVE  k \in Bearing' \/ Head1 = Release(k)
<1>1. CASE k \in fingers
  BY <1>1 DEF Bearing
<1>2. CASE k \in Keys /\ \E i \in Places : queue[i] = Release(k)
  <2>1. PICK i \in Places : queue[i] = Release(k)
    BY <1>2
  <2>2. CASE i = 1
    <3>1. Head1 = queue[1]
      BY Popped DEF InputInv
    <3> QED
      BY <2>1, <2>2, <3>1
  <2>3. CASE i # 1
    <3>1. i > 1
      BY <2>3 DEF Places
    <3>2. i - 1 \in Places' /\ queue'[i - 1] = Release(k)
      BY <2>1, <3>1, Popped DEF InputInv
    <3>3. \E n \in Places' : queue'[n] = Release(k)
      BY <3>2
    <3> QED
      BY <1>2, <3>3 DEF Bearing, Places, Release
  <2> QED
    BY <2>2, <2>3
<1> QED
  BY <1>1, <1>2 DEF Bearing, Places

\* An event that is not of the keyboard.
LEMMA OtherTyped ==
  ASSUME InputInv, queue # <<>>, queue' = Tail(queue), UNCHANGED <<fingers, ctrl, alt>>,
         Head1.what # "key"
  PROVE  Typed \subseteq Typed'
<1>1. Bearing \subseteq Bearing'
  BY PopBearing DEF Release
<1> QED
  BY <1>1 DEF Typed, TypedWith

LEMMA NothingUp == InputTypeOK => Nothing \notin keys
BY InputAssumption DEF InputTypeOK, PanelKeys, Switches

LEMMA SwitchesApart == \A k \in Knobs : Switch(k) \notin Buttons /\ Switch(k) # Nothing
BY InputAssumption

-----------------------------------------------------------------------------
(* The event loop *)

LEMMA KeyStep == InputInv /\ KeyEvent => (KeysOwed /\ GesturesEnd /\ Caused /\ DragAsMeant)'
<1> SUFFICES ASSUME InputInv, KeyEvent
             PROVE  (KeysOwed /\ GesturesEnd /\ Caused /\ DragAsMeant)'
  OBVIOUS
<1> DEFINE id == Found(Head1.at, ctrl, alt)
<1>1. /\ queue # <<>> /\ queue' = Tail(queue) /\ Head1.what = "key"
      /\ UNCHANGED <<fingers, ctrl, alt, mouse, click, btn, enc, push, tap>>
      /\ PanelKey(id, Head1.down) /\ Shares(id) /\ slipped' = slipped \intersect keys'
  BY DEF KeyEvent, Handle, handVars, uiVars, Slips
<1>2. KeysOwed' /\ GesturesEnd'
  BY <1>1, PopKeysOwed, PopGestures
<1>3. GestureHolds' = GestureHolds /\ TapHolds' = TapHolds
  BY <1>1 DEF GestureHolds, TapHolds
<1>4. Typed \ {id} \subseteq Typed'
  <2>1. \A k \in Bearing : Found(k, ctrl, alt) # id => k \in Bearing'
    BY <1>1, PopBearing DEF Release
  <2> QED
    BY <1>1, <2>1 DEF Typed, TypedWith
<1>5. ASSUME Head1.down PROVE Caused'
  <2>1. Head1.at \in Bearing'
    <3>1. Head1 = queue[1] /\ Head1 \in Events /\ 1 \in Places
      BY <1>1, Popped DEF InputInv, Places
    <3>2. CASE queue[1].at \in fingers
      BY <1>1, <3>1, <3>2 DEF Bearing
    <3>3. CASE \E j \in Places : 1 < j /\ queue[j] = Release(queue[1].at)
      <4>1. Head1.at \in Keys
        BY <1>1, <3>1 DEF Events
      <4>2. Head1.at \in Bearing
        BY <3>1, <3>3, <4>1 DEF Bearing, Places
      <4>3. Head1 # Release(Head1.at)
        BY <1>5 DEF Release
      <4> QED
        BY <1>1, <4>2, <4>3, PopBearing
    <3> QED
      BY <1>1, <1>5, <3>1, <3>2, <3>3 DEF InputInv, KeysOwed
  <2>2. id \in Typed'
    BY <1>1, <2>1 DEF Typed, TypedWith
  <2>3. keys' \subseteq keys \union {id}
    BY <1>1, <1>5 DEF PanelKey
  <2> QED
    BY <1>1, <1>3, <1>4, <2>2, <2>3 DEF InputInv, Caused
<1>6. ASSUME ~ Head1.down PROVE Caused'
  <2>1. keys' \subseteq keys \ {id}
    BY <1>1, <1>6, NothingUp DEF InputInv, PanelKey
  <2> QED
    BY <1>1, <1>3, <1>4, <2>1 DEF InputInv, Caused
<1>7. DragAsMeant'
  BY <1>1 DEF InputInv, DragAsMeant, PanelKey, Shares
<1> QED
  BY <1>2, <1>5, <1>6, <1>7

LEMMA WheelStep == InputInv /\ WheelEvent => (KeysOwed /\ GesturesEnd /\ Caused /\ DragAsMeant)'
<1> SUFFICES ASSUME InputInv, WheelEvent
             PROVE  (KeysOwed /\ GesturesEnd /\ Caused /\ DragAsMeant)'
  OBVIOUS
<1>1. /\ queue # <<>> /\ queue' = Tail(queue) /\ Head1.what = "wheel"
      /\ UNCHANGED <<fingers, ctrl, alt, mouse, click, btn, enc, push, tap>>
      /\ slipped' = slipped \intersect keys'
      /\ \E id : PanelKey(id, FALSE) /\ Shares(id)
  BY DEF WheelEvent, Handle, handVars, uiVars, Slips
<1>2. KeysOwed' /\ GesturesEnd'
  BY <1>1, PopKeysOwed, PopGestures
<1>3. GestureHolds' = GestureHolds /\ TapHolds' = TapHolds /\ keys' \subseteq keys
  BY <1>1 DEF GestureHolds, TapHolds, PanelKey
<1>4. Typed \subseteq Typed'
  BY <1>1, OtherTyped
<1>5. Caused'
  BY <1>1, <1>3, <1>4 DEF InputInv, Caused
<1>6. DragAsMeant'
  BY <1>1 DEF InputInv, DragAsMeant, PanelKey, Shares
<1> QED
  BY <1>2, <1>5, <1>6

LEMMA MoveStep == InputInv /\ MoveEvent => (KeysOwed /\ GesturesEnd /\ Caused /\ DragAsMeant)'
<1> SUFFICES ASSUME InputInv, MoveEvent
             PROVE  (KeysOwed /\ GesturesEnd /\ Caused /\ DragAsMeant)'
  OBVIOUS
<1>1. /\ queue # <<>> /\ queue' = Tail(queue) /\ Head1.what = "move"
      /\ UNCHANGED <<fingers, ctrl, alt, mouse, click, btn, enc, push, tap, keys, shared, slipped>>
  BY DEF MoveEvent, Handle, handVars
<1>2. KeysOwed' /\ GesturesEnd'
  BY <1>1, PopKeysOwed, PopGestures
<1>3. GestureHolds' = GestureHolds /\ TapHolds' = TapHolds
  BY <1>1 DEF GestureHolds, TapHolds
<1>4. Typed \subseteq Typed'
  BY <1>1, OtherTyped
<1>5. Caused' /\ DragAsMeant'
  BY <1>1, <1>3, <1>4 DEF InputInv, Caused, DragAsMeant
<1> QED
  BY <1>2, <1>5

\* Before the first event of a scripted click there is none.
LEMMA LonelyTyped ==
  ASSUME queue = <<>>, UNCHANGED <<fingers, ctrl, alt>>
  PROVE  Typed \subseteq Typed'
<1>1. Bearing \subseteq Bearing'
  BY DEF Bearing
<1> QED
  BY <1>1 DEF Typed, TypedWith

\* What a press leaves behind it holds down itself, or it is a slip.
LEMMA MouseDownStep ==
  ASSUME InputInv, MouseEvent, Head1.down, MouseDown(Head1.at, ctrl), Slips(GestureHolds \ GestureHolds'),
         UNCHANGED tap
  PROVE  (KeysOwed /\ GesturesEnd /\ Caused /\ DragAsMeant)'
<1> DEFINE t == Head1.at
<1>1. /\ queue # <<>> /\ queue' = Tail(queue) /\ Head1.what = "mouse"
      /\ UNCHANGED <<fingers, ctrl, alt, mouse, click>>
  BY DEF MouseEvent, Handle, handVars
<1>2. KeysOwed' /\ GesturesEnd'
  BY <1>1, PopKeysOwed, PopGestures
<1>3. TapHolds' = TapHolds /\ Typed \subseteq Typed'
  BY <1>1, OtherTyped DEF TapHolds
<1>4. slipped' = (slipped \union (GestureHolds \ GestureHolds')) \intersect keys'
  BY DEF Slips
<1>5. CASE t \in Buttons /\ btn' = t /\ PanelKey(t, TRUE) /\ UNCHANGED <<enc, push, turned, shared>>
  <2>1. t # Nothing /\ keys' = keys \union {t}
    BY <1>5, InputAssumption DEF PanelKey
  <2>2. t \in GestureHolds'
    BY <1>5, <2>1 DEF GestureHolds
  <2>3. Caused'
    BY <1>3, <1>4, <2>1, <2>2 DEF InputInv, Caused
  <2>4. DragAsMeant'
    BY <1>5, <2>1, SwitchesApart DEF InputInv, DragAsMeant
  <2> QED
    BY <1>2, <2>3, <2>4
<1>6. CASE /\ t \in Knobs \union {Pot} /\ enc' = t
           /\ push' = (ctrl /\ t # Pot)
           /\ PanelKey(IF push' THEN Switch(t) ELSE Nothing, TRUE)
           /\ shared' = (t \in Knobs /\ Switch(t) \in keys)
           /\ UNCHANGED btn
  <2>1. keys' = keys \union (IF enc' \in Knobs /\ push' THEN {Switch(enc')} ELSE {})
    <3>1. CASE push'
      BY <1>6, <3>1, SwitchesApart DEF PanelKey
    <3>2. CASE ~ push'
      BY <1>6, <3>2 DEF PanelKey
    <3> QED
      BY <3>1, <3>2
  <2>2. keys' \subseteq keys \union GestureHolds'
    BY <2>1 DEF GestureHolds
  <2>3. Caused'
    BY <1>3, <1>4, <2>2 DEF InputInv, Caused
  <2>4. DragAsMeant'
    BY <1>6, <2>1 DEF DragAsMeant
  <2> QED
    BY <1>2, <2>3, <2>4
<1> QED
  BY <1>5, <1>6 DEF MouseDown

LEMMA MouseUpStep ==
  ASSUME InputInv, MouseEvent, ~ Head1.down, MouseUp
  PROVE  (KeysOwed /\ GesturesEnd /\ Caused /\ DragAsMeant)'
<1> DEFINE tapped == enc \in Knobs /\ ~ push /\ ~ turned
           released == {btn} \union (IF enc \in Knobs /\ push THEN {Switch(enc)} ELSE {})
<1>1. /\ queue # <<>> /\ queue' = Tail(queue) /\ Head1.what = "mouse"
      /\ UNCHANGED <<fingers, ctrl, alt, mouse, click>>
  BY DEF MouseEvent, Handle, handVars
<1>2. /\ btn' = Nothing /\ enc' = Nothing
      /\ keys' = (keys \ released) \union (IF tapped THEN {Switch(enc)} ELSE {})
      /\ tap' = (IF tapped THEN enc ELSE tap)
      /\ slipped' = (slipped \union (TapHolds \ TapHolds')) \intersect keys'
  BY DEF MouseUp, Slips
<1>3. KeysOwed' /\ GesturesEnd'
  BY <1>1, <1>2, PopKeysOwed, PopGestures
<1>4. Typed \subseteq Typed'
  BY <1>1, OtherTyped
<1>5. GestureHolds \subseteq released
  BY DEF GestureHolds
<1>6. tapped => Switch(enc) \in TapHolds'
  BY <1>2, InputAssumption DEF TapHolds
<1>7. Caused'
  BY <1>2, <1>4, <1>5, <1>6 DEF InputInv, Caused
<1>8. DragAsMeant'
  BY <1>2, InputAssumption DEF DragAsMeant
<1> QED
  BY <1>3, <1>7, <1>8

LEMMA TickStep == InputInv /\ (TickTap \/ TickClick) => (KeysOwed /\ GesturesEnd /\ Caused /\ DragAsMeant)'
<1>1. ASSUME InputInv, TickTap PROVE (KeysOwed /\ GesturesEnd /\ Caused /\ DragAsMeant)'
  <2>1. /\ UNCHANGED <<fingers, ctrl, alt, mouse, click, btn, enc, push, queue>>
        /\ tap # Nothing /\ tap' = Nothing
        /\ PanelKey(Switch(tap), FALSE) /\ Shares(Switch(tap))
        /\ slipped' = slipped \intersect keys'
    BY <1>1 DEF TickTap, handVars, uiVars, Slips
  <2>2. KeysOwed' /\ GesturesEnd'
    BY <1>1, <2>1 DEF InputInv, KeysOwed, Release, GesturesEnd, Places, Down, Up, UpAfter, Dragging, Pressed
  <2>3. Typed' = Typed /\ GestureHolds' = GestureHolds
    BY <2>1 DEF Typed, TypedWith, Bearing, Release, GestureHolds
  <2>4. tap \in Knobs
    BY <1>1, <2>1 DEF InputInv, InputTypeOK
  <2>5. keys' = keys \ TapHolds
    BY <2>1, <2>4, SwitchesApart DEF PanelKey, TapHolds
  <2>6. Caused'
    BY <1>1, <2>1, <2>3, <2>5 DEF InputInv, Caused
  <2>7. DragAsMeant'
    BY <1>1, <2>1 DEF InputInv, DragAsMeant, PanelKey, Shares
  <2> QED
    BY <2>2, <2>6, <2>7
<1>2. ASSUME InputInv, TickClick PROVE (KeysOwed /\ GesturesEnd /\ Caused /\ DragAsMeant)'
  <2>1. /\ UNCHANGED <<fingers, ctrl, alt, mouse, btn, enc, push, tap, keys, shared, slipped>>
        /\ queue = <<>> /\ queue' = <<[what |-> "mouse", at |-> click, down |-> FALSE]>>
    BY <1>2 DEF TickClick, handVars, uiVars
  <2>2. Places' = {1} /\ ~ Down(1)' /\ Up(1)'
    BY <2>1 DEF Places, Down, Up
  <2>3. KeysOwed'
    BY <2>1, <2>2 DEF KeysOwed
  <2>4. GesturesEnd'
    BY <2>2 DEF GesturesEnd, UpAfter
  <2>5. Typed \subseteq Typed' /\ GestureHolds' = GestureHolds /\ TapHolds' = TapHolds
    BY <2>1, LonelyTyped DEF GestureHolds, TapHolds
  <2> QED
    BY <1>2, <2>1, <2>3, <2>4, <2>5 DEF InputInv, Caused, DragAsMeant
<1> QED
  BY <1>1, <1>2

LEMMA ScriptStep == InputInv /\ Script => (KeysOwed /\ GesturesEnd /\ Caused /\ DragAsMeant)'
<1>1. ASSUME InputInv, NEW t \in Hits, ScriptClick(t)
      PROVE  (KeysOwed /\ GesturesEnd /\ Caused /\ DragAsMeant)'
  <2>1. /\ UNCHANGED <<fingers, ctrl, alt, mouse, btn, enc, push, tap, keys, shared, slipped>>
        /\ queue = <<>> /\ queue' = <<[what |-> "mouse", at |-> t, down |-> TRUE]>> /\ click' = t
    BY <1>1 DEF ScriptClick, handVars, uiVars
  <2>2. Places' = {1} /\ queue'[1].what = "mouse"
    BY <2>1 DEF Places
  <2>3. KeysOwed'
    BY <2>2 DEF KeysOwed
  <2>4. Pressed'
    BY <2>1, InputAssumption DEF Pressed, Hits
  <2>5. GesturesEnd'
    BY <2>4 DEF GesturesEnd
  <2>6. Typed \subseteq Typed' /\ GestureHolds' = GestureHolds /\ TapHolds' = TapHolds
    BY <2>1, LonelyTyped DEF GestureHolds, TapHolds
  <2> QED
    BY <1>1, <2>1, <2>3, <2>5, <2>6 DEF InputInv, Caused, DragAsMeant
<1>2. ASSUME InputInv, NEW t \in Knobs, NEW withPush \in BOOLEAN, NEW detents \in BOOLEAN,
             ScriptDrag(t, withPush, detents)
      PROVE  (KeysOwed /\ GesturesEnd /\ Caused /\ DragAsMeant)'
  <2> DEFINE tapped == ~ withPush /\ ~ detents
  <2>1. /\ UNCHANGED <<fingers, ctrl, alt, mouse, click, queue>>
        /\ btn' = Nothing /\ enc' = Nothing
        /\ keys' \subseteq keys \union (IF tapped THEN {Switch(t)} ELSE {})
        /\ tap' = (IF tapped THEN t ELSE tap)
        /\ slipped' = (slipped \union ((GestureHolds \union TapHolds) \ TapHolds')) \intersect keys'
    BY <1>2 DEF ScriptDrag, handVars, Slips
  <2>2. KeysOwed' /\ GesturesEnd'
    BY <1>2, <2>1 DEF InputInv, KeysOwed, Release, GesturesEnd, Places, Down, Up, UpAfter, Dragging, Pressed
  <2>3. Typed' = Typed
    BY <2>1 DEF Typed, TypedWith, Bearing, Release
  <2>4. tapped => Switch(t) \in TapHolds'
    BY <2>1, InputAssumption DEF TapHolds
  <2>5. Caused'
    BY <1>2, <2>1, <2>3, <2>4 DEF InputInv, Caused
  <2>6. DragAsMeant'
    BY <2>1, InputAssumption DEF DragAsMeant
  <2> QED
    BY <2>2, <2>5, <2>6
<1> QED
  BY <1>1, <1>2 DEF Script

-----------------------------------------------------------------------------
(* The hands *)

LEMMA PumpShift ==
  ASSUME InputInv, NEW e \in Events, Len(queue) < MAX_QUEUE, queue' = Append(queue, e),
         NEW n, n = Len(queue) + 1
  PROVE  /\ n \in Int /\ n > 0 /\ n \in Places' /\ queue'[n] = e
         /\ \A i \in Places' : i \in Places \/ i = n
         /\ \A i \in Places : /\ i \in Int /\ i > 0 /\ i \in Places' /\ i < n
                             /\ queue'[i] = queue[i]
                             /\ Down(i)' = Down(i) /\ Up(i)' = Up(i)
<1>1. /\ Len(queue) \in Nat /\ queue'[n] = e
      /\ Places' = Places \union {n}
      /\ \A i \in Places : queue'[i] = queue[i] /\ i < n
  BY Grown DEF InputInv
<1>2. \A i \in Places : i \in Int /\ i > 0
  BY DEF Places
<1>3. \A i \in Places : Down(i)' = Down(i) /\ Up(i)' = Up(i)
  BY <1>1 DEF Down, Up
<1> QED
  BY <1>1, <1>2, <1>3

LEMMA PumpGestures ==
  ASSUME InputInv, NEW e \in Events, Len(queue) < MAX_QUEUE, queue' = Append(queue, e),
         NEW n, n = Len(queue) + 1,
         UNCHANGED <<click, btn, enc>>,
         \/ e.what # "mouse" /\ UNCHANGED mouse
         \/ e.what = "mouse" /\ e.down /\ mouse' # Nothing
         \/ e.what = "mouse" /\ ~ e.down
  PROVE  GesturesEnd'
<1>1. Dragging' <=> Dragging
  BY DEF Dragging
<1>2. CASE e.what = "mouse" /\ ~ e.down
  <2>1. Up(n)' /\ ~ Down(n)'
    BY <1>2, PumpShift DEF Up, Down
  <2>2. \A i \in Places \union {0} : UpAfter(i)'
    BY <2>1, PumpShift DEF UpAfter
  <2> QED
    BY <2>1, <2>2, PumpShift DEF GesturesEnd
<1>3. CASE e.what # "mouse" \/ e.down
  <2>1. Pressed => Pressed'
    BY <1>3 DEF Pressed
  <2>2. Down(n)' => Pressed'
    BY <1>3, PumpShift DEF Down, Pressed
  <2>3. \A i \in Places \union {0} : UpAfter(i) => UpAfter(i)'
    BY PumpShift DEF UpAfter
  <2>4. Dragging' => Pressed' \/ UpAfter(0)'
    BY <1>1, <2>1, <2>3 DEF InputInv, GesturesEnd
  <2>5. ASSUME NEW i \in Places', Down(i)' PROVE Pressed' \/ UpAfter(i)'
    BY <2>1, <2>2, <2>3, <2>5, PumpShift DEF InputInv, GesturesEnd
  <2> QED
    BY <2>4, <2>5 DEF GesturesEnd
<1> QED
  BY <1>2, <1>3

LEMMA PumpKeysOwed ==
  ASSUME InputInv, NEW e \in Events, Len(queue) < MAX_QUEUE, queue' = Append(queue, e),
         NEW n, n = Len(queue) + 1,
         \A k \in fingers : k \in fingers' \/ e = Release(k),
         e.what = "key" /\ e.down => e.at \in fingers'
  PROVE  KeysOwed'
<1> SUFFICES ASSUME NEW i \in Places', queue'[i].what = "key", queue'[i].down, queue'[i].at \notin fingers'
             PROVE  \E j \in Places' : i < j /\ queue'[j] = Release(queue'[i].at)
  BY DEF KeysOwed, Release
<1>1. i \in Places /\ queue'[i] = queue[i]
  BY PumpShift
<1>2. CASE queue[i].at \in fingers
  BY <1>1, <1>2, PumpShift
<1>3. CASE \E j \in Places : i < j /\ queue[j] = Release(queue[i].at)
  BY <1>1, <1>3, PumpShift
<1> QED
  BY <1>1, <1>2, <1>3 DEF InputInv, KeysOwed

LEMMA PumpTyped ==
  ASSUME InputInv, NEW e \in Events, Len(queue) < MAX_QUEUE, queue' = Append(queue, e),
         NEW n, n = Len(queue) + 1,
         UNCHANGED <<ctrl, alt>>,
         \A k \in fingers : k \in fingers' \/ e = Release(k)
  PROVE  Typed \subseteq Typed'
<1>1. ASSUME NEW k \in Bearing PROVE k \in Bearing'
  <2>1. CASE k \in fingers'
    BY <2>1 DEF Bearing
  <2>2. CASE k \in fingers /\ e = Release(k)
    <3>1. k \in Keys /\ \E i \in Places' : queue'[i] = Release(k)
      BY <2>2, PumpShift DEF InputInv, InputTypeOK
    <3> QED
      BY <3>1 DEF Bearing, Places, Release
  <2>3. CASE k \in Keys /\ \E i \in Places : queue[i] = Release(k)
    <3>1. \E i \in Places' : queue'[i] = Release(k)
      BY <2>3, PumpShift
    <3> QED
      BY <2>3, <3>1 DEF Bearing, Places, Release
  <2> QED
    BY <1>1, <2>1, <2>2, <2>3 DEF Bearing, Places
<1> QED
  BY <1>1 DEF Typed, TypedWith

\* What a hand does reaches the program as an event.
LEMMA PumpStep ==
  ASSUME InputInv, NEW what, NEW at, NEW down, Pumped(what, at, down),
         [what |-> what, at |-> at, down |-> down] \in Events,
         UNCHANGED <<ctrl, alt>>,
         \A k \in fingers : k \in fingers' \/ [what |-> what, at |-> at, down |-> down] = Release(k),
         what = "key" /\ down => at \in fingers',
         \/ what # "mouse" /\ UNCHANGED mouse
         \/ what = "mouse" /\ down /\ mouse' # Nothing
         \/ what = "mouse" /\ ~ down
  PROVE  (KeysOwed /\ GesturesEnd /\ Caused /\ DragAsMeant)'
<1> DEFINE e == [what |-> what, at |-> at, down |-> down]
           n == Len(queue) + 1
<1>1. /\ Len(queue) < MAX_QUEUE /\ queue' = Append(queue, e)
      /\ UNCHANGED <<btn, enc, push, tap, click, keys, shared, slipped>>
  BY DEF Pumped, uiVars
<1>2. KeysOwed'
  BY <1>1, PumpKeysOwed
<1>3. GesturesEnd'
  BY <1>1, PumpGestures
<1>4. Typed \subseteq Typed'
  BY <1>1, PumpTyped
<1>5. GestureHolds' = GestureHolds /\ TapHolds' = TapHolds
  BY <1>1 DEF GestureHolds, TapHolds
<1> QED
  BY <1>1, <1>2, <1>3, <1>4, <1>5 DEF InputInv, Caused, DragAsMeant

\* A change of the modifiers loses the keys that are not found any more.
LEMMA ModifierStep == InputInv /\ Modifier => (KeysOwed /\ GesturesEnd /\ Caused /\ DragAsMeant)'
<1> SUFFICES ASSUME InputInv, Modifier
             PROVE  (KeysOwed /\ GesturesEnd /\ Caused /\ DragAsMeant)'
  OBVIOUS
<1>1. /\ UNCHANGED <<fingers, mouse, queue, btn, enc, push, tap, click, keys, shared>>
      /\ slipped' = (slipped \union (TypedWith(ctrl, alt) \ TypedWith(ctrl', alt'))) \intersect keys'
  BY DEF Modifier, uiVars, Slips
<1>2. KeysOwed' /\ GesturesEnd'
  BY <1>1 DEF InputInv, KeysOwed, Release, GesturesEnd, Places, Down, Up, UpAfter, Dragging, Pressed
<1>3. Typed' = TypedWith(ctrl', alt') /\ GestureHolds' = GestureHolds /\ TapHolds' = TapHolds
  BY <1>1 DEF Typed, TypedWith, Bearing, Release, GestureHolds, TapHolds
<1>4. Caused'
  BY <1>1, <1>3 DEF InputInv, Caused, Typed
<1>5. DragAsMeant'
  BY <1>1 DEF InputInv, DragAsMeant
<1> QED
  BY <1>2, <1>4, <1>5

LEMMA HandStep == InputInv /\ Hands => (KeysOwed /\ GesturesEnd /\ Caused /\ DragAsMeant)'
<1> SUFFICES ASSUME InputInv, Hands
             PROVE  (KeysOwed /\ GesturesEnd /\ Caused /\ DragAsMeant)'
  OBVIOUS
<1>1. ASSUME NEW k \in Keys, PressKey(k) PROVE (KeysOwed /\ GesturesEnd /\ Caused /\ DragAsMeant)'
  BY <1>1, PumpStep DEF PressKey, Events
<1>2. ASSUME NEW k \in Keys, ReleaseKey(k) PROVE (KeysOwed /\ GesturesEnd /\ Caused /\ DragAsMeant)'
  BY <1>2, PumpStep DEF ReleaseKey, Events, Release
<1>3. ASSUME NEW t \in Hits, MousePress(t) PROVE (KeysOwed /\ GesturesEnd /\ Caused /\ DragAsMeant)'
  BY <1>3, PumpStep, InputAssumption DEF MousePress, Events, Hits
<1>4. CASE MouseRelease
  BY <1>4, PumpStep DEF MouseRelease, Events, InputInv, InputTypeOK
<1>5. CASE MouseMove
  BY <1>5, PumpStep DEF MouseMove, Events, InputInv, InputTypeOK, handVars
<1>6. ASSUME NEW t \in Knobs \union {Pot, Nothing}, Wheel(t) PROVE (KeysOwed /\ GesturesEnd /\ Caused /\ DragAsMeant)'
  BY <1>6, PumpStep DEF Wheel, Events, Hits, handVars
<1> QED
  BY <1>1, <1>2, <1>3, <1>4, <1>5, <1>6, ModifierStep DEF Hands

-----------------------------------------------------------------------------
(* The invariant *)

LEMMA HandTyped == InputTypeOK /\ Hands => InputTypeOK'
<1> SUFFICES ASSUME InputTypeOK, Hands
             PROVE  InputTypeOK'
  OBVIOUS
<1> USE DEF InputTypeOK
<1>1. ASSUME NEW what, NEW at, NEW down, Pumped(what, at, down),
             [what |-> what, at |-> at, down |-> down] \in Events,
             fingers' \subseteq Keys, mouse' \in Hits \union {Nothing}, UNCHANGED <<ctrl, alt>>
      PROVE  InputTypeOK'
  <2>1. queue' \in Seq(Events) /\ Len(queue') <= MAX_QUEUE
    BY <1>1, Grown DEF Pumped
  <2> QED
    BY <1>1, <2>1 DEF Pumped, uiVars
<1>2. ASSUME NEW k \in Keys, PressKey(k) \/ ReleaseKey(k) PROVE InputTypeOK'
  BY <1>1, <1>2 DEF PressKey, ReleaseKey, Events
<1>3. ASSUME NEW t \in Hits, MousePress(t) PROVE InputTypeOK'
  BY <1>1, <1>3 DEF MousePress, Events
<1>4. CASE MouseRelease
  BY <1>1, <1>4 DEF MouseRelease, Events
<1>5. CASE MouseMove
  BY <1>1, <1>5 DEF MouseMove, Events, handVars
<1>6. ASSUME NEW t \in Knobs \union {Pot, Nothing}, Wheel(t) PROVE InputTypeOK'
  BY <1>1, <1>6 DEF Wheel, Events, Hits, handVars
<1>7. CASE Modifier
  BY <1>7 DEF Modifier, uiVars, Slips
<1> QED
  BY <1>2, <1>3, <1>4, <1>5, <1>6, <1>7 DEF Hands

LEMMA LoopTyped == InputTypeOK /\ InputLoop => InputTypeOK'
<1> SUFFICES ASSUME InputTypeOK, InputLoop
             PROVE  InputTypeOK'
  OBVIOUS
<1> USE DEF InputTypeOK
<1>1. ASSUME queue # <<>>, queue' = Tail(queue)
      PROVE  queue' \in Seq(Events) /\ Len(queue') <= MAX_QUEUE /\ Head1 \in Events
  BY <1>1, Popped, InputAssumption
<1>2. CASE KeyEvent
  <2>1. Head1.at \in Keys
    BY <1>1, <1>2 DEF KeyEvent, Handle, Events
  <2>2. ctrl \in BOOLEAN /\ Found(Head1.at, ctrl, alt) \in PanelKeys \union {Nothing}
    BY <2>1 DEF Found, PanelKeys
  <2>3. keys' \subseteq PanelKeys /\ slipped' \subseteq keys'
    BY <1>2, <2>2 DEF KeyEvent, PanelKey, Slips
  <2>4. shared' \in BOOLEAN
    BY <1>2 DEF KeyEvent, Shares
  <2> QED
    BY <1>1, <1>2, <2>3, <2>4 DEF KeyEvent, Handle, handVars, uiVars
<1>3. CASE WheelEvent
  <2>1. keys' \subseteq PanelKeys /\ slipped' \subseteq keys'
    BY <1>3 DEF WheelEvent, PanelKey, Slips
  <2>2. shared' \in BOOLEAN
    BY <1>3 DEF WheelEvent, Shares
  <2> QED
    BY <1>1, <1>3, <2>1, <2>2 DEF WheelEvent, Handle, handVars, uiVars
<1>4. CASE /\ Handle("mouse") /\ Head1.down /\ MouseDown(Head1.at, ctrl)
           /\ Slips(GestureHolds \ GestureHolds') /\ UNCHANGED <<tap, active_enc>>
  <2>1. /\ btn' \in Buttons \union {Nothing} /\ enc' \in Knobs \union {Pot, Nothing}
        /\ push' \in BOOLEAN /\ turned' \in BOOLEAN /\ shared' \in BOOLEAN
    BY <1>4 DEF MouseDown
  <2>2. keys' \subseteq PanelKeys
    <3>1. ASSUME NEW id, PanelKey(id, TRUE), id \in Buttons \union Switches \union {Nothing}
          PROVE  keys' \subseteq PanelKeys
      BY <3>1 DEF PanelKey, PanelKeys
    <3>2. CASE Head1.at \in Buttons /\ PanelKey(Head1.at, TRUE)
      BY <3>1, <3>2
    <3>3. CASE /\ Head1.at \in Knobs \union {Pot} /\ push' = (ctrl /\ Head1.at # Pot)
               /\ PanelKey(IF push' THEN Switch(Head1.at) ELSE Nothing, TRUE)
      <4>1. push' => Switch(Head1.at) \in Switches
        BY <3>3 DEF Switches
      <4> QED
        BY <3>1, <3>3, <4>1
    <3> QED
      BY <1>4, <3>2, <3>3 DEF MouseDown
  <2>3. slipped' \subseteq keys'
    BY <1>4 DEF Slips
  <2> QED
    BY <1>1, <1>4, <2>1, <2>2, <2>3 DEF Handle, handVars
<1>5. CASE Handle("mouse") /\ MouseUp /\ UNCHANGED active_enc
  <2>1. keys' \subseteq PanelKeys /\ tap' \in Knobs \union {Nothing} /\ slipped' \subseteq keys'
    BY <1>5 DEF MouseUp, PanelKeys, Switches, Slips
  <2> QED
    BY <1>1, <1>5, <2>1 DEF Handle, handVars, MouseUp
<1>6. CASE MoveEvent
  BY <1>1, <1>6 DEF MoveEvent, Handle, handVars
<1>7. CASE TickTap
  <2>1. keys' \subseteq PanelKeys /\ slipped' \subseteq keys'
    BY <1>7 DEF TickTap, PanelKey, Slips
  <2>2. shared' \in BOOLEAN
    BY <1>7 DEF TickTap, Shares
  <2> QED
    BY <1>7, <2>1, <2>2 DEF TickTap, handVars, uiVars
<1>8. CASE TickClick
  <2>1. [what |-> "mouse", at |-> click, down |-> FALSE] \in Events
    BY DEF Events
  <2>2. queue' \in Seq(Events) /\ Len(queue') <= MAX_QUEUE
    BY <1>8, <2>1, InputAssumption DEF TickClick
  <2> QED
    BY <1>8, <2>2 DEF TickClick, handVars, uiVars
<1> QED
  BY <1>2, <1>3, <1>4, <1>5, <1>6, <1>7, <1>8 DEF InputLoop, MouseEvent

LEMMA ScriptTyped == InputTypeOK /\ Script => InputTypeOK'
<1> SUFFICES ASSUME InputTypeOK, Script
             PROVE  InputTypeOK'
  OBVIOUS
<1> USE DEF InputTypeOK
<1>1. ASSUME NEW t \in Hits, ScriptClick(t) PROVE InputTypeOK'
  <2>1. [what |-> "mouse", at |-> t, down |-> TRUE] \in Events
    BY DEF Events
  <2>2. queue' \in Seq(Events) /\ Len(queue') <= MAX_QUEUE
    BY <1>1, <2>1, InputAssumption DEF ScriptClick
  <2> QED
    BY <1>1, <2>2 DEF ScriptClick, handVars, uiVars
<1>2. ASSUME NEW t \in Knobs, NEW withPush \in BOOLEAN, NEW detents \in BOOLEAN,
             ScriptDrag(t, withPush, detents)
      PROVE  InputTypeOK'
  <2>1. keys' \subseteq PanelKeys /\ tap' \in Knobs \union {Nothing} /\ slipped' \subseteq keys'
    BY <1>2 DEF ScriptDrag, PanelKeys, Switches, Slips
  <2> QED
    BY <1>2, <2>1 DEF ScriptDrag, handVars
<1> QED
  BY <1>1, <1>2 DEF Script

LEMMA InputInvariance == InputSpec => []InputInv
<1>1. InputInit => InputInv
  <2> SUFFICES ASSUME InputInit
               PROVE  InputInv
    OBVIOUS
  <2>1. InputTypeOK
    <3>1. queue \in Seq(Events) /\ Len(queue) <= MAX_QUEUE
      BY EmptySeq, InputAssumption DEF InputInit
    <3>2. {ctrl, alt, push, turned, shared} \subseteq BOOLEAN
      BY Zenon DEF InputInit
    <3> QED
      BY <3>1, <3>2 DEF InputInit, InputTypeOK
  <2>2. Places = {}
    BY EmptySeq DEF InputInit, Places
  <2>3. KeysOwed /\ GesturesEnd /\ Caused /\ DragAsMeant
    BY <2>2, InputAssumption DEF InputInit, KeysOwed, GesturesEnd, Dragging, Caused, DragAsMeant
  <2> QED
    BY <2>1, <2>3 DEF InputInv
<1>2. InputInv /\ [InputNext]_inputVars => InputInv'
  <2> SUFFICES ASSUME InputInv, [InputNext]_inputVars
               PROVE  InputInv'
    OBVIOUS
  <2>1. CASE InputNext
    <3>1. InputTypeOK'
      BY <2>1, HandTyped, LoopTyped, ScriptTyped DEF InputNext, InputInv
    <3>2. CASE MouseEvent
      BY <3>1, <3>2, MouseDownStep, MouseUpStep DEF MouseEvent, InputInv
    <3>3. CASE ~ MouseEvent
      <4>1. (KeysOwed /\ GesturesEnd /\ Caused /\ DragAsMeant)'
        BY <2>1, <3>3, HandStep, KeyStep, WheelStep, MoveStep, TickStep, ScriptStep
        DEF InputNext, InputLoop
      <4> QED
        BY <3>1, <4>1 DEF InputInv
    <3> QED
      BY <3>2, <3>3
  <2>2. CASE UNCHANGED inputVars
    <3> USE <2>2 DEF inputVars, handVars, uiVars
    <3>1. InputTypeOK'
      BY DEF InputInv, InputTypeOK, Events, Hits, PanelKeys, Switches
    <3>2. KeysOwed' /\ GesturesEnd' /\ DragAsMeant'
      BY DEF InputInv, KeysOwed, Release, GesturesEnd, Places, Down, Up, UpAfter, Dragging, Pressed,
             DragAsMeant
    <3>3. Caused'
      BY DEF InputInv, Caused, Typed, TypedWith, Bearing, Release, GestureHolds, TapHolds
    <3> QED
      BY <3>1, <3>2, <3>3 DEF InputInv
  <2> QED
    BY <2>1, <2>2
<1> QED
  BY <1>1, <1>2, PTL DEF InputSpec

\* For any keyboard, panel, bindings and queue, and whatever hands and a script
\* do: a key of the panel stays down that nobody holds for the three slips only
\* (main.c's event loop, skin_mouse_down(), skin_mouse_up(), skin_tick()).
THEOREM OnlySlipsStay == InputSpec => []LetGo
<1>1. InputInv => LetGo
  <2> SUFFICES ASSUME InputInv, Still
               PROVE  keys \subseteq slipped
    BY DEF LetGo
  <2>1. Places = {}
    BY EmptySeq DEF Still, Places
  <2>2. btn = Nothing /\ enc = Nothing
    BY <2>1 DEF Still, InputInv, GesturesEnd, Dragging, Pressed, UpAfter
  <2>3. Typed = {}
    BY <2>1 DEF Still, Typed, TypedWith, Bearing, Places
  <2>4. GestureHolds = {} /\ TapHolds = {}
    BY <2>2, InputAssumption DEF Still, GestureHolds, TapHolds
  <2> QED
    BY <2>3, <2>4 DEF InputInv, Caused
<1> QED
  BY <1>1, InputInvariance, PTL

\* For any keyboard, panel and bindings: the switch of a knob that is dragged is
\* down exactly when the drag is a push-drag, unless something else has borne on
\* that switch (skin_mouse_down(), skin_mouse_motion(), skin_mouse_up()).
THEOREM DragsAreMeant == InputSpec => []DragAsMeant
<1>1. InputInv => DragAsMeant
  BY DEF InputInv
<1> QED
  BY <1>1, InputInvariance, PTL
=============================================================================
