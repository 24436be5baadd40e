------------------------------ MODULE PanelLink ------------------------------
(***************************************************************************)
(* The panel link: the frontend, which is the panel's controller           *)
(* (panel.c), a socket, and UART1 of the machine (ot-panel-uart.c), whose  *)
(* guest is the firmware.                                                  *)
(*                                                                         *)
(*   main   the frontend's main loop presses keys and moves the crossfader *)
(*   panel  panel_thread(): the heartbeat, and what the guest sends        *)
(*   QEMU   its main loop moves bytes off the socket into the UART, and    *)
(*          fires the timer of the long version reply                      *)
(*   guest  reads and writes the UART's registers                          *)
(*                                                                         *)
(* A byte is the frame it belongs to and its place in that frame.  Frames  *)
(* to the guest are snapshots of a group of keys, positions of the         *)
(* crossfader and the UART's two replies; the guest sends lamps and        *)
(* version queries.                                                        *)
(***************************************************************************)
EXTENDS Integers, Sequences, FiniteSets

CONSTANTS
  FIFO_DEPTH, QUEUE_DEPTH,
  FIVE, TEN,        \* the lengths of the two replies
  SOCK,             \* bytes the socket holds, either way
  MK1,              \* the first model, which has no version handshake
  Mixes             \* bound: what may go on in one behaviour, any of Activities

Activities == {"keys", "fader", "lamps", "query", "requery", "reset"}

ASSUME PanelAssumption ==
  /\ FIFO_DEPTH \in Nat \ {0} /\ QUEUE_DEPTH \in Nat \ {0}
  /\ FIVE \in Nat \ {0} /\ TEN \in Nat \ {0}
  /\ SOCK \in Nat /\ MK1 \in BOOLEAN /\ Mixes \subseteq SUBSET Activities

VARIABLES
  \* the frontend
  mix,              \* the activities of this behaviour
  fd,               \* has the panel thread accepted the connection?
  keys, xfader,     \* g.st
  hand, beat,       \* what main, and the panel thread, are about to send
  c_pkt, lit,       \* the frame being received; g.st.lit
  \* the socket
  sock, wire,       \* to the machine, to the frontend
  \* the UART
  rx_enabled, RxRDY, irq,
  fifo, q,
  pkt, consuming,   \* outbound framing
  timer, ver_query,
  \* the guest
  out,              \* what it still has to write of a frame
  lamp,             \* its lamps, as last sent
  queries, reset,
  last,             \* the frame it is reading, while it comes unbroken
  heldKeys, heldFader, fives, tens,   \* what it has learned
  \* what went wrong on the way
  dropped,          \* the last snapshot of the keys was not sent
  spoiled,          \* the last one it read was not whole
  cut               \* a reply lost bytes

clientVars == <<mix, fd, keys, xfader, hand, beat>>
lampVars == <<c_pkt, lit>>
rxVars == <<rx_enabled, RxRDY, irq, fifo, q>>
txVars == <<pkt, consuming, timer, ver_query>>
guestVars == <<out, lamp, queries, reset>>
learnVars == <<last, heldKeys, heldFader, fives, tens>>
panelVars == <<clientVars, lampVars, sock, wire, rxVars, txVars, guestVars, learnVars,
          dropped, spoiled, cut>>

-----------------------------------------------------------------------------
(* The wire *)

LengthOf(kind) == CASE kind = "five" -> FIVE [] kind = "ten" -> TEN [] OTHER -> 2

Frame(kind, v) == [i \in 1 .. LengthOf(kind) |-> [kind |-> kind, v |-> v, i |-> i]]

NoByte == [kind |-> "none", v |-> 0, i |-> 0]

IsLast(b) == b.i = LengthOf(b.kind)
Follows(b, a) == b.i = 1 \/ (a.kind = b.kind /\ a.v = b.v /\ a.i = b.i - 1)

\* What `kind` of frame does the byte sequence s carry any of?
Carries(s, kinds) == \E i \in 1 .. Len(s) : s[i].kind \in kinds

PanelInit ==
  /\ mix \in Mixes
  /\ fd = FALSE /\ keys = 0 /\ xfader = 0 /\ hand = <<>> /\ beat = <<>>
  /\ c_pkt = NoByte /\ lit = 0
  /\ sock = <<>> /\ wire = <<>>
  /\ rx_enabled = FALSE /\ RxRDY = FALSE /\ irq = FALSE
  /\ fifo = <<>> /\ q = <<>>
  /\ pkt = NoByte /\ consuming = FALSE /\ timer = FALSE /\ ver_query = 0
  /\ out = <<>> /\ lamp = 0 /\ queries = 0 /\ reset = FALSE
  /\ last = NoByte /\ heldKeys = 0 /\ heldFader = 0 /\ fives = 0 /\ tens = 0
  /\ dropped = FALSE /\ spoiled = FALSE /\ cut = FALSE

-----------------------------------------------------------------------------
(* The frontend sends *)

\* panel_xfader(): the position is set under the lock...
Fader(v) ==
  /\ "fader" \in mix /\ hand = <<>> /\ v # xfader
  /\ xfader' = v
  /\ hand' = Frame("fader", v)
  /\ UNCHANGED <<mix, fd, keys, beat, lampVars, sock, wire, rxVars, txVars, guestVars,
                 learnVars, dropped, spoiled, cut>>

\* Mutant of Beat: only the first report is the fader's, the rest are zero.
BeatZero ==
  /\ "fader" \in mix /\ fd /\ beat = <<>>
  /\ beat' = Frame("fader", 0)
  /\ UNCHANGED <<mix, fd, keys, xfader, hand, lampVars, sock, wire, rxVars, txVars,
                 guestVars, learnVars, dropped, spoiled, cut>>

\* panel_thread(): once a second the fader's position is read under the lock...
Beat ==
  /\ "fader" \in mix /\ fd /\ beat = <<>>
  /\ beat' = Frame("fader", xfader)
  /\ UNCHANGED <<mix, fd, keys, xfader, hand, lampVars, sock, wire, rxVars, txVars,
                 guestVars, learnVars, dropped, spoiled, cut>>

Room == fd /\ Len(sock) + 2 <= SOCK

\* panel_send(): ...and sent without it.  A write that would block loses the
\* frame, and before the connection is accepted there is nowhere to send it.
Send(f) == sock' = IF Room THEN sock \o f ELSE sock

\* panel_key(): a snapshot of the group.  Only the main loop touches the keys, so
\* that the frame and its sending are one step.
Key(v) ==
  /\ "keys" \in mix /\ hand = <<>> /\ v # keys
  /\ keys' = v
  /\ Send(Frame("key", v))
  /\ dropped' = ~Room
  /\ UNCHANGED <<mix, fd, xfader, hand, beat, lampVars, wire, rxVars, txVars, guestVars,
                 learnVars, spoiled, cut>>

MainSend ==
  /\ hand # <<>>
  /\ Send(hand)
  /\ hand' = <<>>
  /\ UNCHANGED <<mix, fd, keys, xfader, beat, lampVars, wire, rxVars, txVars, guestVars,
                 learnVars, dropped, spoiled, cut>>

BeatSend ==
  /\ beat # <<>>
  /\ Send(beat)
  /\ beat' = <<>>
  /\ UNCHANGED <<mix, fd, keys, xfader, hand, lampVars, wire, rxVars, txVars, guestVars,
                 learnVars, dropped, spoiled, cut>>

Accept ==
  /\ ~fd
  /\ fd' = TRUE
  /\ UNCHANGED <<mix, keys, xfader, hand, beat, lampVars, sock, wire, rxVars, txVars,
                 guestVars, learnVars, dropped, spoiled, cut>>

\* panel_rx(), panel_apply(): the panel thread takes a byte of what the guest
\* sent.  Whole frames of lamps are a snapshot of their group.
PanelRx ==
  /\ fd /\ beat = <<>> /\ wire # <<>>
  /\ LET b == Head(wire) IN
       /\ c_pkt' = IF c_pkt = NoByte THEN b ELSE NoByte
       /\ lit' = IF c_pkt # NoByte /\ c_pkt.kind = "lamp" THEN b.v ELSE lit
  /\ wire' = Tail(wire)
  /\ UNCHANGED <<clientVars, sock, rxVars, txVars, guestVars, learnVars, dropped,
                 spoiled, cut>>

-----------------------------------------------------------------------------
(* The UART receives *)

Shorter(m, n) == IF m < n THEN m ELSE n

\* ot_panel_update() of a receiver with the FIFO f.
Update(f) ==
  /\ RxRDY' = (f # <<>>)
  /\ irq' = (f # <<>>)

\* ot_panel_pump(): what is staged moves up while the FIFO has room.
Pump(on, f, s) ==
  LET n == IF on THEN Shorter(FIFO_DEPTH - Len(f), Len(s)) ELSE 0
  IN  /\ fifo' = f \o SubSeq(s, 1, n)
      /\ q' = SubSeq(s, n + 1, Len(s))
      /\ Update(f \o SubSeq(s, 1, n))

\* ot_panel_stage(): what the queue has no room for is lost.
Staged(bytes) == q \o SubSeq(bytes, 1, Shorter(QUEUE_DEPTH - Len(q), Len(bytes)))
Overflows(bytes) == Len(q) + Len(bytes) > QUEUE_DEPTH

Stage(bytes) == Pump(rx_enabled, fifo, Staged(bytes))

\* ot_panel_can_receive(): the socket is read for as much as there is room for.
Taken == Shorter(QUEUE_DEPTH - Len(q), Len(sock))

Receive ==
  /\ Taken > 0
  /\ Stage(SubSeq(sock, 1, Taken))
  /\ sock' = SubSeq(sock, Taken + 1, Len(sock))
  /\ UNCHANGED <<clientVars, lampVars, wire, rx_enabled, txVars, guestVars,
                 learnVars, dropped, spoiled, cut>>

\* ot_panel_reply_later(): the long reply, 250 ms of the guest's time later.
ReplyLater ==
  /\ timer
  /\ timer' = FALSE
  /\ Stage(Frame("ten", ver_query))
  /\ cut' = (cut \/ Overflows(Frame("ten", ver_query)))
  /\ UNCHANGED <<clientVars, lampVars, sock, wire, rx_enabled, pkt, consuming,
                 ver_query, guestVars, learnVars, dropped, spoiled>>

-----------------------------------------------------------------------------
(* The guest reads *)

\* ot_panel_read() of the receive buffer, by a guest that was interrupted.
Read ==
  /\ irq
  /\ LET b == Head(fifo)
         whole == Follows(b, last)
     IN  /\ last' = IF whole /\ ~IsLast(b) THEN b ELSE NoByte
         /\ heldKeys' = IF b.kind = "key" /\ IsLast(b) /\ whole THEN b.v ELSE heldKeys
         /\ heldFader' = IF b.kind = "fader" /\ IsLast(b) /\ whole THEN b.v ELSE heldFader
         /\ spoiled' = IF b.kind = "key" /\ IsLast(b) THEN ~whole ELSE spoiled
         /\ fives' = IF b.kind = "five" /\ IsLast(b) /\ whole THEN b.v ELSE fives
         /\ tens' = IF b.kind = "ten" /\ IsLast(b) /\ whole THEN b.v ELSE tens
  /\ Pump(rx_enabled, Tail(fifo), q)
  /\ UNCHANGED <<clientVars, lampVars, sock, wire, rx_enabled, txVars, guestVars,
                 dropped, cut>>

\* Mutant of RxOn: enabling the receiver leaves the bytes where they are.
RxOnOnly ==
  /\ ~rx_enabled
  /\ rx_enabled' = TRUE
  /\ UNCHANGED <<clientVars, lampVars, sock, wire, RxRDY, irq, fifo, q, txVars,
                 guestVars, learnVars, dropped, spoiled, cut>>

\* ot_panel_command(): the receiver on,
RxOn ==
  /\ ~rx_enabled
  /\ rx_enabled' = TRUE
  /\ Pump(TRUE, fifo, q)
  /\ UNCHANGED <<clientVars, lampVars, sock, wire, txVars, guestVars, learnVars,
                 dropped, spoiled, cut>>

\* off, which leaves what the FIFO holds,
RxOff ==
  /\ rx_enabled
  /\ rx_enabled' = FALSE
  /\ UNCHANGED <<clientVars, lampVars, sock, wire, RxRDY, irq, fifo, q, txVars,
                 guestVars, learnVars, dropped, spoiled, cut>>

\* and reset, which does not; what is staged stays.
RxReset ==
  /\ "reset" \in mix /\ ~reset
  /\ reset' = TRUE
  /\ rx_enabled' = FALSE
  /\ fifo' = <<>>
  /\ Update(<<>>)
  /\ last' = NoByte
  /\ spoiled' = (spoiled \/ Carries(Append(fifo, last), {"key"}))
  /\ cut' = (cut \/ Carries(Append(fifo, last), {"five", "ten"}))
  /\ UNCHANGED <<clientVars, lampVars, sock, wire, q, txVars, out, lamp, queries,
                 heldKeys, heldFader, fives, tens, dropped>>

-----------------------------------------------------------------------------
(* The guest writes *)

NewFrame ==
  /\ out = <<>>
  /\ \/ /\ "lamps" \in mix
        /\ lamp' = 1 - lamp
        /\ out' = Frame("lamp", 1 - lamp)
        /\ UNCHANGED queries
     \/ /\ queries < Cardinality({"query", "requery"} \cap mix)
        /\ queries' = queries + 1
        /\ out' = Frame("query", queries + 1)
        /\ UNCHANGED lamp
  /\ UNCHANGED <<clientVars, lampVars, sock, wire, rxVars, txVars, reset, learnVars,
                 dropped, spoiled, cut>>

\* Is this byte part of a version query the UART answers itself?
Owned(b) == IF pkt = NoByte THEN b.kind = "query" /\ ~MK1 ELSE consuming

\* Mutant of Answer: a query while the timer runs leaves it as it is.
AnswerOnce(v) ==
  /\ Stage(Frame("five", v))
  /\ cut' = (cut \/ Overflows(Frame("five", v)))
  /\ ver_query' = IF timer THEN ver_query ELSE v
  /\ timer' = TRUE

\* ot_panel_frame() of a query: the short reply at once, the long one later. A
\* timer that is running starts anew, for this query.
Answer(v) ==
  /\ Stage(Frame("five", v))
  /\ cut' = (cut \/ Overflows(Frame("five", v)))
  /\ ver_query' = v
  /\ timer' = TRUE

\* ot_panel_do_tx(), ot_panel_tx_byte(): a byte goes out, unless it is ours.
Write ==
  /\ out # <<>>
  /\ LET b == Head(out) IN
       /\ Owned(b) \/ Len(wire) < SOCK
       /\ wire' = IF Owned(b) THEN wire ELSE Append(wire, b)
       /\ pkt' = IF pkt = NoByte THEN b ELSE NoByte
       /\ consuming' = (pkt = NoByte /\ Owned(b))
       /\ IF pkt # NoByte /\ pkt.kind = "query" /\ ~MK1
          THEN Answer(b.v)
          ELSE UNCHANGED <<RxRDY, irq, fifo, q, timer, ver_query, cut>>
  /\ out' = Tail(out)
  /\ UNCHANGED <<clientVars, lampVars, sock, rx_enabled, lamp, queries, reset,
                 learnVars, dropped, spoiled>>

-----------------------------------------------------------------------------
Client == (\E v \in 0 .. 1 : Key(v) \/ Fader(v)) \/ MainSend \/ Beat \/ BeatSend \/ Accept \/ PanelRx
Uart == Receive \/ ReplyLater
Guest == Read \/ RxOn \/ RxOff \/ RxReset \/ NewFrame \/ Write

PanelNext == Client \/ Uart \/ Guest

(* A frontend whose threads run, a QEMU whose main loop runs and whose clock *)
(* advances, and a guest that turns its receiver on, takes what it is told    *)
(* of and finishes the frames it starts.                                      *)
PanelFairness ==
  /\ WF_panelVars(MainSend) /\ WF_panelVars(Beat) /\ WF_panelVars(BeatSend) /\ WF_panelVars(Accept)
  /\ SF_panelVars(PanelRx)
  /\ WF_panelVars(Uart /\ Receive) /\ WF_panelVars(ReplyLater)
  /\ WF_panelVars(Read) /\ WF_panelVars(RxOn) /\ WF_panelVars(Write)

PanelSpec == PanelInit /\ [][PanelNext]_panelVars /\ PanelFairness

-----------------------------------------------------------------------------
(* Properties *)

Kinds == {"none", "key", "fader", "five", "ten", "lamp", "query"}
Byte == [kind : Kinds, v : Nat, i : Nat]

\* Every variable has its type, and the FIFO and the queue their bounds
\* (FIFO_DEPTH, QUEUE_DEPTH, ot-panel-uart.c).
TypeOK ==
  /\ fd \in BOOLEAN /\ keys \in 0 .. 1 /\ xfader \in 0 .. 1
  /\ hand \in Seq(Byte) /\ beat \in Seq(Byte)
  /\ c_pkt \in Byte /\ lit \in Nat
  /\ sock \in Seq(Byte) /\ wire \in Seq(Byte)
  /\ rx_enabled \in BOOLEAN
  /\ RxRDY \in BOOLEAN /\ irq \in BOOLEAN
  /\ fifo \in Seq(Byte) /\ Len(fifo) <= FIFO_DEPTH
  /\ q \in Seq(Byte) /\ Len(q) <= QUEUE_DEPTH
  /\ pkt \in Byte /\ consuming \in BOOLEAN /\ timer \in BOOLEAN /\ ver_query \in Nat
  /\ out \in Seq(Byte) /\ lamp \in 0 .. 1 /\ queries \in Nat /\ reset \in BOOLEAN
  /\ last \in Byte /\ heldKeys \in Nat /\ heldFader \in Nat /\ fives \in Nat /\ tens \in Nat
  /\ dropped \in BOOLEAN /\ spoiled \in BOOLEAN /\ cut \in BOOLEAN

\* The guest is told of every byte it could read, and no byte waits behind a
\* FIFO with room (ot_panel_pump(), ot_panel_update()): nothing is stuck until
\* the next byte comes along.
NothingStuck ==
  /\ RxRDY = (fifo # <<>>)
  /\ irq = (fifo # <<>>)
  /\ rx_enabled /\ q # <<>> => Len(fifo) = FIFO_DEPTH

\* When the keys rest, the guest comes to know how they stand, whatever the
\* bytes went through; except that the last snapshot was never sent, since the
\* socket was full or not there, or had a reply put into its middle or its
\* head reset away (panel_key(), panel_send(), ot_panel_stage()).
KeysConverge ==
  \A v \in 0 .. 1 : <>[](keys = v) => <>[](heldKeys = v \/ dropped \/ spoiled)

\* When the crossfader rests, the guest comes to know its position, for good:
\* the heartbeat makes up for reports that were dropped, torn, or overtaken by
\* an older one of the other thread (panel_thread()).
FaderConverges ==
  \A v \in 0 .. 1 : <>[](xfader = v) => <>[](heldFader = v)

\* When the lamps rest, the frontend shows them as they are: what the UART
\* takes out of the stream leaves the framing of the rest alone
\* (ot_panel_tx_byte(), panel_rx()).
LampsConverge ==
  \A v \in 0 .. 1 : <>[](lamp = v /\ out = <<>>) => <>[](lit = v)

\* What rests at one end of the link is known at the other: keys and crossfader
\* to the guest, lamps to the frontend (panel.c:117-271, ot-panel-uart.c:123-254).
Converge == KeysConverge /\ FaderConverges /\ LampsConverge

\* The last version query is answered, by both replies and each in one piece,
\* unless the queue was full or the guest reset its receiver on one
\* (ot_panel_frame(), ot_panel_reply_later()).
Answered == <>[](MK1 \/ cut \/ (fives = queries /\ tens = queries))

\* "The query is forwarded too" (ot-panel-uart.c:25).
QueryForwarded ==
  [][out # <<>> /\ Head(out).kind = "query" /\ out' # out => wire' # wire]_panelVars

=============================================================================
