-------------------------------- MODULE Edma --------------------------------
(***************************************************************************)
(* The eDMA engine of the board (board/ot-board.c 752-1582) as its         *)
(* registers show it: channels that are started by a store to SSRT or by   *)
(* the START bit of their CSR, run to completion inside that store, link   *)
(* to one another, and raise a completion interrupt - at once for SSRT,    *)
(* and for START only once the firmware's state counter reads zero, which  *)
(* a poll at every quantum of retired guest instructions looks for.        *)
(*                                                                         *)
(* The bytes a transfer moves are left out.  The state counter is a word   *)
(* of guest memory: the guest writes it, the engine only reads it.         *)
(***************************************************************************)
EXTENDS Naturals, FiniteSets

CONSTANTS
  CHANNELS,     \* the channel numbers, 0 .. 15
  LINK_DEPTH,   \* OT_EDMA_LINK_DEPTH
  NoLink,       \* the link of a CSR whose MAJORELINK is clear
  STATES,       \* OT_EDMA_STATES, the entries of the firmware's jump table
  GATE_MAX      \* OT_EDMA_GATE_MAX_INSN, in quanta

ASSUME EdmaAssumption ==
  /\ CHANNELS \subseteq Nat
  /\ NoLink \notin CHANNELS
  /\ LINK_DEPTH \in Nat \ {0}
  /\ STATES \in Nat \ {0}
  /\ GATE_MAX \in Nat

VARIABLES
  csr,        \* the control and status word of each channel
  intflags,   \* completions latched until CINT
  lines,      \* the interrupt lines that are high
  pending,    \* completions held back
  held,       \* quanta retired since gate_at
  ctr,        \* the firmware's state counter, in guest memory
  aborted     \* QEMU has called abort()

edmaVars == <<csr, intflags, lines, pending, held, ctr, aborted>>

\* INTMAJOR, and MAJORELINK with its channel; nothing here reads DONE.
Csr == [int : BOOLEAN, link : CHANNELS \union {NoLink}]

EdmaInit ==
  /\ csr = [ch \in CHANNELS |-> [int |-> FALSE, link |-> NoLink]]
  /\ intflags = {} /\ lines = {} /\ pending = {}
  /\ held = 0
  /\ ctr = 0
  /\ aborted = FALSE

-----------------------------------------------------------------------------
(* Servicing a channel, and whatever it links to *)

\* A link to the channel itself is ignored.
LinkOf(c, ch) == IF c[ch].link \in CHANNELS \ {ch} THEN c[ch].link ELSE NoLink

\* Who is serviced by a start of ch: edma_start() recurses along the links and
\* refuses to go LINK_DEPTH deep.
Serviced(c, ch) ==
  {x \in CHANNELS : \E depth \in 0 .. LINK_DEPTH - 1 : \E path \in [0 .. depth -> CHANNELS] :
     /\ path[0] = ch /\ path[depth] = x
     /\ \A d \in 1 .. depth : path[d] = LinkOf(c, path[d - 1])}

Completed(c, ch) == {x \in Serviced(c, ch) : c[x].int}

\* Mutant of Raise: the line is a pulse, nothing latches it.
RaisePulse(S) ==
  /\ lines' = lines \union S
  /\ UNCHANGED intflags

Raise(S) ==
  /\ intflags' = intflags \union S
  /\ lines' = lines \union S

\* Mutant of Hold: a hold is measured from the one before it.
HoldOldStamp(S) ==
  /\ pending' = pending \union S
  /\ held' = IF pending = {} THEN held ELSE 0

Hold(S) ==
  /\ pending' = pending \union S
  /\ held' = IF S = {} THEN held ELSE 0

\* edma_start() from the outside: c are the control words it finds.
Start(c, ch, defer) ==
  /\ csr' = c
  /\ IF defer
     THEN Hold(Completed(c, ch)) /\ UNCHANGED <<intflags, lines>>
     ELSE Raise(Completed(c, ch)) /\ UNCHANGED <<pending, held>>

-----------------------------------------------------------------------------
(* The registers *)

\* A store to a channel's CSR.
WriteCsr(ch, int, link, start) ==
  LET c == [csr EXCEPT ![ch] = [int |-> int, link |-> link]] IN
  /\ IF start
     THEN Start(c, ch, TRUE)
     ELSE csr' = c /\ UNCHANGED <<intflags, lines, pending, held>>
  /\ UNCHANGED <<ctr, aborted>>

WriteSsrt(ch) ==
  /\ Start(csr, ch, FALSE)
  /\ UNCHANGED <<ctr, aborted>>

WriteCint(ch) ==
  /\ intflags' = intflags \ {ch}
  /\ pending' = pending \ {ch}
  /\ lines' = lines \ {ch}
  /\ UNCHANGED <<csr, held, ctr, aborted>>

\* CINT with CAIR: all of them; only the latched ones have their line lowered.
WriteCair ==
  /\ lines' = lines \ intflags
  /\ intflags' = {}
  /\ pending' = {}
  /\ UNCHANGED <<csr, held, ctr, aborted>>

-----------------------------------------------------------------------------
(* The gate *)

IrqFire ==
  /\ Raise(pending)
  /\ pending' = {}

\* Mutant of GatePoll: a delay and not a gate.
GatePollUngated ==
  /\ ~ aborted
  /\ pending # {}
  /\ IrqFire
  /\ UNCHANGED <<held, aborted, csr, ctr>>

\* Mutant of GatePoll: the quantum that finds the counter at zero raises
\* nothing.
GatePollShut ==
  /\ ~ aborted
  /\ pending # {}
  /\ held' = IF held < GATE_MAX THEN held + 1 ELSE held
  /\ UNCHANGED <<intflags, lines, pending, aborted, csr, ctr>>

\* ot_edma_gate_poll(), at a TB boundary, one quantum after the last.
GatePoll ==
  /\ ~ aborted
  /\ pending # {}
  /\ IF ctr # 0
     THEN /\ IF held < GATE_MAX THEN held' = held + 1 /\ UNCHANGED aborted
                                ELSE aborted' = TRUE /\ UNCHANGED held
          /\ UNCHANGED <<intflags, lines, pending>>
     ELSE /\ IrqFire
          /\ UNCHANGED <<held, aborted>>
  /\ UNCHANGED <<csr, ctr>>

-----------------------------------------------------------------------------
(* The engine under any guest at all *)

Guest ==
  /\ ~ aborted
  /\ \/ \E ch \in CHANNELS, int \in BOOLEAN, link \in CHANNELS \union {NoLink},
           start \in BOOLEAN : WriteCsr(ch, int, link, start)
     \/ \E ch \in CHANNELS : WriteSsrt(ch) \/ WriteCint(ch)
     \/ WriteCair
     \/ /\ ctr' \in 0 .. STATES
        /\ UNCHANGED <<csr, intflags, lines, pending, held, aborted>>

EdmaSpec == EdmaInit /\ [][Guest \/ GatePoll]_edmaVars

EdmaTypeOK ==
  /\ csr \in [CHANNELS -> Csr]
  /\ intflags \subseteq CHANNELS
  /\ lines \subseteq CHANNELS
  /\ pending \subseteq CHANNELS
  /\ held \in 0 .. GATE_MAX
  /\ ctr \in 0 .. STATES
  /\ aborted \in BOOLEAN

\* "The completion flag is LATCHED until CINT clears it" (ot-board.c:758): the
\* lines the processor sees are the flags, through every order of starts,
\* acknowledgements and late deliveries.
Latched == lines = intflags

\* Every completion, held or not, is owed until it is acknowledged, and an
\* acknowledged one does not come back (ot-board.c:948, 1511-1526).
P == INSTANCE Completions WITH owed <- intflags \union pending, seen <- lines
CompletionsKept == P!Promise
=============================================================================
