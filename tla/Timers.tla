------------------------------- MODULE Timers -------------------------------
(***************************************************************************)
(* The board's timers, board/ot-board.c: a PIT (the 10 ms scheduler tick,  *)
(* and a polled delay of 1 ms) and a DMA timer, DTIM (the 120 Hz tick and  *)
(* the stopwatches).  The guest writes their registers in any order; the   *)
(* main loop runs the timers that are due, late as a rule, and while it    *)
(* does no register is written: it holds the BQL.                          *)
(*                                                                         *)
(* Time is virtual and relative to now.  The prescaler of the PIT and the  *)
(* divider /16 only scale a period: /16 is a divider of two here, and the  *)
(* 16-bit and 32-bit counts are FULL and WRAP.                             *)
(***************************************************************************)
EXTENDS Integers

CONSTANTS
  Used,      \* the timers in use: a set of sets
  Limits,    \* the values of PMR
  FULL,      \* 0xffff, the period of a PIT that does not reload
  Refs,      \* the values of DTRR
  WRAP,      \* 2^32
  LATE,      \* how late the main loop may be
  LAG_MAX    \* where the age of a DTIM's start saturates

ASSUME TimersAssumption ==
  /\ Limits \subseteq 0 .. FULL - 1 /\ FULL \in Nat
  /\ WRAP \in Nat \ {0} /\ Refs \subseteq 0 .. WRAP - 1
  /\ LATE \in Nat /\ LAG_MAX \in Nat
  \* The age of a start that a timer may still come due for does not saturate.
  /\ \A r \in Refs : 2 * ((r + 1) % WRAP) + LATE <= LAG_MAX

VARIABLES
  used,      \* the timers the guest uses
  pcsr,      \* the PIT's control and status
  pmr,       \* its modulus
  on,        \* its ptimer runs
  lim,       \* the ptimer's limit
  left,      \* its count, negative when it is late
  age,       \* the time since the modulus was written (history)
  loaded,    \* the count was the modulus then (history)
  dtmr,      \* the DTIM's mode
  dmaen,     \* DTXMR[DMAEN]
  ref,       \* DTER[REF]
  dtrr,      \* its reference
  lag,       \* now - start_ns
  armed,     \* its QEMU timer is in the list...
  due,       \* ...this long from now
  owed,      \* matches due that have not been raised (history)
  next,      \* the time to the next match, the main loop in time (history)
  running,   \* the main loop is in timerlist_run_timers()
  sampled    \* the time since it read the clock

pitVars == <<pcsr, pmr, on, lim, left, age, loaded>>
dtimVars == <<dtmr, dmaen, ref, dtrr, lag, armed, due, owed, next>>
listVars == <<running, sampled>>
vars == <<used, pitVars, dtimVars, listVars>>

Pcsr == [en : BOOLEAN, rld : BOOLEAN, ovw : BOOLEAN, pie : BOOLEAN, pif : BOOLEAN]
Dtmr == [rst : BOOLEAN, div : 0 .. 2, frr : BOOLEAN, orri : BOOLEAN]

Init ==
  /\ used \in Used
  /\ pcsr = [en |-> FALSE, rld |-> FALSE, ovw |-> FALSE, pie |-> FALSE, pif |-> FALSE]
  /\ pmr = 0 /\ on = FALSE /\ lim = 0 /\ left = 0 /\ age = 0 /\ loaded = FALSE
  /\ dtmr = [rst |-> FALSE, div |-> 0, frr |-> FALSE, orri |-> FALSE]
  /\ dmaen = FALSE /\ ref = FALSE /\ dtrr = 0 /\ lag = 0
  /\ armed = FALSE /\ due = 0 /\ owed = 0 /\ next = 0
  /\ running = FALSE /\ sampled = 0

Count == IF left < 0 THEN 0 ELSE left

-----------------------------------------------------------------------------
(* The ptimer, of QEMU: its legacy policy *)

\* It is started, or given a count: from zero it triggers at once and takes its
\* limit; with a limit of zero it stops.
Load(flags, count, limit) ==
  /\ pcsr' = [flags EXCEPT !.pif = @ \/ count = 0]
  /\ left' = IF count = 0 THEN limit ELSE count
  /\ on' = (left' # 0)

Keep(flags, count, runs) == pcsr' = flags /\ left' = count /\ on' = runs

-----------------------------------------------------------------------------
(* The PIT *)

\* The interrupt line: every handler ends by setting it.
PitUpdate == pcsr.pie /\ pcsr.pif

PitHandler == "pit" \in used /\ ~ running /\ UNCHANGED <<used, dtimVars, listVars>>

Unflagged(v) == [v EXCEPT !.pif = FALSE]

\* Does a write change no more than the acknowledge and the interrupt enable?
SameCount(v) == [pcsr EXCEPT !.pif = @ /\ ~ v.pif, !.pie = v.pie] = Unflagged(v)

AckPcsr(v) ==
  /\ PitHandler /\ SameCount(v)
  /\ Keep(Unflagged(v), left, on)
  /\ UNCHANGED <<pmr, lim, age, loaded>>

\* Anything else stops the ptimer and starts it with what is left of its count;
\* it takes the flag away too, acknowledged or not.
WritePcsr(v) ==
  /\ PitHandler /\ ~ SameCount(v)
  /\ lim' = IF v.rld THEN pmr ELSE FULL
  /\ IF v.en /\ lim' # 0 THEN Load(Unflagged(v), Count, lim')
                         ELSE Keep(Unflagged(v), Count, FALSE)
  /\ UNCHANGED <<pmr, age, loaded>>

\* Mutant of PmrRuns: the modulus does not start the count.
PmrRunsNot(v) == FALSE

\* The firmware enables the PIT before it has a modulus: the modulus starts it.
PmrRuns(v) == pcsr.en /\ v # 0

\* Mutant of PmrLoads: a modulus waits for the next reload, whatever OVW says.
PmrLoadsLate == pcsr.ovw /\ ~ pcsr.rld

PmrLoads == pcsr.ovw

WritePmr(v) ==
  LET count == IF PmrLoads THEN v ELSE left
      limit == IF pcsr.rld THEN v ELSE lim
  IN
  /\ PitHandler
  /\ pmr' = v /\ lim' = limit
  /\ age' = 0 /\ loaded' = (pcsr.rld /\ pcsr.ovw /\ v # 0)
  /\ IF (on /\ PmrLoads) \/ (~ on /\ PmrRuns(v))
       THEN Load(Unflagged(pcsr), count, limit)
       ELSE Keep(Unflagged(pcsr), count, on)

\* The ptimer expires: PIF, and the next period counts from when it should have;
\* without a limit it stops at zero.
PitTrigger ==
  /\ running /\ on /\ left <= - sampled
  /\ left' = IF lim = 0 THEN 0 ELSE left + lim
  /\ on' = (lim # 0)
  /\ pcsr' = [pcsr EXCEPT !.pif = TRUE]
  /\ UNCHANGED <<used, pmr, lim, age, loaded, dtimVars, listVars>>

-----------------------------------------------------------------------------
(* The DTIM *)

DtimHandler == "dtim" \in used /\ ~ running /\ UNCHANGED <<used, pitVars, listVars>>

\* A reference of all ones wraps: its period is zero, and it is never armed.
Period(mode, reference) == IF reference = 0 THEN 0 ELSE ((reference + 1) % WRAP) * mode.div

DtimUpdateIrq == ref /\ dtmr.orri /\ ~ dmaen

Armable(mode, reference) == mode.rst /\ mode.orri /\ Period(mode, reference) # 0

\* At start_ns and one period.
Arm ==
  /\ armed' = Armable(dtmr', dtrr')
  /\ due' = IF armed' THEN Period(dtmr', dtrr') - lag' ELSE 0

\* What is owed when the registers have changed: whole periods since the start.
Recount ==
  LET p == Period(dtmr', dtrr') IN
  IF Armable(dtmr', dtrr') /\ dtmr'.frr /\ p # 0
    THEN IF lag' < p THEN owed' = 0 /\ next' = p - lag'
                     ELSE owed' = lag' \div p /\ next' = p - (lag' % p)
    ELSE owed' = 0 /\ next' = 0

WriteDtmr(v) ==
  /\ DtimHandler
  /\ dtmr' = v
  /\ lag' = IF ~ dtmr.rst /\ v.rst THEN 0 ELSE lag
  /\ UNCHANGED <<dmaen, ref, dtrr>>
  /\ Arm /\ Recount

WriteDtrr(v) ==
  /\ DtimHandler
  /\ dtrr' = v
  /\ UNCHANGED <<dtmr, dmaen, ref, lag>>
  /\ Arm /\ Recount

WriteDtcn ==
  /\ DtimHandler
  /\ lag' = 0
  /\ UNCHANGED <<dtmr, dmaen, ref, dtrr>>
  /\ Arm /\ Recount

WriteDtxmr(v) ==
  /\ DtimHandler
  /\ dmaen' = v
  /\ UNCHANGED <<dtmr, ref, dtrr, lag, armed, due, owed, next>>

WriteDter ==
  /\ DtimHandler
  /\ ref' = FALSE
  /\ UNCHANGED <<dtmr, dmaen, dtrr, lag, armed, due, owed, next>>

\* Mutant of Restarted: the next period counts from the callback.
RestartedNow == 0

\* The age of the start after a match: of the next period in restart mode, of
\* the next wrap of the count otherwise.
Restarted ==
  LET p == Period(dtmr, dtrr) IN
  IF dtmr.frr THEN lag - p ELSE lag - (WRAP \div (dtrr + 1)) * p

\* A timer is out of the list when it is called.
RefFire ==
  /\ running /\ armed /\ due <= - sampled
  /\ ref' = TRUE
  /\ UNCHANGED <<used, dtmr, dmaen, dtrr, pitVars, listVars, next>>
  /\ owed' = IF dtmr.frr THEN owed - 1 ELSE 0
  /\ IF Period(dtmr, dtrr) = 0
       THEN armed' = FALSE /\ due' = 0 /\ UNCHANGED lag
       ELSE lag' = Restarted /\ Arm

-----------------------------------------------------------------------------
(* The main loop *)

Pending == (on /\ left <= - sampled) \/ (armed /\ due <= - sampled)

BeginList ==
  /\ ~ running /\ Pending
  /\ running' = TRUE
  /\ UNCHANGED <<used, pitVars, dtimVars, sampled>>

EndList ==
  /\ running /\ ~ Pending
  /\ running' = FALSE /\ sampled' = 0
  /\ UNCHANGED <<used, pitVars, dtimVars>>

\* The virtual clock goes on, in the list too; LATE bounds what a timer may be
\* late when it is looked at, and one tick what a run of the list takes.
Clock ==
  /\ running => sampled = 0
  /\ on => left > - LATE
  /\ armed => due > - LATE
  /\ sampled' = IF running THEN 1 ELSE 0
  /\ age' = IF age < FULL THEN age + 1 ELSE age
  /\ left' = IF on THEN left - 1 ELSE left
  /\ lag' = IF lag < LAG_MAX THEN lag + 1 ELSE lag
  /\ due' = IF armed THEN due - 1 ELSE due
  /\ IF next = 0 THEN UNCHANGED <<owed, next>>
     ELSE IF next > 1 THEN next' = next - 1 /\ UNCHANGED owed
     ELSE next' = Period(dtmr, dtrr) /\ owed' = owed + 1
  /\ UNCHANGED <<used, pcsr, pmr, on, lim, loaded, dtmr, dmaen, ref, dtrr, armed, running>>

PitRestart == (\E v \in Pcsr : WritePcsr(v)) \/ (\E v \in Limits : WritePmr(v))

PitGuest == PitRestart \/ \E v \in Pcsr : AckPcsr(v)

DtimGuest ==
  \/ \E v \in Dtmr : WriteDtmr(v)
  \/ \E v \in Refs : WriteDtrr(v)
  \/ WriteDtcn
  \/ \E v \in BOOLEAN : WriteDtxmr(v)
  \/ WriteDter

MainLoop == BeginList \/ PitTrigger \/ RefFire \/ EndList

Next == PitGuest \/ DtimGuest \/ MainLoop \/ Clock

Spec == Init /\ [][Next]_vars

\* The clock goes on, and the main loop runs the timers.
FairSpec == Spec /\ WF_vars(Clock) /\ WF_vars(MainLoop)

-----------------------------------------------------------------------------
\* An enabled PIT that has a period raises its interrupt again and again,
\* whatever the order of the writes that set it up, unless the guest keeps
\* restarting it: a PIT that was enabled before it had a modulus is not dead
\* (ot-board.c:485-488).
Wanted == pcsr.en /\ pcsr.pie /\ (pcsr.rld => pmr # 0)
PitTicks == []<><<PitRestart>>_vars \/ []<>~ Wanted \/ []<>PitUpdate

\* A modulus written with OVW is a delay: the flag is not up before the whole
\* of it has passed, whatever was left of the count and however the control
\* register was written around it (ot-board.c:485).
FullPeriod == loaded /\ pcsr.pif => age >= pmr

\* In restart mode there is a match for every DTRR + 1 intervals since the
\* start, however late the main loop raises each: the tick loses no time, and
\* one is pending exactly when one is owed (ot-board.c:591-598, 681-685).
MatchesCounted == armed /\ dtmr.frr => owed >= 0 /\ ((owed > 0) <=> (due <= 0))

\* The main loop gets out of its list of timers: no callback arms itself for
\* the moment it runs at, over and over (ot-board.c:657-660).
ListEnds == running ~> ~ running

\* Neither a timer nor the loop that runs it ever stops for good
\* (ot-board.c:485-488, 657-660).
TimersGoOn == PitTicks /\ ListEnds
=============================================================================
