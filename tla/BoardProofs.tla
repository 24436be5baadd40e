----------------------------- MODULE BoardProofs ------------------------------
(***************************************************************************)
(* Proofs about three devices of the board, for any size of what they      *)
(* hold and any lengths, periods and chains.                               *)
(*                                                                         *)
(*   timers     in restart mode the DTIM raises a match for every period   *)
(*              since its start and no more, and the PIT's delay is whole  *)
(*   USB        the guest and the host never wait for each other           *)
(*   panel UART the guest is told of what it can read, and no byte stays   *)
(*              behind                                                     *)
(***************************************************************************)
EXTENDS Timers, UsbBench, PanelLink, SequenceTheorems, TLAPS

-----------------------------------------------------------------------------
(* The DTIM *)

P == Period(dtmr, dtrr)

DtimTyped ==
  /\ dtmr \in Dtmr /\ dtrr \in Refs \union {0}
  /\ lag \in Int /\ due \in Int /\ owed \in Int /\ next \in Int
  /\ armed \in BOOLEAN
  /\ sampled \in Nat

\* A timer is in the list when the registers want it to be, for one period
\* after the start.
Scheduled ==
  /\ armed <=> Armable(dtmr, dtrr)
  /\ armed => due = P - lag

\* Of the periods since the start those that are not raised are owed, and the
\* QEMU timer is late by all of them but the one that goes on.
Accounts ==
  armed /\ dtmr.frr =>
    /\ owed >= 0 /\ next >= 1
    /\ owed > 0 => next <= P
    /\ due = next - owed * P

Unarmed == ~ (armed /\ dtmr.frr) => owed = 0 /\ next = 0

Inv == DtimTyped /\ Scheduled /\ Accounts /\ Unarmed

-----------------------------------------------------------------------------
LEMMA PeriodTyped ==
  ASSUME NEW mode \in Dtmr, NEW reference \in Refs \union {0}
  PROVE  /\ Period(mode, reference) \in Nat
         /\ Period(mode, reference) # 0 => Period(mode, reference) + LATE <= LAG_MAX
  <1> DEFINE ticks == (reference + 1) % WRAP
  <1>1. mode.div \in 0 .. 2 /\ reference \in Nat /\ ticks \in Nat
    BY TimersAssumption DEF Dtmr
  <1>2. CASE reference = 0
    BY <1>2 DEF Period
  <1>3. CASE reference # 0
    <2>1. 2 * ticks + LATE <= LAG_MAX
      BY <1>3, TimersAssumption
    <2>2. CASE mode.div = 0
      BY <1>1, <1>3, <2>2 DEF Period
    <2>3. CASE mode.div = 1
      BY <1>1, <1>3, <2>1, <2>3, TimersAssumption DEF Period
    <2>4. CASE mode.div = 2
      BY <1>1, <1>3, <2>1, <2>4, TimersAssumption DEF Period
    <2> QED
      BY <1>1, <2>2, <2>3, <2>4
  <1> QED
    BY <1>2, <1>3

LEMMA Ahead == \A n \in Int, p \in Nat : n < p => p - n >= 1 /\ p - n \in Int
  OBVIOUS

\* What whole periods leave over.
LEMMA WholePeriods ==
  ASSUME NEW n \in Nat, NEW p \in Nat, p > 0, p <= n
  PROVE  /\ n \div p \in Nat /\ n \div p >= 1
         /\ n % p \in 0 .. p - 1
         /\ n = p * (n \div p) + (n % p)
  <1>1. /\ n \div p \in Int /\ n % p \in 0 .. p - 1
        /\ n = p * (n \div p) + (n % p)
    OBVIOUS
  <1>2. n \div p >= 1
    <2> SUFFICES ASSUME n \div p <= 0
                 PROVE  FALSE
      BY <1>1
    <2>1. p * (n \div p) <= 0
      BY <1>1
    <2> QED
      BY <1>1, <2>1
  <1> QED
    BY <1>1, <1>2

-----------------------------------------------------------------------------
(* The registers *)

\* Every write that starts anything arms the timer and opens the accounts
\* again.
LEMMA WriteKeeps ==
  ASSUME dtmr' \in Dtmr, dtrr' \in Refs \union {0}, lag' \in Int, sampled' \in Nat, Arm, Recount
  PROVE  Inv'
  <1> DEFINE p == Period(dtmr', dtrr')
  <1>1. p \in Nat /\ P' = p
    BY PeriodTyped DEF P, Period
  <1>2. /\ armed' = Armable(dtmr', dtrr')
        /\ due' = IF armed' THEN p - lag' ELSE 0
    BY DEF Arm
  <1>3. Armable(dtmr', dtrr') \in BOOLEAN /\ (Armable(dtmr', dtrr') => p > 0)
    BY <1>1 DEF Armable
  <1> HIDE DEF p
  <1>4. Scheduled'
    BY <1>1, <1>2, <1>3 DEF Scheduled, Armable, Period
  <1>5. CASE armed' /\ dtmr'.frr
    <2>1. CASE lag' < p
      <3>1. owed' = 0 /\ next' = p - lag' /\ due' = p - lag'
        BY <1>2, <1>3, <1>5, <2>1 DEF Recount, p
      <3>2. next' >= 1 /\ next' \in Int
        BY <1>1, <2>1, <3>1, Ahead, Zenon
      <3>3. Accounts'
        <4>1. owed' * p = 0
          BY <1>1, <3>1
        <4>2. due' = next' - owed' * p
          BY <1>1, <3>1, <3>2, <4>1
        <4>3. owed' >= 0 /\ ~ (owed' > 0)
          BY <3>1
        <4> QED
          BY <1>1, <3>2, <4>2, <4>3 DEF Accounts
      <3>4. DtimTyped'
        BY <1>1, <1>2, <1>3, <3>1, <3>2 DEF DtimTyped
      <3> QED
        BY <1>4, <1>5, <3>3, <3>4 DEF Inv, Unarmed
    <2>2. CASE ~ (lag' < p)
      <3>1. owed' = lag' \div p /\ next' = p - (lag' % p) /\ due' = p - lag'
        BY <1>2, <1>3, <1>5, <2>2 DEF Recount, p
      <3>2. /\ owed' \in Nat /\ lag' % p \in 0 .. p - 1
            /\ lag' = p * owed' + (lag' % p)
        <4>1. p > 0 /\ p <= lag' /\ lag' \in Nat
          BY <1>1, <1>2, <1>3, <1>5, <2>2
        <4> QED
          BY <1>1, <3>1, <4>1, WholePeriods
      <3>3. p * owed' = owed' * p /\ p * owed' \in Int
        BY <1>1, <3>2
      <3>4. PICK rest \in 0 .. p - 1 : rest = lag' % p
        BY <3>2
      <3>5. next' >= 1 /\ next' <= p /\ next' \in Int
        <4>1. next' = p - rest
          BY <3>1, <3>4
        <4> QED
          BY <1>1, <4>1
      <3>6. due' = next' - owed' * p
        <4>1. PICK all \in Int : all = owed' * p
          BY <3>3
        <4>2. lag' = all + rest
          BY <3>2, <3>3, <3>4, <4>1
        <4> QED
          BY <1>1, <3>1, <3>4, <4>1, <4>2
      <3>7. Accounts'
        BY <1>1, <3>2, <3>5, <3>6 DEF Accounts
      <3>8. DtimTyped'
        BY <1>1, <1>2, <1>3, <3>1, <3>2, <3>5 DEF DtimTyped
      <3> QED
        BY <1>4, <1>5, <3>7, <3>8 DEF Inv, Unarmed
    <2> QED
      BY <2>1, <2>2
  <1>6. CASE ~ (armed' /\ dtmr'.frr)
    <2>1. owed' = 0 /\ next' = 0
      BY <1>2, <1>6 DEF Recount
    <2> QED
      BY <1>1, <1>2, <1>3, <1>4, <1>6, <2>1 DEF Inv, DtimTyped, Accounts, Unarmed
  <1> QED
    BY <1>5, <1>6

-----------------------------------------------------------------------------
(* The main loop and the clock *)

\* A step that leaves the schedule and the accounts alone.
LEMMA Untouched ==
  ASSUME Inv, UNCHANGED <<dtmr, dtrr, lag, armed, due, owed, next>>, sampled' \in Nat
  PROVE  Inv'
  BY DEF Inv, DtimTyped, Scheduled, Accounts, Unarmed, P, Period, Armable

\* A match that is raised was owed.
LEMMA FireKeeps ==
  ASSUME Inv, RefFire
  PROVE  Inv'
  <1>1. P \in Nat /\ P > 0
    BY PeriodTyped DEF Inv, DtimTyped, Scheduled, RefFire, Armable, P
  <1>2. P # 0 /\ UNCHANGED <<dtmr, dtrr, next, sampled>> /\ P' = P
    BY <1>1 DEF RefFire, listVars, P, Period
  <1>3. lag' = Restarted /\ Arm
    BY <1>2 DEF RefFire, P
  <1>4. armed /\ armed' /\ due' = P - lag'
    BY <1>2, <1>3 DEF Arm, Inv, Scheduled, RefFire, Armable, Period, P
  <1>5. CASE dtmr.frr
    <2>1. lag' = lag - P /\ owed' = owed - 1
      BY <1>3, <1>5 DEF Restarted, RefFire, P
    <2>2. due <= 0
      BY DEF RefFire, Inv, DtimTyped
    <2>3. /\ owed >= 0 /\ next >= 1 /\ (owed > 0 => next <= P) /\ due = next - owed * P
          /\ owed \in Int /\ next \in Int /\ lag \in Int /\ due \in Int /\ due = P - lag
      BY <1>4, <1>5 DEF Inv, DtimTyped, Accounts, Scheduled
    <2>4. owed > 0
      <3> SUFFICES ASSUME owed = 0
                   PROVE  FALSE
        BY <2>3
      <3>1. owed * P = 0
        BY <1>1
      <3> QED
        BY <2>2, <2>3, <3>1
    <2>5. owed' * P = owed * P - P /\ owed * P \in Int
      BY <1>1, <2>1, <2>3
    <2>6. due' = next' - owed' * P
      BY <1>1, <1>2, <1>4, <2>1, <2>3, <2>5
    <2>7. Accounts'
      BY <1>2, <2>1, <2>3, <2>4, <2>6 DEF Accounts
    <2>8. DtimTyped'
      BY <1>1, <1>2, <1>4, <2>1, <2>3 DEF Inv, DtimTyped
    <2>9. Scheduled'
      BY <1>2, <1>4 DEF Inv, Scheduled, RefFire, Armable, Period
    <2> QED
      BY <1>2, <1>4, <1>5, <2>7, <2>8, <2>9 DEF Inv, Unarmed
  <1>6. CASE ~ dtmr.frr
    <2>1. lag' \in Int
      <3>1. WRAP \div (dtrr + 1) \in Int
        <4>1. dtrr + 1 \in Nat /\ dtrr + 1 > 0 /\ WRAP \in Nat
          BY TimersAssumption DEF Inv, DtimTyped
        <4> QED
          BY <4>1
      <3>2. lag' = lag - (WRAP \div (dtrr + 1)) * P
        BY <1>3, <1>6 DEF Restarted, P
      <3> QED
        BY <1>1, <3>1, <3>2 DEF Inv, DtimTyped
    <2>2. owed' = 0 /\ next' = 0
      BY <1>2, <1>6 DEF RefFire, Inv, Unarmed
    <2>3. DtimTyped'
      BY <1>1, <1>2, <1>4, <2>1, <2>2 DEF Inv, DtimTyped
    <2>4. Scheduled'
      BY <1>2, <1>4 DEF Inv, Scheduled, RefFire, Armable, Period
    <2> QED
      BY <1>2, <1>6, <2>2, <2>3, <2>4 DEF Inv, Unarmed, Accounts
  <1> QED
    BY <1>5, <1>6

\* The clock: while a timer is armed its start is not too old to be told.
LEMMA ClockKeeps ==
  ASSUME Inv, Clock
  PROVE  Inv'
  <1>1. UNCHANGED <<dtmr, dtrr, armed>> /\ P' = P /\ P \in Nat
    BY PeriodTyped DEF Clock, P, Period, Inv, DtimTyped
  <1>2. sampled' \in Nat /\ lag' \in Int /\ due' \in Int
    BY TimersAssumption DEF Clock, Inv, DtimTyped
  <1>3. armed => P > 0 /\ lag' = lag + 1 /\ due' = due - 1
    <2> SUFFICES ASSUME armed
                 PROVE  P > 0 /\ lag' = lag + 1 /\ due' = due - 1
      OBVIOUS
    <2>1. P > 0 /\ P + LATE <= LAG_MAX
      BY <1>1, PeriodTyped DEF Inv, DtimTyped, Scheduled, Armable, P
    <2>2. P - lag > - LATE
      BY DEF Clock, Inv, Scheduled
    <2>3. lag < LAG_MAX
      BY <1>1, <2>1, <2>2, TimersAssumption DEF Inv, DtimTyped
    <2> QED
      BY <2>1, <2>3 DEF Clock
  <1>4. Scheduled'
    <2>1. armed' <=> Armable(dtmr', dtrr')
      BY <1>1 DEF Inv, Scheduled
    <2>2. armed' => due' = P' - lag'
      BY <1>1, <1>3 DEF Inv, DtimTyped, Scheduled
    <2> QED
      BY <2>1, <2>2 DEF Scheduled
  <1>5. CASE armed /\ dtmr.frr
    <2>1. /\ owed >= 0 /\ next >= 1 /\ (owed > 0 => next <= P) /\ due = next - owed * P
          /\ owed \in Int /\ next \in Int /\ due \in Int
      BY <1>5 DEF Inv, DtimTyped, Accounts
    <2>2. owed * P \in Int /\ (owed + 1) * P = owed * P + P
      BY <1>1, <2>1
    <2>3. CASE next > 1
      <3>1. next' = next - 1 /\ owed' = owed
        BY <2>1, <2>3 DEF Clock
      <3> QED
        BY <1>1, <1>2, <1>3, <1>4, <1>5, <2>1, <2>2, <2>3, <3>1 DEF Inv, DtimTyped, Accounts, Unarmed
    <2>4. CASE next = 1
      <3>1. next' = P /\ owed' = owed + 1
        BY <2>4 DEF Clock, P
      <3>2. due' = next' - owed' * P
        BY <1>1, <1>3, <1>5, <2>1, <2>2, <2>4, <3>1
      <3> QED
        BY <1>1, <1>2, <1>3, <1>4, <1>5, <2>1, <3>1, <3>2 DEF Inv, DtimTyped, Accounts, Unarmed
    <2> QED
      BY <2>1, <2>3, <2>4
  <1>6. CASE ~ (armed /\ dtmr.frr)
    <2>1. owed' = 0 /\ next' = 0
      BY <1>6 DEF Clock, Inv, Unarmed
    <2> QED
      BY <1>1, <1>2, <1>4, <1>6, <2>1 DEF Inv, DtimTyped, Accounts, Unarmed
  <1> QED
    BY <1>5, <1>6

-----------------------------------------------------------------------------
\* The invariant of the DTIM: how late its timer is, is what it owes
\* (ot_dtim_arm(), ot_dtim_ref_fire()).
THEOREM Invariance == Spec => []Inv
  <1>1. Init => Inv
    <2> SUFFICES ASSUME Init
                 PROVE  Inv
      OBVIOUS
    <2>1. dtmr \in Dtmr /\ ~ dtmr.rst /\ ~ armed
      BY DEF Init, Dtmr
    <2>2. DtimTyped
      <3>1. dtmr \in Dtmr /\ dtrr \in Refs \union {0} /\ armed \in BOOLEAN
        BY <2>1 DEF Init
      <3>2. lag \in Int /\ due \in Int /\ owed \in Int /\ next \in Int /\ sampled \in Nat
        BY DEF Init
      <3> QED
        BY <3>1, <3>2 DEF DtimTyped
    <2>3. Scheduled
      BY <2>1 DEF Scheduled, Armable
    <2>4. Accounts /\ Unarmed
      BY <2>1 DEF Init, Accounts, Unarmed
    <2> QED
      BY <2>2, <2>3, <2>4 DEF Inv
  <1>2. Inv /\ [Next]_vars => Inv'
    <2> SUFFICES ASSUME Inv, [Next]_vars
                 PROVE  Inv'
      OBVIOUS
    <2>1. CASE PitGuest
      BY <2>1, Untouched DEF PitGuest, PitRestart, WritePcsr, WritePmr, AckPcsr, PitHandler,
                             dtimVars, listVars, Inv, DtimTyped
    <2>2. CASE DtimGuest
      <3>1. ASSUME NEW v \in Dtmr, WriteDtmr(v) PROVE Inv'
        BY <3>1, WriteKeeps DEF WriteDtmr, DtimHandler, listVars, Inv, DtimTyped
      <3>2. ASSUME NEW v \in Refs, WriteDtrr(v) PROVE Inv'
        BY <3>2, WriteKeeps DEF WriteDtrr, DtimHandler, listVars, Inv, DtimTyped
      <3>3. CASE WriteDtcn
        BY <3>3, WriteKeeps DEF WriteDtcn, DtimHandler, listVars, Inv, DtimTyped
      <3>4. ASSUME NEW v \in BOOLEAN, WriteDtxmr(v) PROVE Inv'
        BY <3>4, Untouched DEF WriteDtxmr, DtimHandler, listVars, Inv, DtimTyped
      <3>5. CASE WriteDter
        BY <3>5, Untouched DEF WriteDter, DtimHandler, listVars, Inv, DtimTyped
      <3> QED
        BY <2>2, <3>1, <3>2, <3>3, <3>4, <3>5 DEF DtimGuest
    <2>3. CASE BeginList \/ EndList
      BY <2>3, Untouched DEF BeginList, EndList, dtimVars, Inv, DtimTyped
    <2>4. CASE PitTrigger
      BY <2>4, Untouched DEF PitTrigger, dtimVars, listVars, Inv, DtimTyped
    <2>5. CASE RefFire
      BY <2>5, FireKeeps
    <2>6. CASE Clock
      BY <2>6, ClockKeeps
    <2>7. CASE UNCHANGED vars
      BY <2>7, Untouched DEF vars, dtimVars, listVars, Inv, DtimTyped
    <2> QED
      BY <2>1, <2>2, <2>3, <2>4, <2>5, <2>6, <2>7 DEF Next, MainLoop
  <1> QED
    BY <1>1, <1>2, PTL DEF Spec

\* In restart mode a match is pending exactly when one is owed, for any
\* reference and any lateness (ot-board.c:681-685).
THEOREM NoMatchLost == Spec => []MatchesCounted
  <1>1. Inv => MatchesCounted
    <2> SUFFICES ASSUME Inv, armed, dtmr.frr
                 PROVE  owed >= 0 /\ ((owed > 0) <=> (due <= 0))
      BY DEF MatchesCounted
    <2>1. P \in Nat
      BY PeriodTyped DEF Inv, DtimTyped, P
    <2>2. /\ owed >= 0 /\ next >= 1 /\ (owed > 0 => next <= P) /\ due = next - owed * P
          /\ owed \in Int /\ next \in Int /\ due \in Int
      BY DEF Inv, DtimTyped, Accounts
    <2>3. CASE owed = 0
      <3>1. owed * P = 0
        BY <2>1, <2>3
      <3> QED
        BY <2>2, <2>3, <3>1
    <2>4. CASE owed > 0
      <3>1. owed * P >= P /\ owed * P \in Int
        BY <2>1, <2>2, <2>4
      <3> QED
        BY <2>1, <2>2, <2>4, <3>1
    <2> QED
      BY <2>2, <2>3, <2>4
  <1> QED
    BY <1>1, Invariance, PTL

-----------------------------------------------------------------------------
(* The PIT *)

\* While the delay goes on there is at least as much left of the count as of
\* the delay, and nothing has raised the flag.
DelayInv ==
  /\ left \in Int /\ lim \in Int /\ age \in Nat /\ sampled \in Nat
  /\ pmr \in Limits \union {0} /\ pcsr \in Pcsr
  /\ loaded /\ age < pmr => left >= pmr - age /\ ~ pcsr.pif

LEMMA DelayStep ==
  ASSUME DelayInv, [Next]_vars
  PROVE  DelayInv'
<1> USE DEF DelayInv
<1>1. CASE UNCHANGED <<pitVars, sampled>>
  BY <1>1 DEF pitVars
<1>2. ASSUME NEW v \in Pcsr, AckPcsr(v) PROVE DelayInv'
  <2>1. /\ UNCHANGED <<left, lim, age, sampled, pmr, loaded>>
        /\ pcsr' = [v EXCEPT !.pif = FALSE]
    BY <1>2 DEF AckPcsr, PitHandler, Keep, Unflagged, listVars
  <2> QED
    BY <2>1 DEF Pcsr
<1>3. ASSUME NEW v \in Pcsr, WritePcsr(v) PROVE DelayInv'
  <2>1. UNCHANGED <<age, sampled, pmr, loaded>>
    BY <1>3 DEF WritePcsr, PitHandler, listVars
  <2>2. pcsr' \in Pcsr /\ left' \in Int /\ lim' \in Int
    <3>1. lim' \in Int
      BY <1>3, TimersAssumption DEF WritePcsr, Pcsr
    <3>2. Count \in Int
      BY DEF Count
    <3>3. pcsr' \in Pcsr
      BY <1>3 DEF WritePcsr, Load, Keep, Unflagged, Pcsr
    <3> QED
      BY <1>3, <3>1, <3>2, <3>3 DEF WritePcsr, Load, Keep
  \* A count that is not at its end is carried over, and raises nothing.
  <2>3. ASSUME left > 0 PROVE left' = left /\ ~ pcsr'.pif
    <3>1. Count = left /\ Count # 0
      BY <2>3 DEF Count
    <3>2. ~ Unflagged(v).pif /\ Unflagged(v) \in Pcsr
      BY DEF Unflagged, Pcsr
    <3>3. ~ [Unflagged(v) EXCEPT !.pif = @ \/ Count = 0].pif
      BY <3>1, <3>2 DEF Pcsr
    <3> QED
      BY <1>3, <3>1, <3>2, <3>3 DEF WritePcsr, Load, Keep
  <2>4. pmr \in Nat
    BY TimersAssumption
  <2> QED
    BY <2>1, <2>2, <2>3, <2>4
<1>4. ASSUME NEW v \in Limits, WritePmr(v) PROVE DelayInv'
  <2> DEFINE count == IF PmrLoads THEN v ELSE left
  <2>1. /\ pmr' = v /\ age' = 0 /\ UNCHANGED sampled
        /\ loaded' = (pcsr.rld /\ pcsr.ovw /\ v # 0)
        /\ lim' = IF pcsr.rld THEN v ELSE lim
        /\ \/ Load(Unflagged(pcsr), count, lim')
           \/ Keep(Unflagged(pcsr), count, on)
    BY <1>4 DEF WritePmr, PitHandler, listVars
  <2>2. Unflagged(pcsr) \in Pcsr /\ ~ Unflagged(pcsr).pif
    BY DEF Unflagged, Pcsr
  <2>3. pcsr' \in Pcsr
    BY <2>1, <2>2 DEF Load, Keep, Pcsr
  <2>4. v \in Nat
    BY TimersAssumption
  <2>5. lim' \in Int
    BY <2>1, <2>4
  <2>6. CASE loaded'
    <3>1. v # 0 /\ count = v
      BY <2>1, <2>6 DEF PmrLoads
    <3>2. ~ [Unflagged(pcsr) EXCEPT !.pif = @ \/ count = 0].pif
      BY <2>2, <3>1 DEF Pcsr
    <3>3. left' = v /\ ~ pcsr'.pif
      BY <2>1, <2>2, <3>1, <3>2 DEF Load, Keep
    <3> QED
      BY <2>1, <2>3, <2>4, <2>5, <3>3
  <2>7. CASE ~ loaded'
    <3>1. left' \in Int
      BY <2>1, <2>4, <2>5 DEF Load, Keep
    <3> QED
      BY <2>1, <2>3, <2>4, <2>5, <2>7, <3>1
  <2> QED
    BY <2>6, <2>7
<1>5. CASE PitTrigger
  <2>1. /\ left <= - sampled /\ left' = (IF lim = 0 THEN 0 ELSE left + lim)
        /\ UNCHANGED <<lim, age, sampled, pmr, loaded>>
        /\ pcsr' = [pcsr EXCEPT !.pif = TRUE]
    BY <1>5 DEF PitTrigger, listVars
  <2>2. ~ (loaded /\ age < pmr)
    BY <2>1, TimersAssumption
  <2>3. pcsr' \in Pcsr
    BY <2>1 DEF Pcsr
  <2>4. left' \in Int
    BY <2>1
  <2> QED
    BY <2>1, <2>2, <2>3, <2>4
<1>6. CASE Clock
  <2>1. /\ sampled' \in Nat /\ UNCHANGED <<pcsr, pmr, lim, loaded>>
        /\ age' = IF age < FULL THEN age + 1 ELSE age
        /\ left' = IF on THEN left - 1 ELSE left
    BY <1>6 DEF Clock
  \* The age does not saturate before the delay is over.
  <2>2. ASSUME loaded, age < pmr PROVE age < FULL
    BY <2>2, TimersAssumption
  <2>3. FULL \in Nat /\ pmr \in Nat
    BY TimersAssumption
  <2> QED
    BY <2>1, <2>2, <2>3
<1>7. CASE DtimGuest \/ RefFire \/ BeginList \/ UNCHANGED vars
  BY <1>1, <1>7 DEF DtimGuest, WriteDtmr, WriteDtrr, WriteDtcn, WriteDtxmr, WriteDter, DtimHandler,
                    RefFire, BeginList, vars, listVars
<1>8. CASE EndList
  BY <1>8 DEF EndList, pitVars
<1> QED
  BY <1>2, <1>3, <1>4, <1>5, <1>6, <1>7, <1>8 DEF Next, PitGuest, PitRestart, MainLoop

\* For any modulus, and however the control register is written meanwhile: a
\* modulus written with OVW is a delay of at least its length (ot-board.c:485).
THEOREM DelayIsWhole == Spec => []FullPeriod
<1>1. Init => DelayInv
  <2> SUFFICES ASSUME Init
               PROVE  DelayInv
    OBVIOUS
  <2>1. pcsr \in Pcsr
    BY DEF Init, Pcsr
  <2> QED
    BY <2>1 DEF Init, DelayInv
<1>2. DelayInv /\ [Next]_vars => DelayInv'
  BY DelayStep
<1>3. DelayInv => FullPeriod
  <2>1. ASSUME DelayInv PROVE pmr \in Nat
    BY <2>1, TimersAssumption DEF DelayInv
  <2> QED
    BY <2>1 DEF DelayInv, FullPeriod
<1> QED
  BY <1>1, <1>2, <1>3, PTL DEF Spec

-----------------------------------------------------------------------------
(* The USB device controller and its bench *)

UsbTyped ==
  /\ DOMAIN td = Slots /\ DOMAIN op = Slots
  /\ epsr \subseteq Slots /\ stall \subseteq Slots /\ slots \subseteq Slots
  /\ request \in Slots

\* Before the guest has programmed its list nothing is primed, and there is
\* nothing to answer.
ListFirst ==
  /\ boot \in {"list", "up"} => eplist
  /\ ~ eplist => epsr = {} /\ ~ setupsr /\ isr # "answer"

\* A host that is not there waits for nothing.
Alone == ~ host_fd => \A s \in Slots : op[s] = None

UsbInv == UsbTyped /\ ListFirst /\ Alone /\ NobodyWaits

\* Where operations and primed chains have met, none is left that could.
LEMMA MeetMeets ==
  ASSUME NEW primed \in SUBSET Slots, NEW chains, NEW ops,
         \A s \in primed : chains[s] # <<>>,
         Meet(primed, chains, ops)
  PROVE  /\ DOMAIN td' = Slots /\ DOMAIN op' = Slots /\ epsr' \subseteq Slots
         /\ \A s \in Slots : ops[s] = None => op'[s] = None
         /\ host_fd /\ eplist => \A s \in epsr' : op'[s] = None
         /\ \A s \in epsr' : td'[s] # <<>>
<1> DEFINE met == IF host_fd /\ eplist THEN {s \in primed : ops[s] # None} ELSE {}
           rest == [s \in Slots |-> IF s \in met THEN Rest(s, chains[s], ops[s]) ELSE chains[s]]
<1>1. /\ td' = rest
      /\ op' = [s \in Slots |-> IF s \in met THEN None ELSE ops[s]]
      /\ epsr' = {s \in primed : s \in met => rest[s] # <<>>}
  BY DEF Meet
<1>2. DOMAIN td' = Slots /\ DOMAIN op' = Slots /\ epsr' \subseteq Slots
  BY <1>1
<1>3. \A s \in Slots : ops[s] = None => op'[s] = None
  BY <1>1
<1>4. ASSUME host_fd, eplist, NEW s \in epsr' PROVE op'[s] = None
  <2>1. s \in primed /\ s \in Slots
    BY <1>1
  <2>2. CASE ops[s] = None
    BY <1>3, <2>1, <2>2
  <2>3. CASE s \in met
    BY <1>1, <2>1, <2>3
  <2> QED
    BY <1>4, <2>1, <2>2, <2>3
<1>5. ASSUME NEW s \in epsr' PROVE td'[s] # <<>>
  <2>1. s \in primed /\ s \in Slots /\ (s \in met => rest[s] # <<>>)
    BY <1>1
  <2>2. s \notin met => rest[s] = chains[s]
    BY <2>1
  <2> QED
    BY <1>1, <2>1, <2>2
<1> QED
  BY <1>2, <1>3, <1>4, <1>5

\* What primes an endpoint, or asks it for something.
LEMMA MeetingKeeps ==
  ASSUME UsbInv,
         \/ \E s \in slots, n \in Lengths : Ask(s, n)
         \/ \E s \in slots : Queue(s)
         \/ AnswerSetup
  PROVE  UsbInv'
<1> USE DEF UsbInv
<1>1. ASSUME NEW primed \in SUBSET Slots, NEW chains, NEW ops,
             \A s \in primed : chains[s] # <<>>,
             \A s \in stall : ops[s] = None,
             ~ host_fd => \A s \in Slots : ops[s] = None,
             ~ eplist => primed = {} /\ epsr' = epsr,
             Meet(primed, chains, ops),
             UNCHANGED <<slots, setupVars, eplist, stall, host_fd, boot>>,
             isr' # "answer" \/ UNCHANGED isr
      PROVE  UsbInv'
  <2>1. /\ DOMAIN td' = Slots /\ DOMAIN op' = Slots /\ epsr' \subseteq Slots
        /\ \A s \in Slots : ops[s] = None => op'[s] = None
        /\ host_fd /\ eplist => \A s \in epsr' : op'[s] = None
        /\ \A s \in epsr' : td'[s] # <<>>
    BY <1>1, MeetMeets
  <2>2. UsbTyped'
    BY <1>1, <2>1 DEF UsbTyped, setupVars
  <2>3. ListFirst'
    BY <1>1 DEF ListFirst, setupVars
  <2>4. Alone'
    BY <1>1, <2>1 DEF Alone
  <2>5. NobodyWaits'
    BY <1>1, <2>1 DEF NobodyWaits, UsbTyped
  <2> QED
    BY <2>2, <2>3, <2>4, <2>5
<1>2. ASSUME NEW s \in slots, NEW n \in Lengths, Ask(s, n) PROVE UsbInv'
  <2> DEFINE ops == Unstalled(stall, [op EXCEPT ![s] = n])
  <2>1. \A t \in stall : ops[t] = None
    BY DEF Unstalled, UsbTyped
  <2>2. Meet(epsr, td, ops) /\ host_fd
    BY <1>2 DEF Ask
  <2>3. ~ eplist => epsr = {} /\ epsr' = epsr
    BY <2>2 DEF ListFirst, Meet
  <2> QED
    BY <1>1, <1>2, <2>1, <2>2, <2>3 DEF Ask, UsbTyped, NobodyWaits, firmwareVars
<1>3. ASSUME NEW s \in slots, Queue(s) PROVE UsbInv'
  <2>1. PICK chain \in Chains : Prime(s, chain)
    BY <1>3 DEF Queue
  <2>2. chain # <<>>
    BY DEF Chains
  <2>3. s \in Slots /\ eplist
    BY <1>3 DEF Queue, UsbTyped, ListFirst
  <2>4. \A t \in epsr \cup {s} : [td EXCEPT ![s] = chain][t] # <<>>
    BY <2>2, <2>3 DEF UsbTyped, NobodyWaits
  <2>5. Meet(epsr \cup {s}, [td EXCEPT ![s] = chain], op)
    BY <2>1 DEF Prime
  <2>6. /\ UNCHANGED <<slots, setupVars, eplist, stall, host_fd, boot, isr>>
        /\ epsr \cup {s} \in SUBSET Slots
    BY <1>3, <2>3 DEF Queue, UsbTyped
  <2> QED
    BY <1>1, <2>3, <2>4, <2>5, <2>6 DEF Alone, NobodyWaits
<1>4. CASE AnswerSetup
  <2>1. PICK n \in Lengths : Prime(request, <<n>>)
    BY <1>4 DEF AnswerSetup
  <2>2. request \in Slots /\ eplist /\ <<n>> # <<>>
    BY <1>4 DEF AnswerSetup, UsbTyped, ListFirst
  <2>3. \A t \in epsr \cup {request} : [td EXCEPT ![request] = <<n>>][t] # <<>>
    BY <2>2 DEF UsbTyped, NobodyWaits
  <2>4. Meet(epsr \cup {request}, [td EXCEPT ![request] = <<n>>], op)
    BY <2>1 DEF Prime
  <2>5. /\ UNCHANGED <<slots, setupVars, eplist, stall, host_fd, boot>> /\ isr' = "complete"
        /\ epsr \cup {request} \in SUBSET Slots
    BY <1>4, <2>2 DEF AnswerSetup, UsbTyped
  <2> QED
    BY <1>1, <2>2, <2>3, <2>4, <2>5 DEF Alone, NobodyWaits
<1> QED
  BY <1>2, <1>3, <1>4

\* Everything else takes operations or priming away, or touches neither.
LEMMA RetreatKeeps ==
  ASSUME UsbInv, DOMAIN td' = Slots, DOMAIN op' = Slots, UNCHANGED slots,
         request' \in Slots, stall' \subseteq Slots, epsr' \subseteq epsr,
         eplist => eplist', eplist' => eplist \/ epsr = {}, ListFirst',
         \A s \in Slots : op[s] = None => op'[s] = None,
         \A s \in stall' : op'[s] = None,
         \A s \in epsr' : td'[s] = td[s],
         host_fd' => host_fd \/ \A s \in Slots : op[s] = None,
         ~ host_fd' => \A s \in Slots : op'[s] = None
  PROVE  UsbInv'
<1> USE DEF UsbInv
<1>1. UsbTyped'
  BY DEF UsbTyped
<1>2. Alone'
  BY DEF Alone
<1>3. NobodyWaits'
  BY DEF NobodyWaits, UsbTyped
<1> QED
  BY <1>1, <1>2, <1>3

LEMMA UsbStep == UsbInv /\ [UsbNext]_usbVars => UsbInv'
<1> SUFFICES ASSUME UsbInv, [UsbNext]_usbVars
             PROVE  UsbInv'
  OBVIOUS
<1> USE DEF UsbInv
<1>1. CASE Connect
  <2>1. ListFirst'
    BY <1>1 DEF Connect, ListFirst, setupVars, epVars, firmwareVars
  <2> QED
    BY <1>1, <2>1, RetreatKeeps DEF Connect, UsbTyped, Alone, NobodyWaits, setupVars, epVars
<1>2. CASE Disconnect
  <2>1. ListFirst'
    BY <1>2 DEF Disconnect, ListFirst, setupVars, epVars, firmwareVars
  <2> QED
    BY <1>2, <2>1, RetreatKeeps DEF Disconnect, UsbTyped, setupVars, epVars
<1>3. ASSUME NEW r \in slots \cap Control, Setup(r) PROVE UsbInv'
  <2>1. ListFirst'
    BY <1>3 DEF Setup, ListFirst, epVars, firmwareVars
  <2> QED
    BY <1>3, <2>1, RetreatKeeps DEF Setup, UsbTyped, Alone, epVars
<1>4. CASE BusReset
  <2>1. ListFirst'
    BY <1>4 DEF BusReset, ListFirst, firmwareVars
  <2> QED
    BY <1>4, <2>1, RetreatKeeps DEF BusReset, UsbTyped, Alone, NobodyWaits
<1>5. CASE Stall
  <2>1. ListFirst'
    BY <1>5 DEF Stall, ListFirst, setupVars, epVars
  <2>2. /\ DOMAIN op' = Slots /\ \A s \in Slots : op[s] = None => op'[s] = None
        /\ \A s \in stall' : op'[s] = None
        /\ stall' \subseteq Slots
    BY <1>5 DEF Stall, Unstalled, UsbTyped
  <2> QED
    BY <1>5, <2>1, <2>2, RetreatKeeps DEF Stall, UsbTyped, Alone, setupVars, epVars
<1>6. CASE HandleReset
  <2>1. ListFirst'
    BY <1>6 DEF HandleReset, ListFirst
  <2> QED
    BY <1>6, <2>1, RetreatKeeps DEF HandleReset, UsbTyped, Alone, NobodyWaits, hostVars
<1>7. CASE ReadSetup
  <2>1. ListFirst'
    BY <1>7 DEF ReadSetup, ListFirst
  <2> QED
    BY <1>7, <2>1, RetreatKeeps DEF ReadSetup, UsbTyped, Alone, NobodyWaits, hostVars
<1>8. CASE SetList
  <2>1. ListFirst' /\ (epsr = {} \/ eplist)
    BY <1>8 DEF SetList, ListFirst
  <2> QED
    BY <1>8, <2>1, RetreatKeeps DEF SetList, UsbTyped, Alone, NobodyWaits, hostVars, setupVars, epVars
<1>9. CASE FrameSignal \/ Enable \/ AckSession \/ SetMask \/ ReadStatus \/ AckStatus \/ ReadComplete
           \/ Retire \/ UNCHANGED usbVars
  <2>1. UNCHANGED <<slots, eplist, setupVars, stall, epsr, td, hostVars>>
    BY <1>9 DEF FrameSignal, Enable, AckSession, SetMask, ReadStatus, AckStatus, ReadComplete, Retire,
                usbVars, epVars
  <2>2. (boot' \in {"list", "up"} => eplist) /\ (isr' # "answer" \/ UNCHANGED isr)
    BY <1>9 DEF FrameSignal, Enable, AckSession, SetMask, ReadStatus, AckStatus, ReadComplete, Retire,
                usbVars, firmwareVars, ListFirst
  <2>3. ListFirst'
    BY <2>1, <2>2 DEF ListFirst, setupVars
  <2> QED
    BY <2>1, <2>3, RetreatKeeps DEF UsbTyped, Alone, NobodyWaits, setupVars, hostVars
<1>10. CASE (\E s \in slots, n \in Lengths : Ask(s, n)) \/ (\E s \in slots : Queue(s)) \/ AnswerSetup
  BY <1>10, MeetingKeeps
<1> QED
  BY <1>1, <1>2, <1>3, <1>4, <1>5, <1>6, <1>7, <1>8, <1>9, <1>10
  DEF UsbNext, Host, BringUp, Handler

\* For any slots, lengths and chains: the guest's endpoint and the host's
\* operation never wait for each other (ot_usbh_try(), ot_usbh_stall_check()).
THEOREM NeverBothWait == UsbSpec => []NobodyWaits
<1>1. UsbInit => UsbInv
  <2> SUFFICES ASSUME UsbInit
               PROVE  UsbInv
    OBVIOUS
  <2>1. UsbTyped
    BY UsbAssumption DEF UsbInit, UsbTyped, Slots
  <2>2. ListFirst /\ Alone /\ NobodyWaits
    BY DEF UsbInit, ListFirst, Alone, NobodyWaits
  <2> QED
    BY <2>1, <2>2 DEF UsbInv
<1>2. UsbInv => NobodyWaits
  BY DEF UsbInv
<1> QED
  BY <1>1, <1>2, UsbStep, PTL DEF UsbSpec

-----------------------------------------------------------------------------
(* The panel UART *)

PanelInv == TypeOK /\ NothingStuck

LEMMA FrameTyped ==
  ASSUME NEW kind \in Kinds, NEW v \in Nat
  PROVE  Frame(kind, v) \in Seq(Byte)
<1>1. LengthOf(kind) \in Nat
  BY PanelAssumption DEF LengthOf
<1>2. \A i \in 1 .. LengthOf(kind) : [kind |-> kind, v |-> v, i |-> i] \in Byte
  BY <1>1 DEF Byte
<1>3. Frame(kind, v) \in [1 .. LengthOf(kind) -> Byte]
  BY <1>2 DEF Frame
<1> QED
  BY <1>1, <1>3, SeqDef

\* The two ends of a sequence, cut after n.
LEMMA Cut ==
  ASSUME NEW S, NEW s \in Seq(S), NEW n \in 0 .. Len(s)
  PROVE  /\ SubSeq(s, 1, n) \in Seq(S) /\ Len(SubSeq(s, 1, n)) = n
         /\ SubSeq(s, n + 1, Len(s)) \in Seq(S) /\ Len(SubSeq(s, n + 1, Len(s))) = Len(s) - n
<1>1. Len(s) \in Nat /\ \A i \in 1 .. Len(s) : s[i] \in S
  BY LenProperties, ElementOfSeq
<1>2. SubSeq(s, 1, n) \in Seq(S) /\ Len(SubSeq(s, 1, n)) = n
  BY <1>1, SubSeqProperties
<1>3. SubSeq(s, n + 1, Len(s)) \in Seq(S) /\ Len(SubSeq(s, n + 1, Len(s))) = Len(s) - n
  BY <1>1, SubSeqProperties
<1> QED
  BY <1>2, <1>3

\* What the pump leaves behind it leaves behind a full FIFO.
LEMMA PumpKeeps ==
  ASSUME NEW enabled \in BOOLEAN, NEW f \in Seq(Byte), NEW s \in Seq(Byte),
         Len(f) <= FIFO_DEPTH, Len(s) <= QUEUE_DEPTH,
         Pump(enabled, f, s)
  PROVE  /\ fifo' \in Seq(Byte) /\ Len(fifo') <= FIFO_DEPTH
         /\ q' \in Seq(Byte) /\ Len(q') <= QUEUE_DEPTH
         /\ RxRDY' = (fifo' # <<>>) /\ irq' = (fifo' # <<>>)
         /\ enabled /\ q' # <<>> => Len(fifo') = FIFO_DEPTH
<1> DEFINE n == IF enabled THEN Shorter(FIFO_DEPTH - Len(f), Len(s)) ELSE 0
<1>1. Len(f) \in Nat /\ Len(s) \in Nat /\ FIFO_DEPTH \in Nat /\ QUEUE_DEPTH \in Nat
  BY PanelAssumption, LenProperties
<1>2. /\ fifo' = f \o SubSeq(s, 1, n)
      /\ q' = SubSeq(s, n + 1, Len(s))
      /\ RxRDY' = (fifo' # <<>>) /\ irq' = (fifo' # <<>>)
  BY DEF Pump, Update
<1>3. n \in 0 .. Len(s) /\ n <= FIFO_DEPTH - Len(f)
  BY <1>1 DEF Shorter
<1>4. /\ SubSeq(s, 1, n) \in Seq(Byte) /\ Len(SubSeq(s, 1, n)) = n
      /\ q' \in Seq(Byte) /\ Len(q') = Len(s) - n
  BY <1>2, <1>3, Cut
<1>5. fifo' \in Seq(Byte) /\ Len(fifo') = Len(f) + n
  BY <1>2, <1>4, ConcatProperties
<1>6. Len(fifo') <= FIFO_DEPTH /\ Len(q') <= QUEUE_DEPTH
  BY <1>1, <1>3, <1>4, <1>5
<1>7. ASSUME enabled, q' # <<>> PROVE Len(fifo') = FIFO_DEPTH
  <2>1. Len(q') > 0
    BY <1>4, <1>7, EmptySeq
  <2>2. n = FIFO_DEPTH - Len(f)
    BY <1>1, <1>4, <1>7, <2>1 DEF Shorter
  <2> QED
    BY <1>1, <1>5, <2>2
<1> QED
  BY <1>2, <1>4, <1>5, <1>6, <1>7

LEMMA StageKeeps ==
  ASSUME PanelInv, NEW bytes \in Seq(Byte), Stage(bytes), UNCHANGED rx_enabled
  PROVE  /\ fifo' \in Seq(Byte) /\ Len(fifo') <= FIFO_DEPTH
         /\ q' \in Seq(Byte) /\ Len(q') <= QUEUE_DEPTH
         /\ RxRDY' \in BOOLEAN /\ irq' \in BOOLEAN
         /\ NothingStuck'
<1> DEFINE n == Shorter(QUEUE_DEPTH - Len(q), Len(bytes))
<1>1. /\ q \in Seq(Byte) /\ fifo \in Seq(Byte) /\ Len(fifo) <= FIFO_DEPTH /\ rx_enabled \in BOOLEAN
      /\ Len(q) \in Nat /\ Len(q) <= QUEUE_DEPTH /\ Len(bytes) \in Nat /\ QUEUE_DEPTH \in Nat
  BY PanelAssumption, LenProperties DEF PanelInv, TypeOK
<1>2. n \in 0 .. Len(bytes) /\ n <= QUEUE_DEPTH - Len(q)
  BY <1>1 DEF Shorter
<1>3. SubSeq(bytes, 1, n) \in Seq(Byte) /\ Len(SubSeq(bytes, 1, n)) = n
  BY <1>2, Cut
<1>4. Staged(bytes) \in Seq(Byte) /\ Len(Staged(bytes)) = Len(q) + n
  BY <1>1, <1>3, ConcatProperties DEF Staged
<1>5. Len(Staged(bytes)) <= QUEUE_DEPTH
  BY <1>1, <1>2, <1>4
<1>6. Pump(rx_enabled, fifo, Staged(bytes))
  BY DEF Stage
<1> HIDE DEF n
<1> QED
  BY <1>1, <1>4, <1>5, <1>6, PumpKeeps DEF NothingStuck

LEMMA NoByteTyped == NoByte \in Byte
BY DEF NoByte, Byte, Kinds

LEMMA SendTyped ==
  ASSUME sock \in Seq(Byte), NEW f \in Seq(Byte), Send(f)
  PROVE  sock' \in Seq(Byte)
BY ConcatProperties DEF Send

LEMMA FrameOf ==
  ASSUME NEW v \in 0 .. 1
  PROVE  Frame("key", v) \in Seq(Byte) /\ Frame("fader", v) \in Seq(Byte)
         /\ Frame("lamp", v) \in Seq(Byte)
<1>1. v \in Nat /\ "key" \in Kinds /\ "fader" \in Kinds /\ "lamp" \in Kinds
  BY DEF Kinds
<1> QED
  BY <1>1, FrameTyped

\* A step that leaves the receiver alone leaves nothing stuck.
LEMMA Elsewhere ==
  ASSUME NothingStuck, UNCHANGED rxVars
  PROVE  NothingStuck'
BY DEF NothingStuck, rxVars

LEMMA ClientStep == PanelInv /\ Client => PanelInv'
<1> SUFFICES ASSUME PanelInv, Client
             PROVE  PanelInv'
  OBVIOUS
<1> USE DEF PanelInv, TypeOK
<1>1. ASSUME NEW v \in 0 .. 1, Key(v) PROVE PanelInv'
  <2>1. Frame("key", v) \in Seq(Byte)
    BY FrameOf
  <2>2. sock' \in Seq(Byte)
    BY <1>1, <2>1, SendTyped DEF Key
  <2>3. dropped' \in BOOLEAN
    BY <1>1 DEF Key
  <2> QED
    BY <1>1, <2>2, <2>3, Elsewhere DEF Key, lampVars, rxVars, txVars, guestVars, learnVars
<1>2. ASSUME NEW v \in 0 .. 1, Fader(v) PROVE PanelInv'
  <2>1. Frame("fader", v) \in Seq(Byte)
    BY FrameOf
  <2> QED
    BY <1>2, <2>1, Elsewhere DEF Fader, lampVars, rxVars, txVars, guestVars, learnVars
<1>3. CASE MainSend
  <2>1. sock' \in Seq(Byte)
    BY <1>3, SendTyped DEF MainSend
  <2> QED
    BY <1>3, <2>1, EmptySeq, Elsewhere DEF MainSend, lampVars, rxVars, txVars, guestVars, learnVars
<1>4. CASE Beat
  <2>1. Frame("fader", xfader) \in Seq(Byte)
    BY FrameOf
  <2> QED
    BY <1>4, <2>1, Elsewhere DEF Beat, lampVars, rxVars, txVars, guestVars, learnVars
<1>5. CASE BeatSend
  <2>1. sock' \in Seq(Byte)
    BY <1>5, SendTyped DEF BeatSend
  <2> QED
    BY <1>5, <2>1, EmptySeq, Elsewhere DEF BeatSend, lampVars, rxVars, txVars, guestVars, learnVars
<1>6. CASE Accept
  BY <1>6, Elsewhere DEF Accept, lampVars, rxVars, txVars, guestVars, learnVars
<1>7. CASE PanelRx
  <2>1. Head(wire) \in Byte /\ Tail(wire) \in Seq(Byte)
    BY <1>7, HeadTailProperties DEF PanelRx
  <2>2. c_pkt' \in Byte /\ lit' \in Nat
    BY <1>7, <2>1, NoByteTyped DEF PanelRx, Byte
  <2> QED
    BY <1>7, <2>1, <2>2, Elsewhere DEF PanelRx, clientVars, rxVars, txVars, guestVars, learnVars
<1> QED
  BY <1>1, <1>2, <1>3, <1>4, <1>5, <1>6, <1>7 DEF Client

LEMMA UartStep == PanelInv /\ Uart => PanelInv'
<1> SUFFICES ASSUME PanelInv, Uart
             PROVE  PanelInv'
  OBVIOUS
<1>1. CASE Receive
  <2>1. sock \in Seq(Byte) /\ Len(sock) \in Nat /\ Len(q) \in Nat /\ QUEUE_DEPTH \in Nat
    BY PanelAssumption, LenProperties DEF PanelInv, TypeOK
  <2>2. Taken \in 0 .. Len(sock)
    BY <1>1, <2>1 DEF Receive, Taken, Shorter
  <2>3. SubSeq(sock, 1, Taken) \in Seq(Byte) /\ sock' \in Seq(Byte)
    BY <1>1, <2>1, <2>2, Cut DEF Receive
  <2> QED
    BY <1>1, <2>3, StageKeeps
    DEF PanelInv, TypeOK, Receive, clientVars, lampVars, txVars, guestVars, learnVars
<1>2. CASE ReplyLater
  <2>1. Frame("ten", ver_query) \in Seq(Byte)
    BY FrameTyped DEF PanelInv, TypeOK, Kinds
  <2>2. cut' \in BOOLEAN
    BY <1>2 DEF ReplyLater, PanelInv, TypeOK, Overflows
  <2> QED
    BY <1>2, <2>1, <2>2, StageKeeps
    DEF PanelInv, TypeOK, ReplyLater, clientVars, lampVars, guestVars, learnVars
<1> QED
  BY <1>1, <1>2 DEF Uart

LEMMA GuestStep == PanelInv /\ Guest => PanelInv'
<1> SUFFICES ASSUME PanelInv, Guest
             PROVE  PanelInv'
  OBVIOUS
<1> USE DEF PanelInv, TypeOK
<1>1. CASE Read
  <2>1. fifo # <<>>
    BY <1>1 DEF Read, NothingStuck
  <2>2. Head(fifo) \in Byte /\ Tail(fifo) \in Seq(Byte) /\ Len(Tail(fifo)) = Len(fifo) - 1
    BY <2>1, HeadTailProperties
  <2>3. Len(Tail(fifo)) <= FIFO_DEPTH
    BY <2>2, PanelAssumption, LenProperties
  <2>4. /\ fifo' \in Seq(Byte) /\ Len(fifo') <= FIFO_DEPTH
        /\ q' \in Seq(Byte) /\ Len(q') <= QUEUE_DEPTH
        /\ RxRDY' = (fifo' # <<>>) /\ irq' = (fifo' # <<>>)
        /\ rx_enabled /\ q' # <<>> => Len(fifo') = FIFO_DEPTH
    BY <1>1, <2>2, <2>3, PumpKeeps DEF Read
  <2>5. /\ last' \in Byte /\ heldKeys' \in Nat /\ heldFader' \in Nat
        /\ fives' \in Nat /\ tens' \in Nat /\ spoiled' \in BOOLEAN
    BY <1>1, <2>2, NoByteTyped DEF Read, Byte, Follows
  <2>6. NothingStuck'
    BY <1>1, <2>4 DEF Read, NothingStuck
  <2> QED
    BY <1>1, <2>4, <2>5, <2>6 DEF Read, clientVars, lampVars, txVars, guestVars
<1>2. CASE RxOn
  <2>1. /\ fifo' \in Seq(Byte) /\ Len(fifo') <= FIFO_DEPTH
        /\ q' \in Seq(Byte) /\ Len(q') <= QUEUE_DEPTH
        /\ RxRDY' = (fifo' # <<>>) /\ irq' = (fifo' # <<>>)
        /\ q' # <<>> => Len(fifo') = FIFO_DEPTH
    BY <1>2, PumpKeeps DEF RxOn
  <2> QED
    BY <1>2, <2>1 DEF RxOn, NothingStuck, clientVars, lampVars, txVars, guestVars, learnVars
<1>3. CASE RxOff
  BY <1>3 DEF RxOff, NothingStuck, clientVars, lampVars, txVars, guestVars, learnVars
<1>4. CASE RxReset
  <2>1. <<>> \in Seq(Byte) /\ Len(<<>>) <= FIFO_DEPTH
    BY EmptySeq, PanelAssumption
  <2>2. NothingStuck'
    BY <1>4 DEF RxReset, Update, NothingStuck
  <2>3. spoiled' \in BOOLEAN /\ cut' \in BOOLEAN /\ RxRDY' \in BOOLEAN /\ irq' \in BOOLEAN
    BY <1>4 DEF RxReset, Update, Carries
  <2> QED
    BY <1>4, <2>1, <2>2, <2>3, NoByteTyped DEF RxReset, clientVars, lampVars, txVars
<1>5. CASE NewFrame
  <2>1. lamp' \in 0 .. 1 /\ queries' \in Nat
    BY <1>5 DEF NewFrame
  <2>2. out' = Frame("lamp", lamp') \/ out' = Frame("query", queries')
    BY <1>5 DEF NewFrame
  <2>3. out' \in Seq(Byte)
    <3>1. queries' \in Nat /\ "query" \in Kinds
      BY <2>1 DEF Kinds
    <3> QED
      BY <2>1, <2>2, <3>1, FrameOf, FrameTyped
  <2> QED
    BY <1>5, <2>1, <2>3, Elsewhere DEF NewFrame, clientVars, lampVars, rxVars, txVars, learnVars
<1>6. CASE Write
  <2>1. Head(out) \in Byte /\ Tail(out) \in Seq(Byte)
    BY <1>6, HeadTailProperties DEF Write
  <2>2. Append(wire, Head(out)) \in Seq(Byte)
    BY <2>1, AppendProperties
  <2>3. /\ wire' \in Seq(Byte) /\ out' \in Seq(Byte) /\ pkt' \in Byte
        /\ consuming' \in BOOLEAN
    BY <1>6, <2>1, <2>2, NoByteTyped DEF Write
  <2>4. UNCHANGED <<clientVars, lampVars, sock, rx_enabled, lamp, queries, reset, learnVars,
                    dropped, spoiled>>
    BY <1>6 DEF Write
  <2>5. CASE Answer(Head(out).v)
    <3>1. Head(out).v \in Nat
      BY <2>1 DEF Byte
    <3>2. Frame("five", Head(out).v) \in Seq(Byte)
      BY <3>1, FrameTyped DEF Kinds
    <3>3. cut' \in BOOLEAN /\ ver_query' \in Nat /\ timer' \in BOOLEAN
      BY <2>5, <3>1 DEF Answer, Overflows
    <3>4. Stage(Frame("five", Head(out).v)) /\ UNCHANGED rx_enabled
      BY <2>4, <2>5 DEF Answer
    <3>5. /\ fifo' \in Seq(Byte) /\ Len(fifo') <= FIFO_DEPTH
          /\ q' \in Seq(Byte) /\ Len(q') <= QUEUE_DEPTH
          /\ RxRDY' \in BOOLEAN /\ irq' \in BOOLEAN
          /\ NothingStuck'
      BY <3>2, <3>4, StageKeeps
    <3> QED
      BY <2>3, <2>4, <3>3, <3>5 DEF clientVars, lampVars, learnVars
  <2>6. CASE UNCHANGED <<RxRDY, irq, fifo, q, timer, ver_query, cut>>
    BY <2>3, <2>4, <2>6, Elsewhere DEF clientVars, lampVars, learnVars, rxVars
  <2> QED
    BY <1>6, <2>5, <2>6 DEF Write
<1> QED
  BY <1>1, <1>2, <1>3, <1>4, <1>5, <1>6 DEF Guest

\* The invariant that the two theorems below rest on.
LEMMA PanelInvariance == PanelSpec => []PanelInv
<1>1. PanelInit => PanelInv
  <2> SUFFICES ASSUME PanelInit
               PROVE  PanelInv
    OBVIOUS
  <2>1. <<>> \in Seq(Byte) /\ Len(<<>>) <= FIFO_DEPTH /\ Len(<<>>) <= QUEUE_DEPTH
    BY EmptySeq, PanelAssumption
  <2>2. TypeOK
    <3>1. /\ hand \in Seq(Byte) /\ beat \in Seq(Byte) /\ sock \in Seq(Byte) /\ wire \in Seq(Byte)
          /\ fifo \in Seq(Byte) /\ Len(fifo) <= FIFO_DEPTH
          /\ q \in Seq(Byte) /\ Len(q) <= QUEUE_DEPTH /\ out \in Seq(Byte)
      BY <2>1 DEF PanelInit
    <3>2. c_pkt \in Byte /\ pkt \in Byte /\ last \in Byte
      BY NoByteTyped DEF PanelInit
    <3>3. /\ keys \in 0 .. 1 /\ xfader \in 0 .. 1 /\ lit \in Nat /\ ver_query \in Nat
          /\ lamp \in 0 .. 1 /\ queries \in Nat
          /\ heldKeys \in Nat /\ heldFader \in Nat /\ fives \in Nat /\ tens \in Nat
      BY DEF PanelInit
    <3>4. /\ fd \in BOOLEAN /\ rx_enabled \in BOOLEAN /\ RxRDY \in BOOLEAN /\ irq \in BOOLEAN
          /\ consuming \in BOOLEAN /\ timer \in BOOLEAN /\ reset \in BOOLEAN
          /\ dropped \in BOOLEAN /\ spoiled \in BOOLEAN /\ cut \in BOOLEAN
      BY Zenon DEF PanelInit
    <3> QED
      BY <3>1, <3>2, <3>3, <3>4 DEF TypeOK
  <2>3. NothingStuck
    BY DEF PanelInit, NothingStuck
  <2> QED
    BY <2>2, <2>3 DEF PanelInv
<1>2. PanelInv /\ [PanelNext]_panelVars => PanelInv'
  <2>1. PanelInv /\ UNCHANGED panelVars => PanelInv'
    BY DEF PanelInv, TypeOK, NothingStuck, panelVars, clientVars, lampVars, rxVars, txVars, guestVars,
           learnVars
  <2> QED
    BY <2>1, ClientStep, UartStep, GuestStep DEF PanelNext
<1> QED
  BY <1>1, <1>2, PTL DEF PanelSpec

\* For any FIFO, queue, socket and replies: every variable keeps its type, and
\* the FIFO and the queue their bounds.
THEOREM PanelTypeCorrect == PanelSpec => []TypeOK
<1>1. PanelSpec => []PanelInv
  BY PanelInvariance
<1>2. PanelInv => TypeOK
  BY DEF PanelInv
<1> QED
  BY <1>1, <1>2, PTL

\* For any FIFO, queue, socket and replies: the guest is interrupted for every
\* byte it could read, and no byte waits behind a FIFO with room
\* (ot_panel_pump(), ot_panel_update()).
THEOREM NothingStaysStuck == PanelSpec => []NothingStuck
<1>1. PanelSpec => []PanelInv
  BY PanelInvariance
<1>2. PanelInv => NothingStuck
  BY DEF PanelInv
<1> QED
  BY <1>1, <1>2, PTL
=============================================================================
