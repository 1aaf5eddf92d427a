------------------------ MODULE BatteryStatsRefinement ------------------------
(***************************************************************************)
(* Proof, for every set of uids, stats types, threads, power table and    *)
(* clock bound, that the engine's timers implement the abstract time      *)
(* accounting of AbstractStats under the mapping of BatteryStats:          *)
(* on <- active, accrued[k] <- GetRunningTimeMs(timer[k]).                 *)
(*                                                                         *)
(* A clock tick adds one unit to exactly the timers that run, and battery *)
(* gating says these are the ACTIVE behaviours on battery; StartRunning    *)
(* and StopRunning move time between the live and the flushed part of a  *)
(* timer without changing the running time; Reset zeroes it.  The query   *)
(* handlers' steps touch none of the mapped state and are stutters.        *)
(***************************************************************************)
EXTENDS BatteryStatsProofs

\* The running time of a timer read at clock n: GetRunningTimeMs with the
\* clock as a parameter, so that the time before and after a step can be
\* named.
RunTime(tm, n) ==
  tm.total + (IF tm.running THEN (IF n > tm.start THEN n - tm.start ELSE 0)
                            ELSE 0)

\* The mapped accrued times before and after a step.
AccNow == [k \in Keys |-> RunTime(timer[k], now)]
AccNext == [k \in Keys |-> RunTime(timer'[k], now')]

RefInv == TypeOK /\ TimerInv /\ GatingInv

-----------------------------------------------------------------------------
\* The refinement mapping's accrued function is AccNow, and its primed
\* form AccNext.
LEMMA MappedAccrued ==
  /\ [k \in Keys |-> GetRunningTimeMs(timer[k])] = AccNow
  /\ [k \in Keys |-> GetRunningTimeMs(timer[k])]' = AccNext
BY DEF GetRunningTimeMs, Elapsed, RunTime, AccNow, AccNext

\* StartRunning and StopRunning leave a well-formed timer's running time
\* as it was: they only move time between its live and flushed parts.
LEMMA RunTimeKept ==
  ASSUME NEW tm, now \in 0..MaxTime, TimerOK(tm)
  PROVE  /\ RunTime(StartRunning(tm), now) = RunTime(tm, now)
         /\ RunTime(StopRunning(tm), now) = RunTime(tm, now)
<1>1. /\ tm.running \in BOOLEAN
      /\ tm.start \in 0..MaxTime
      /\ tm.total \in 0..MaxTime
      /\ tm.start <= now
  BY DEF TimerOK, TimerOKAt, Timer
<1>2. tm = [running |-> tm.running, start |-> tm.start, total |-> tm.total]
  BY DEF TimerOK, TimerOKAt, Timer
<1>3. CASE tm.running
  BY <1>1, <1>2, <1>3 DEF StartRunning, StopRunning, Elapsed, RunTime
<1>4. CASE ~tm.running
  BY <1>1, <1>2, <1>4 DEF StartRunning, StopRunning, RunTime
<1>. QED
  BY <1>3, <1>4

\* One clock unit adds one to the running time of a running timer and
\* nothing to a stopped one.
LEMMA RunTimeTick ==
  ASSUME NEW tm, now \in 0..MaxTime, TimerOK(tm)
  PROVE  RunTime(tm, now + 1) =
           IF tm.running THEN RunTime(tm, now) + 1 ELSE RunTime(tm, now)
BY DEF TimerOK, TimerOKAt, Timer, RunTime

\* A timer Reset leaves behind has run for no time.
LEMMA RunTimeStopped == \A n : RunTime(StoppedTimer, n) = 0
BY DEF RunTime, StoppedTimer

\* Type correctness, timer well-formedness and battery gating hold in
\* every reachable state.
LEMMA RefInvariant == Spec => []RefInv
<1>1. Init => RefInv
  BY TypeInit DEF Init, RefInv, GatingInv, StoppedTimer
<1>2. RefInv /\ [Next]_vars => RefInv'
  BY TypeStep, GatingStep DEF RefInv
<1>. QED
  BY <1>1, <1>2, PTL DEF Spec

-----------------------------------------------------------------------------
\* Every step of the engine, in a state where the invariants hold, is a
\* step of the abstract accounting or leaves its state unchanged.
LEMMA RefStep == RefInv /\ [Next]_vars => [Abs!Next]_Abs!vars
<1> SUFFICES ASSUME RefInv, [Next]_vars PROVE [Abs!Next]_Abs!vars
  OBVIOUS
<1>1. \A k \in Keys : TimerOK(timer[k])
  BY TimersOK DEF RefInv
<1>2. now \in 0..MaxTime
  BY DEF RefInv, TypeOK
<1>3. /\ [k \in Keys |-> GetRunningTimeMs(timer[k])] = AccNow
      /\ [k \in Keys |-> GetRunningTimeMs(timer[k])]' = AccNext
  BY MappedAccrued
<1>4. CASE Tick
  <2>1. ASSUME NEW k \in Keys
        PROVE  AccNext[k] = IF active[k] /\ onBattery THEN AccNow[k] + 1
                                                      ELSE AccNow[k]
    <3>1. RunTime(timer[k], now + 1) =
            IF timer[k].running THEN RunTime(timer[k], now) + 1
                                ELSE RunTime(timer[k], now)
      BY <1>1, <1>2, RunTimeTick
    <3>2. timer[k].running <=> active[k] /\ onBattery
      BY DEF RefInv, GatingInv
    <3>3. timer' = timer /\ now' = now + 1
      BY <1>4 DEF Tick
    <3>. QED
      BY <3>1, <3>2, <3>3 DEF AccNow, AccNext
  <2>2. AccNext = [k \in Keys |-> IF active[k] /\ onBattery THEN AccNow[k] + 1
                                                           ELSE AccNow[k]]
    BY <2>1 DEF AccNext
  <2>3. Abs!Tick
    BY <1>3, <1>4, <2>2 DEF Tick, Abs!Tick
  <2>. QED
    BY <2>3 DEF Abs!Next
<1>5. ASSUME NEW t \in Types, NEW u \in Uids, NEW st \in States,
             OnEvent(t, u, st)
      PROVE  [Abs!Next]_Abs!vars
  <2> DEFINE k0 == KeyOf(t, u)
  <2>1. k0 \in Keys
    BY KeyOfInKeys
  <2>2. /\ timer' = [timer EXCEPT ![k0] =
                       IF st = OFF THEN StopRunning(timer[k0])
                       ELSE IF onBattery THEN StartRunning(timer[k0])
                       ELSE timer[k0]]
        /\ active' = [active EXCEPT ![k0] = (st = ON)]
        /\ UNCHANGED <<now, onBattery>>
    BY <1>5 DEF OnEvent
  <2>3. RunTime(timer'[k0], now) = RunTime(timer[k0], now)
    BY <1>1, <1>2, <2>1, <2>2, RunTimeKept DEF RefInv, TypeOK
  <2>4. AccNext = AccNow
    BY <2>1, <2>2, <2>3 DEF AccNow, AccNext
  <2>5. Abs!Switch(k0, st = ON)
    BY <1>3, <2>2, <2>4 DEF Abs!Switch
  <2>. QED
    BY <2>1, <2>5 DEF Abs!Next
<1>6. ASSUME NEW b \in BOOLEAN, SetOnBattery(b)
      PROVE  [Abs!Next]_Abs!vars
  <2>1. ASSUME NEW k \in Keys
        PROVE  RunTime(timer'[k], now) = RunTime(timer[k], now)
    BY <1>1, <1>2, <1>6, RunTimeKept DEF SetOnBattery
  <2>2. UNCHANGED <<now, active>>
    BY <1>6 DEF SetOnBattery
  <2>3. AccNext = AccNow
    BY <2>1, <2>2 DEF AccNow, AccNext
  <2>4. Abs!SetBattery(b)
    BY <1>3, <1>6, <2>2, <2>3 DEF SetOnBattery, Abs!SetBattery
  <2>. QED
    BY <2>4 DEF Abs!Next
<1>7. CASE Reset
  <2>1. AccNext = [k \in Keys |-> 0]
    BY <1>7, RunTimeStopped DEF Reset, AccNext
  <2>2. Abs!Reset
    BY <1>3, <1>7, <2>1 DEF Reset, Abs!Reset
  <2>. QED
    BY <2>2 DEF Abs!Next
<1>8. CASE UNCHANGED <<now, onBattery, active, timer>>
  <2>1. AccNext = AccNow
    BY <1>8 DEF AccNow, AccNext
  <2>. QED
    BY <1>3, <1>8, <2>1 DEF Abs!vars
<1>. QED
  BY <1>4, <1>5, <1>6, <1>7, <1>8
     DEF Next, vars, ComputePower, ReturnAnswer

\* The engine implements the abstract accounting (spec.md 3, 4.1, 4.3):
\* what GetRunningTimeMs reports for a behaviour is exactly the time it
\* has been ACTIVE on battery since the last Reset, through every
\* interleaving of start/stop reports, SetOnBattery toggles, Reset and
\* query handlers.
THEOREM RefinesAbstract == Spec => AbsSpec
<1>1. Init => Abs!Init
  <2> SUFFICES ASSUME Init PROVE Abs!Init
    OBVIOUS
  <2>1. [k \in Keys |-> GetRunningTimeMs(timer[k])] = [k \in Keys |-> 0]
    BY RunTimeStopped, MappedAccrued DEF Init, AccNow
  <2>. QED
    BY <2>1 DEF Init, Abs!Init
<1>. QED
  BY <1>1, RefStep, RefInvariant, PTL DEF Spec, AbsSpec, Abs!Spec
=============================================================================
