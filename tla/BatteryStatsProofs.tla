-------------------------- MODULE BatteryStatsProofs --------------------------
(***************************************************************************)
(* Proofs about the stats aggregation engine, for every set of uids,      *)
(* stats types, handler threads, power table and clock bound: its state   *)
(* stays well typed and battery gating holds in every state.              *)
(***************************************************************************)
EXTENDS BatteryStats, TLAPS

\* A well-formed ActiveTimer at the current clock: its start and its
\* flushed total are in the past, and a running timer has flushed no more
\* than the time before its start.
TimerOKAt(tm, n) ==
  /\ tm \in Timer
  /\ tm.start <= n
  /\ tm.total <= n
  /\ tm.running => tm.total <= tm.start
TimerOK(tm) == TimerOKAt(tm, now)

\* The part of the strengthening the type invariant needs.
TimerInv == \A k \in Keys : timer[k].running => timer[k].total <= timer[k].start

-----------------------------------------------------------------------------
(* Lemmas on the parser lookup and the timer operations.                   *)

\* A power-table lookup is a natural number, for a missing key too.
LEMMA PowerMaNat == \A k : PowerMa(k) \in Nat
BY ConstantsAssumption DEF PowerMa, GetAveragePowerMa

\* StartRunning and StopRunning keep a timer well formed, leave it running
\* and stopped respectively, and a well-formed timer's running time is a
\* natural number.
LEMMA TimerOps ==
  ASSUME NEW tm, now \in 0..MaxTime, TimerOK(tm)
  PROVE  /\ TimerOK(StartRunning(tm))
         /\ TimerOK(StopRunning(tm))
         /\ StartRunning(tm).running = TRUE
         /\ StopRunning(tm).running = FALSE
         /\ GetRunningTimeMs(tm) \in Nat
<1>1. tm = [running |-> tm.running, start |-> tm.start, total |-> tm.total]
  BY DEF TimerOK, TimerOKAt, Timer
<1>2. /\ tm.running \in BOOLEAN
      /\ tm.start \in 0..MaxTime
      /\ tm.total \in 0..MaxTime
  BY DEF TimerOK, TimerOKAt, Timer
<1>3. Elapsed(tm) \in 0..now /\ tm.start + Elapsed(tm) = now
  BY <1>2 DEF TimerOK, TimerOKAt, Elapsed
<1>4. CASE tm.running
  <2>1. StartRunning(tm) = tm
    BY <1>4 DEF StartRunning
  <2>2. StopRunning(tm) =
          [running |-> FALSE, start |-> tm.start,
           total |-> tm.total + Elapsed(tm)]
    BY <1>1, <1>4 DEF StopRunning
  <2>3. tm.total + Elapsed(tm) \in 0..now
    BY <1>2, <1>3, <1>4 DEF TimerOK, TimerOKAt
  <2>4. GetRunningTimeMs(tm) = tm.total + Elapsed(tm)
    BY <1>4 DEF GetRunningTimeMs
  <2>5. tm.total + Elapsed(tm) \in 0..MaxTime
    BY <2>3, ConstantsAssumption
  <2>6. StopRunning(tm) \in Timer
    BY <1>2, <2>2, <2>5 DEF Timer
  <2>7. TimerOK(StopRunning(tm))
    BY <1>2, <2>2, <2>3, <2>6 DEF TimerOK, TimerOKAt
  <2>. QED
    BY <1>4, <2>1, <2>2, <2>3, <2>4, <2>7 DEF TimerOK, TimerOKAt
<1>5. CASE ~tm.running
  <2>1. StartRunning(tm) =
          [running |-> TRUE, start |-> now, total |-> tm.total]
    BY <1>1, <1>5 DEF StartRunning
  <2>2. StopRunning(tm) = tm
    BY <1>5 DEF StopRunning
  <2>3. GetRunningTimeMs(tm) = tm.total
    BY <1>2, <1>5 DEF GetRunningTimeMs
  <2>. QED
    BY <1>2, <1>5, <2>1, <2>2, <2>3 DEF TimerOK, TimerOKAt, Timer
<1>. QED
  BY <1>4, <1>5

\* The timer Reset leaves behind is well formed and has run for no time.
LEMMA StoppedTimerOK ==
  ASSUME now \in 0..MaxTime
  PROVE  TimerOK(StoppedTimer) /\ GetRunningTimeMs(StoppedTimer) = 0
<1>1. StoppedTimer \in Timer
  BY ConstantsAssumption DEF StoppedTimer, Timer
<1>. QED
  BY <1>1 DEF TimerOK, TimerOKAt, StoppedTimer, GetRunningTimeMs

\* Keys are the pairs KeyOf builds.
LEMMA KeyOfInKeys == \A t \in Types, u \in Uids : KeyOf(t, u) \in Keys
BY DEF Keys

\* The energies the timers give are natural numbers.
LEMMA TrueEnergyType ==
  ASSUME now \in 0..MaxTime, \A k \in Keys : TimerOK(timer[k])
  PROVE  TrueEnergy \in [Keys -> Nat]
<1>1. ASSUME NEW k \in Keys PROVE Energy(k) \in Nat
  <2>1. GetRunningTimeMs(timer[k]) \in Nat
    BY TimerOps
  <2>2. PowerMa(k) \in Nat
    BY PowerMaNat
  <2>. QED
    BY <2>1, <2>2 DEF Energy
<1>. QED
  BY <1>1 DEF TrueEnergy

-----------------------------------------------------------------------------
(* Type correctness.                                                       *)

\* TypeOK and TimerInv say together that every timer is well formed.
LEMMA TimersOK ==
  TypeOK /\ TimerInv => \A k \in Keys : TimerOK(timer[k])
BY DEF TypeOK, TimerInv, TimerOK, TimerOKAt

\* Every step keeps the state well typed and every timer well formed.
LEMMA TypeStep == TypeOK /\ TimerInv /\ [Next]_vars => (TypeOK /\ TimerInv)'
<1> SUFFICES ASSUME TypeOK, TimerInv, [Next]_vars
             PROVE  (TypeOK /\ TimerInv)'
  OBVIOUS
<1>1. \A k \in Keys : TimerOK(timer[k])
  BY TimersOK
<1>2. now \in 0..MaxTime
  BY DEF TypeOK
\* What is left once the timers are known to be well formed at now'.
<1>3. ASSUME now' \in 0..MaxTime,
             onBattery' \in BOOLEAN,
             active' \in [Keys -> BOOLEAN],
             timer' \in [Keys -> Timer],
             \A k \in Keys : TimerOKAt(timer'[k], now'),
             mah' \in [Keys -> Nat],
             qpc' \in [Threads -> {"idle", "computed"}],
             request' \in [Threads -> Requests]
      PROVE  (TypeOK /\ TimerInv)'
  BY <1>3 DEF TypeOK, TimerInv, TimerOKAt
<1>5. CASE Tick
  <2>1. ASSUME NEW k \in Keys PROVE TimerOKAt(timer'[k], now')
    <3>1. TimerOKAt(timer[k], now)
      BY <1>1 DEF TimerOK
    <3>2. timer' = timer /\ now' = now + 1
      BY <1>5 DEF Tick
    <3>. QED
      BY <1>2, <3>1, <3>2, ConstantsAssumption DEF TimerOKAt, Timer
  <2>. QED
    BY <1>3, <1>5, <2>1, ConstantsAssumption DEF Tick, TypeOK
<1>6. ASSUME NEW t \in Types, NEW u \in Uids, NEW st \in States,
             OnEvent(t, u, st)
      PROVE  (TypeOK /\ TimerInv)'
  <2> DEFINE k0 == KeyOf(t, u)
  <2>1. k0 \in Keys
    BY KeyOfInKeys
  <2>2. timer' = [timer EXCEPT ![k0] =
                    IF st = OFF THEN StopRunning(timer[k0])
                    ELSE IF onBattery THEN StartRunning(timer[k0])
                    ELSE timer[k0]]
    BY <1>6 DEF OnEvent
  <2>3. \A k \in Keys : TimerOK(timer'[k])
    BY <1>1, <1>2, <2>1, <2>2, TimerOps DEF TypeOK
  <2>4. active' = [active EXCEPT ![k0] = (st = ON)]
    BY <1>6 DEF OnEvent
  <2>. QED
    BY <1>3, <1>6, <2>1, <2>3, <2>4, TimerOps DEF OnEvent, TypeOK,
       TimerOK, TimerOKAt
<1>7. ASSUME NEW b \in BOOLEAN, SetOnBattery(b)
      PROVE  (TypeOK /\ TimerInv)'
  <2>1. \A k \in Keys : TimerOK(timer'[k])
    BY <1>1, <1>2, <1>7, TimerOps DEF SetOnBattery
  <2>. QED
    BY <1>3, <1>7, <2>1, TimerOps DEF SetOnBattery, TypeOK,
       TimerOK, TimerOKAt
<1>8. CASE Reset
  <2>1. \A k \in Keys : TimerOK(timer'[k])
    BY <1>2, <1>8, StoppedTimerOK DEF Reset
  <2>. QED
    BY <1>3, <1>8, <2>1, StoppedTimerOK DEF Reset, TypeOK,
       TimerOK, TimerOKAt
<1>9. ASSUME NEW th \in Threads, NEW r \in Requests, ComputePower(th, r)
      PROVE  (TypeOK /\ TimerInv)'
  BY <1>1, <1>2, <1>3, <1>9, TrueEnergyType
     DEF ComputePower, TypeOK, TimerOK, TimerOKAt
<1>10. ASSUME NEW th \in Threads, ReturnAnswer(th)
       PROVE  (TypeOK /\ TimerInv)'
  BY <1>1, <1>3, <1>10 DEF ReturnAnswer, TypeOK, TimerOK, TimerOKAt
<1>11. CASE UNCHANGED vars
  BY <1>11 DEF vars, TypeOK, TimerInv
<1>. QED
  BY <1>5, <1>6, <1>7, <1>8, <1>9, <1>10, <1>11 DEF Next

\* The initial state is well typed, with every timer stopped.
LEMMA TypeInit == Init => TypeOK /\ TimerInv
<1> SUFFICES ASSUME Init PROVE TypeOK /\ TimerInv
  OBVIOUS
<1>1. now \in 0..MaxTime
  BY ConstantsAssumption DEF Init
<1>2. ASSUME NEW k \in Keys PROVE TimerOK(timer[k])
  <2>1. timer[k] = StoppedTimer
    BY DEF Init
  <2>. QED
    BY <1>1, <2>1, StoppedTimerOK
<1>3. (CHOOSE r \in Requests : TRUE) \in Requests
  <2>1. [op |-> "GetBatteryStats", arg |-> INVALID_VALUE] \in Requests
    BY DEF Requests
  <2>. QED
    BY <2>1
<1>. QED
  BY <1>1, <1>2, <1>3 DEF Init, TypeOK, TimerInv, TimerOK, TimerOKAt

\* The engine's variables keep their types in every reachable state: the
\* clock stays in range, timers' starts and flushed totals never pass the
\* clock, and the power maps ComputePower writes hold natural numbers.
THEOREM TypeCorrect == Spec => []TypeOK
<1>1. Init => TypeOK /\ TimerInv
  BY TypeInit
<1>. QED
  BY <1>1, TypeStep, PTL DEF Spec

-----------------------------------------------------------------------------
(* Battery gating.                                                         *)

\* Every step keeps each timer running exactly when its behaviour is
\* ACTIVE on battery.
LEMMA GatingStep ==
  TypeOK /\ TimerInv /\ GatingInv /\ [Next]_vars => GatingInv'
<1> SUFFICES ASSUME TypeOK, TimerInv, GatingInv, [Next]_vars
             PROVE  GatingInv'
  OBVIOUS
<1>1. \A k \in Keys : TimerOK(timer[k])
  BY TimersOK
<1>2. now \in 0..MaxTime
  BY DEF TypeOK
<1>3. CASE UNCHANGED <<onBattery, active, timer>>
  BY <1>3 DEF GatingInv
<1>4. ASSUME NEW t \in Types, NEW u \in Uids, NEW st \in States,
             OnEvent(t, u, st)
      PROVE  GatingInv'
  <2> DEFINE k0 == KeyOf(t, u)
  <2>1. k0 \in Keys
    BY KeyOfInKeys
  <2>2. /\ timer' = [timer EXCEPT ![k0] =
                       IF st = OFF THEN StopRunning(timer[k0])
                       ELSE IF onBattery THEN StartRunning(timer[k0])
                       ELSE timer[k0]]
        /\ active' = [active EXCEPT ![k0] = (st = ON)]
        /\ onBattery' = onBattery
        /\ st \in {ON, OFF}
    BY <1>4 DEF OnEvent
  <2>3. timer'[k0].running <=> (active'[k0] /\ onBattery')
    BY <1>1, <1>2, <2>1, <2>2, TimerOps DEF TypeOK, GatingInv, ON, OFF
  <2>. QED
    BY <2>1, <2>2, <2>3 DEF TypeOK, GatingInv
<1>5. ASSUME NEW b \in BOOLEAN, SetOnBattery(b)
      PROVE  GatingInv'
  <2>1. ASSUME NEW k \in Keys
        PROVE  timer'[k].running <=> (active'[k] /\ onBattery')
    BY <1>1, <1>2, <1>5, TimerOps DEF SetOnBattery, TypeOK, GatingInv
  <2>. QED
    BY <2>1 DEF GatingInv
<1>6. CASE Reset
  BY <1>6 DEF Reset, GatingInv, StoppedTimer
<1>. QED
  BY <1>3, <1>4, <1>5, <1>6
     DEF Next, vars, Tick, ComputePower, ReturnAnswer

\* Battery gating (StatsHelper::SetOnBattery and the entities' start/stop
\* handling): in every reachable state a timer runs exactly when its
\* behaviour is ACTIVE and the device is on battery.
THEOREM GatingCorrect == Spec => []GatingInv
<1>1. Init => TypeOK /\ TimerInv /\ GatingInv
  <2>1. Init => TypeOK /\ TimerInv
    BY TypeInit
  <2>2. Init => GatingInv
    BY DEF Init, GatingInv, StoppedTimer
  <2>. QED
    BY <2>1, <2>2
<1>2. TypeOK /\ TimerInv /\ GatingInv /\ [Next]_vars
        => (TypeOK /\ TimerInv /\ GatingInv)'
  BY TypeStep, GatingStep
<1>. QED
  BY <1>1, <1>2, PTL DEF Spec

=============================================================================
