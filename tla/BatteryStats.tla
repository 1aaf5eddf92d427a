----------------------------- MODULE BatteryStats -----------------------------
(***************************************************************************)
(* The stats aggregation engine behind BatteryStatsService.               *)
(*                                                                         *)
(* Event delivery (the HiSysEvent listener) reports state codes for a     *)
(* stats type and a uid; the owning entity moves the behaviour between     *)
(* IDLE and ACTIVE and starts or stops its ActiveTimer.  The global       *)
(* on-battery flag gates every timer: switching it off force-stops the     *)
(* running timers (their time is flushed), switching it on restarts the    *)
(* timers of the behaviours that are still ACTIVE.  IPC handler threads    *)
(* answer queries in two calls, core_->ComputePower() and then a core      *)
(* getter, with nothing held in between (battery_stats_service.cpp).      *)
(*                                                                         *)
(* The timers, entities and core are not part of the sources at hand:     *)
(* they follow spec.md 4.1-4.4.  The service handlers follow the code.    *)
(***************************************************************************)
EXTENDS Integers, FiniteSets, Functions

CONSTANTS
  Uids,          \* app uids that report events
  PartTypes,     \* stats types accounted to the device (radio/switch on)
  AppTypes,      \* stats types accounted to the reporting uid (scans)
  Consumption,   \* Consumption[t]: the consumption type stats type t adds to
  PowerKey,      \* PowerKey[t]: the average-power table key of stats type t
  AverageMap,    \* the single values of the average-power table
  Threads,       \* IPC handler threads of the service
  MaxTime        \* the last value of the clock the model reaches

\* StatsUtils::INVALID_VALUE: "no uid", the device-wide scope.
INVALID_VALUE == -1

ASSUME ConstantsAssumption ==
  /\ Uids \subseteq Nat
  /\ PartTypes \cap AppTypes = {}
  /\ DOMAIN Consumption = PartTypes \cup AppTypes
  /\ DOMAIN PowerKey = PartTypes \cup AppTypes
  /\ \A x \in DOMAIN AverageMap : AverageMap[x] \in Nat
  /\ MaxTime \in Nat

\* State codes of the switch/scan events, as the entities classify them.
ON == "on"
OFF == "off"
UNKNOWN == "unknown"   \* transitional or out-of-range codes (5, -1, 10, ...)
States == {ON, OFF, UNKNOWN}

Types == PartTypes \cup AppTypes
ConsumptionTypes == {Consumption[t] : t \in Types}

\* The behaviour a report for type t by uid u is accounted to.
KeyOf(t, u) == IF t \in PartTypes THEN <<t, INVALID_VALUE>> ELSE <<t, u>>
Keys == {KeyOf(t, u) : t \in Types, u \in Uids}

VARIABLES
  now,        \* the boot clock, in clock units
  onBattery,  \* StatsHelper's global on-battery flag
  active,     \* active[k]: the entity holds behaviour k ACTIVE
  timer,      \* timer[k]: the ActiveTimer of behaviour k
  mah,        \* the power maps the last ComputePower wrote, per behaviour
  qpc,        \* qpc[th]: "idle", or "computed" between the two core calls
  request     \* request[th]: the query thread th is answering

coreVars == <<now, onBattery, active, timer, mah>>
vars == <<now, onBattery, active, timer, mah, qpc, request>>

-----------------------------------------------------------------------------
(* BatteryStatsParser: the average-power table.                           *)

\* GetAveragePowerMa(type): the table's value, or 0 for an unknown key.
GetAveragePowerMa(type) ==
  IF type \in DOMAIN AverageMap THEN AverageMap[type] ELSE 0

PowerMa(k) == GetAveragePowerMa(PowerKey[k[1]])

-----------------------------------------------------------------------------
(* StatsHelper::ActiveTimer (spec.md 4.1).                                 *)

Timer == [running : BOOLEAN, start : 0..MaxTime, total : 0..MaxTime]
StoppedTimer == [running |-> FALSE, start |-> 0, total |-> 0]

\* Time since the timer started, clamped at zero against clock skew.
Elapsed(tm) == IF now > tm.start THEN now - tm.start ELSE 0

\* GetRunningTimeMs: the flushed total plus the live part of a running timer.
GetRunningTimeMs(tm) == tm.total + (IF tm.running THEN Elapsed(tm) ELSE 0)

\* Variant: StartRunning without its running check, so that a duplicate
\* start report restarts the timer.
StartRunningRestart(tm) == [tm EXCEPT !.running = TRUE, !.start = now]

\* StartRunning: a no-op on a running timer, otherwise it starts now.
StartRunning(tm) ==
  IF tm.running THEN tm ELSE [tm EXCEPT !.running = TRUE, !.start = now]

\* Variant: StopRunning adding the clock reading instead of the elapsed time.
StopRunningAbsolute(tm) ==
  IF tm.running THEN [tm EXCEPT !.running = FALSE, !.total = @ + now] ELSE tm

\* StopRunning: a no-op on a stopped timer, otherwise it flushes and stops.
StopRunning(tm) ==
  IF tm.running THEN [tm EXCEPT !.running = FALSE, !.total = @ + Elapsed(tm)]
                ELSE tm

-----------------------------------------------------------------------------
(* Entities and core (spec.md 4.3, 4.4).                                   *)

\* The energy of behaviour k now (mA x clock units; mAh up to a constant).
Energy(k) == GetRunningTimeMs(timer[k]) * PowerMa(k)
TrueEnergy == [k \in Keys |-> Energy(k)]

PartKeys(c) == {k \in Keys : k[1] \in PartTypes /\ Consumption[k[1]] = c}
AppKeys(u) == {k \in Keys : k[1] \in AppTypes /\ k[2] = u}

\* The queries of the IPC surface that go through ComputePower.
Requests ==
  [op : {"GetPartStatsMah", "GetPartStatsPercent"}, arg : ConsumptionTypes]
  \cup [op : {"GetAppStatsMah", "GetAppStatsPercent"}, arg : Uids]
  \cup [op : {"GetBatteryStats"}, arg : {INVALID_VALUE}]

\* The core getter's answer to request r from the power maps m: a sum of
\* energies, a share of the total (0 when the total is 0), or the list of
\* per-consumption-type and per-uid entries of GetBatteryStats.
Total(m) == SumFunctionOnSet(m, Keys)
Share(x, m) == IF Total(m) = 0 THEN <<0, 1>> ELSE <<x, Total(m)>>
Answer(r, m) ==
  CASE r.op = "GetPartStatsMah" -> SumFunctionOnSet(m, PartKeys(r.arg))
    [] r.op = "GetAppStatsMah" -> SumFunctionOnSet(m, AppKeys(r.arg))
    [] r.op = "GetPartStatsPercent" ->
         Share(SumFunctionOnSet(m, PartKeys(r.arg)), m)
    [] r.op = "GetAppStatsPercent" ->
         Share(SumFunctionOnSet(m, AppKeys(r.arg)), m)
    [] r.op = "GetBatteryStats" ->
         <<[c \in ConsumptionTypes |-> SumFunctionOnSet(m, PartKeys(c))],
           [u \in Uids |-> SumFunctionOnSet(m, AppKeys(u))]>>

-----------------------------------------------------------------------------
(* Actions.                                                                *)

Init ==
  /\ now = 0
  /\ onBattery = TRUE
  /\ active = [k \in Keys |-> FALSE]
  /\ timer = [k \in Keys |-> StoppedTimer]
  /\ mah = [k \in Keys |-> 0]
  /\ qpc = [th \in Threads |-> "idle"]
  /\ request = [th \in Threads |-> CHOOSE r \in Requests : TRUE]

\* The clock advances; timers read it, nothing is written.
Tick ==
  /\ now < MaxTime
  /\ now' = now + 1
  /\ UNCHANGED <<onBattery, active, timer, mah, qpc, request>>

\* An entity handles a report of state s for stats type t from uid u: a
\* start code makes the behaviour ACTIVE and starts its timer (deferred while
\* off battery), a stop code makes it IDLE and stops its timer, any other
\* code is dropped.
OnEvent(t, u, s) ==
  LET k == KeyOf(t, u) IN
  /\ s \in {ON, OFF}
  /\ active' = [active EXCEPT ![k] = (s = ON)]
  /\ timer' = [timer EXCEPT ![k] =
                 IF s = OFF THEN StopRunning(@)
                 ELSE IF onBattery THEN StartRunning(@) ELSE @]
  /\ UNCHANGED <<now, onBattery, mah, qpc, request>>

\* Variant: a SetOnBattery that only flips the flag.
SetOnBatteryFlagOnly(isOnBattery) ==
  /\ onBattery' = isOnBattery
  /\ timer' = [k \in Keys |->
                 IF isOnBattery /\ active[k] THEN StartRunning(timer[k])
                                             ELSE timer[k]]
  /\ UNCHANGED <<now, active, mah, qpc, request>>

\* BatteryStatsService::SetOnBattery -> StatsHelper::SetOnBattery: off
\* battery every running timer is force-stopped; on battery the timer of
\* every behaviour still ACTIVE is started again.
SetOnBattery(isOnBattery) ==
  /\ onBattery' = isOnBattery
  /\ timer' = [k \in Keys |->
                 IF ~isOnBattery THEN StopRunning(timer[k])
                 ELSE IF active[k] THEN StartRunning(timer[k]) ELSE timer[k]]
  /\ UNCHANGED <<now, active, mah, qpc, request>>

\* BatteryStatsService::Reset -> core_->Reset(): every entity clears its
\* timers and its power maps; the on-battery flag is left alone.
Reset ==
  /\ active' = [k \in Keys |-> FALSE]
  /\ timer' = [k \in Keys |-> StoppedTimer]
  /\ mah' = [k \in Keys |-> 0]
  /\ UNCHANGED <<now, onBattery, qpc, request>>

\* A query handler's first call, core_->ComputePower(): every entity
\* recomputes its power from its timers.
ComputePower(th, r) ==
  /\ qpc[th] = "idle"
  /\ mah' = TrueEnergy
  /\ qpc' = [qpc EXCEPT ![th] = "computed"]
  /\ request' = [request EXCEPT ![th] = r]
  /\ UNCHANGED <<now, onBattery, active, timer>>

\* The handler's second call: the core getter reads the power maps as they
\* are now, whoever wrote them last, and the handler returns
\* Answer(request[th], mah).
ReturnAnswer(th) ==
  /\ qpc[th] = "computed"
  /\ qpc' = [qpc EXCEPT ![th] = "idle"]
  /\ UNCHANGED <<now, onBattery, active, timer, mah, request>>

Next ==
  \/ Tick
  \/ \E t \in Types, u \in Uids, s \in States : OnEvent(t, u, s)
  \/ \E b \in BOOLEAN : SetOnBattery(b)
  \/ Reset
  \/ \E th \in Threads, r \in Requests : ComputePower(th, r)
  \/ \E th \in Threads : ReturnAnswer(th)

Spec == Init /\ [][Next]_vars

-----------------------------------------------------------------------------
(* Properties.                                                             *)

TypeOK ==
  /\ now \in 0..MaxTime
  /\ onBattery \in BOOLEAN
  /\ active \in [Keys -> BOOLEAN]
  /\ timer \in [Keys -> Timer]
  /\ \A k \in Keys : timer[k].start <= now /\ timer[k].total <= now
  /\ mah \in [Keys -> Nat]
  /\ qpc \in [Threads -> {"idle", "computed"}]
  /\ request \in [Threads -> Requests]

\* Battery gating (spec.md 3, 4.1): a behaviour's timer is running exactly
\* when its entity holds it ACTIVE and the device is on battery -- after any
\* interleaving of start/stop reports, duplicates, stray stops and
\* SetOnBattery toggles.
GatingInv ==
  \A k \in Keys : timer[k].running <=> (active[k] /\ onBattery)

\* The timers implement the abstract time accounting: a behaviour's running
\* time is its accrued on-battery active time.
Abs == INSTANCE AbstractStats
         WITH on <- active,
              accrued <- [k \in Keys |-> GetRunningTimeMs(timer[k])]
AbsSpec == Abs!Spec
=============================================================================
