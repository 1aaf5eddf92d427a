------------------------------ MODULE StatsProxyProofs ------------------------------
(***************************************************************************)
(* Proof about BatteryStatsProxy's lastError_: for any number of threads   *)
(* it only ever holds a code that a reply can carry.                      *)
(***************************************************************************)
EXTENDS StatsProxy, TLAPS

LEMMA InitTypeOK == Init => TypeOK
<1> SUFFICES ASSUME Init PROVE TypeOK
  OBVIOUS
<1>1. NoCall \in [op: Ops \cup {"none"}, served: BOOLEAN]
  BY DEF NoCall
<1>2. QED
  BY <1>1, ProxyAssumption DEF Init, TypeOK

\* Every query and both steps of GetLastError keep the variables' types.
LEMMA TypeStep == TypeOK /\ [Next]_vars => TypeOK'
<1> SUFFICES ASSUME TypeOK, [Next]_vars PROVE TypeOK'
  OBVIOUS
<1> USE ProxyAssumption DEF TypeOK
<1>1. ASSUME NEW th \in Threads, NEW op \in Ops, NEW served \in BOOLEAN,
             NEW e \in ReplyErrors \cup {"none"},
             Complete(th, op, served, e)
      PROVE  TypeOK'
  BY <1>1 DEF Complete
<1>2. ASSUME NEW th \in Threads, GetBatteryStats(th) PROVE TypeOK'
  BY <1>1, <1>2 DEF GetBatteryStats, Ops, ErrorOps
<1>3. ASSUME NEW th \in Threads, NEW op \in ErrorOps, DoubleQuery(th, op)
      PROVE TypeOK'
  BY <1>1, <1>3 DEF DoubleQuery, Ops
<1>4. ASSUME NEW th \in Threads, NEW op \in Ops,
             UintQuery(th, op) \/ VoidCall(th, op)
      PROVE TypeOK'
  BY <1>1, <1>4 DEF UintQuery, VoidCall
<1>5. ASSUME NEW th \in Threads, ShellDump(th) PROVE TypeOK'
  BY <1>1, <1>5 DEF ShellDump, Ops
<1>6. ASSUME NEW th \in Threads, GetLastErrorRead(th) PROVE TypeOK'
  BY <1>6 DEF GetLastErrorRead
<1>7. ASSUME NEW th \in Threads, GetLastErrorReset(th) PROVE TypeOK'
  BY <1>7 DEF GetLastErrorReset
<1>8. CASE UNCHANGED vars
  BY <1>8 DEF vars
<1>9. QED
  BY <1>2, <1>3, <1>4, <1>5, <1>6, <1>7, <1>8
  DEF Next, GetAppStatsMah, GetAppStatsPercent, GetPartStatsMah,
      GetPartStatsPercent, GetTotalTimeSecond, GetTotalDataBytes,
      SetOnBattery, Reset, ErrorOps, Ops

\* lastError_ always holds one of the codes a reply can carry, and every
\* thread's history and GetLastError state keep their types.
THEOREM TypeCorrect == Spec => []TypeOK
BY InitTypeOK, TypeStep, PTL DEF Spec
=============================================================================
