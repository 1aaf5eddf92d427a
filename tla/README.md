# TLA+ models of powermgr_battery_statistics

This directory holds TLA+ models of the battery statistics service
(`src/services/...`). It also holds TLC configurations that model-check them
on small instances, and TLAPS proofs of their main safety properties for
every value of the constants.

## 1. The system

The code has these parts:

| Part | Code | What it does |
|---|---|---|
| Service lifecycle | `battery_stats_service.cpp` `OnStart`, `Init`, `SubscribeCommonEvent`, `AddListener`, `OnStop`, `IsServiceReady` | Builds the parser, the core and the detector. Publishes the system ability. Subscribes to common events (shutdown, boot, battery changed). Registers a HiSysEvent listener. Sets `ready_`. |
| IPC handlers | `battery_stats_service.cpp` `GetBatteryStats`, `GetApp/PartStatsMah/Percent`, `GetTotalTimeSecond`, `GetTotalDataBytes`, `Reset`, `SetOnBattery`, `Dump` | Each query calls `core_->ComputePower()` and then a core getter. Nothing is held between the two calls. Only `Dump` takes `mutex_`. |
| Average-power table | `battery_stats_parser.cpp` | Loads `power_average.json` once into `averageMap_` (scalars) and `averageVecMap_` (per-level lists). It also fills `speedNum_` and `clusterNum_`. A lookup of a missing key gives 0. |
| Aggregation core | not in `src/`; specified in `spec.md` 4.1-4.4 | ActiveTimers gated by a global on-battery flag. Entities move each (type, uid) behaviour between IDLE and ACTIVE. `ComputePower` prices timer time with the table. Getters return sums, shares and lists. |
| Client proxy | `battery_stats_proxy.cpp` | Marshals each call. Keeps `lastError_` from the reply. `GetLastError` returns it and resets it. |
| Dumper, NAPI errors | `battery_stats_dumper.cpp`, `napi_error.cpp` | Formatting and a constant error table. |

The parts interact as follows:

- HiSysEvents from Bluetooth, the phone, Wi-Fi and others reach the core through the listener. The core delivers each event to the entity of its stats type, and that entity starts or stops a timer.
- IPC handler threads run concurrently with the event threads and with each other.
- `SetOnBattery` reaches every timer through `StatsHelper`.
- `Reset` clears every entity.
- The lifecycle decides when the handlers become reachable (`Publish`) and when the service reports ready.

### Inventory

- **State.**
  - The core holds the clock, the on-battery flag, the IDLE/ACTIVE state of each behaviour, and each timer (running, start, flushed total). It also holds the power maps that the last `ComputePower` wrote.
  - The service holds `ready_`, `parser_`, `core_`, `detector_`, and the published, subscribed and listening registrations.
  - The proxy holds `lastError_`.
- **Operations.**
  - Event delivery (start, stop, or an unknown code).
  - `SetOnBattery`, `Reset`, `ComputePower` and the getters.
  - `OnStart` in five steps, and `OnStop`.
  - On the client side, every proxy call and `GetLastError`.
- **Hard behaviours.**
  - Unlocked two-call queries interleaved with events, toggles, `Reset` and other queries.
  - Duplicate starts, stray stops and unknown codes.
  - Battery toggles while behaviours are active.
  - Failed and retried `OnStart`.
  - `OnStop` after a failed start.
  - The proxy's shared `lastError_`, and replies read after a failed transport call.
  - Floating-point rounding in `GetTotalTimeSecond`.
  - The table's member order in `LoadAveragePowerFromFile`.
- **Correctness properties.**
  - A timer runs exactly when its behaviour is ACTIVE on battery.
  - Accrued time is the on-battery active time: no loss on pause, no double count on duplicates, zero after `Reset`.
  - A published service has its members.
  - A ready service is fully wired.
  - A ready service has its table loaded (spec 4.4).
  - `GetLastError` reports the caller's own last error, and a failed query is not reported as `ERR_OK`.
  - Each CPU cluster gets its own speed-step count from the table (spec 4.2, 6).

`PROJECT.json` lists each component with its status and each hazard at its source line.

## 2. Modules

| Module | Models | Kind |
|---|---|---|
| `AbstractStats` | What the core promises about time: each behaviour accrues one unit per clock unit while it is on and the device is on battery. `Reset` forgets everything except the battery flag. | abstract spec |
| `BatteryStats` | The core plus the handlers that drive it (`SetOnBattery`, `Reset`, the five `ComputePower`-then-get queries), and the parser lookup `GetAveragePowerMa`. | component |
| `ServiceLifecycle` | `OnStart` step by step, `Init`'s lazy member creation, `OnStop`. | component |
| `StatsProxy` | The client proxy: every query, `ShellDump`, and `GetLastError` as its two statements on the shared `lastError_`. | component |
| `ParserLoad` | `LoadAveragePowerFromFile`'s walk over the JSON members, `GetSpeedNum`, `GetAveragePowerMa(type, level)`, `GetClusterNum`. | component |
| `MCBatteryStats`, `MCServiceLifecycle`, `MCStatsProxy`, `MCParserLoad` | Instances for TLC. | MC |
| `BatteryStatsProofs`, `BatteryStatsRefinement`, `ServiceLifecycleProofs`, `StatsProxyProofs`, `ParserLoadProofs` | TLAPS proofs. | proofs |

### BatteryStats

- **State and code.**
  - Behaviours are keyed `<<stats type, uid>>`. A device-level type (such as BR on) uses the uid `INVALID_VALUE` (-1), and a per-app type (such as BR scan) uses the reporting uid.
  - A timer is a record `[running, start, total]`.
  - `StartRunning`, `StopRunning` and `GetRunningTimeMs` follow spec 4.1: a start on a running timer is a no-op, and a stop on a stopped timer is a no-op that flushes nothing. A negative elapsed time is clamped to 0.
  - `OnEvent(t, u, s)` drops unknown codes. A start makes the behaviour ACTIVE and starts the timer only on battery; off battery, the start is deferred. A stop makes the behaviour IDLE and stops the timer.
  - `SetOnBattery(FALSE)` stops and flushes every timer. `SetOnBattery(TRUE)` restarts the timers of ACTIVE behaviours.
  - `Reset` clears timers, states and power maps, and keeps the flag.
  - A query is two actions, as in the handler: `ComputePower(th, r)` writes `mah` from the timers, and `ReturnAnswer(th)` answers `Answer(request, mah)` from whatever `mah` holds then.
  - `Answer` gives a sum over a consumption type or a uid (`SumFunctionOnSet`), a share of the total (0 when the total is 0), or the `GetBatteryStats` lists.
- **Abstractions.**
  - Energy is time × mA. The division by milliseconds per hour is a constant factor and is left out.
  - Types, uids and table keys are small sets of strings and integers.

### ServiceLifecycle

- **Steps.** `pc` walks `init → publish → subscribe → listen`, as `OnStart`'s sequence of early returns does. Each external call picks its outcome nondeterministically:
  - table load;
  - `core_->Init`;
  - `Publish`;
  - `SubscribeCommonEvent`;
  - `AddEventListener`, which returns 0, 1 or an error.
- **Members.** `parser` is `null`, `empty` or `loaded`. `core` is `null`, `failed` or `ok`. A member is created only while it is null, as in `Init`.
- **OnStop.** `OnStop` does nothing unless `ready_`. Otherwise it removes the listener and unsubscribes; a failed unsubscribe leaves the subscription in place.
- **Scheduling.** The framework calls `OnStart` and `OnStop` one at a time, so `OnStop` waits for `pc = "idle"`.

### StatsProxy

- **State and code.** `lastError` is `lastError_`, shared by all `Threads` of a client process, since they use one proxy object. Per thread, `pc` and `tmp` are `GetLastError`'s position and its `tmpError`.
- **Queries.** Each query is one action, because it touches shared state only in its last statement, the store into `lastError_`. The common end is `Complete`. Inputs chosen by `\E` are whether the request was sent and its reply read, the error code the service wrote (`ReplyErrors`), and, for `GetBatteryStats`, the announced list size (`ReplySizes`).
  - `GetBatteryStats` returns the empty list on a failed send, and on a size below 0 or above `PARAM_MAX_NUM` (2000). In both cases it returns before the error read. Otherwise it reads the error code and stores it. When that read fails, it returns the list read so far and stores nothing.
  - The four double queries (`DoubleQuery`) only log a failed send. They read 0.0 from the empty reply and return when the error read fails. When the reply was read, they store its error.
  - `GetTotalTimeSecond`, `GetTotalDataBytes`, `SetOnBattery`, `Reset` and `ShellDump` never touch `lastError_`. `ShellDump` returns "remote error" when `argc` exceeds the arguments or the send fails.
- **GetLastError.** It is two actions, `GetLastErrorRead` (`tmpError = lastError_`) and `GetLastErrorReset` (`lastError_ = ERR_OK`, return).
- **History variables.** `own[th]` is the error the thread's own replies stored since its last `GetLastError`. `result[th]` is its last query and whether the value came from the service or was the method's default.
- **Abstractions.** Marshalling and the values themselves are left out. The service side (the stub) is only the error code and list size it writes.

### ParserLoad

- **State and code.** `clusterNum`, `speedNum`, `averageVecMap` and `averageMap` are the parser's members. `LoadOpen` is the open and parse with their early `return false`. `LoadMember` is one iteration of the member loop, and `LoadDone` is the final `return true`.
- **Member order.** jsoncpp keeps an object's members in a map ordered by name, so `getMemberNames()` returns them in byte order. A name is abstracted to its kind (the awake scalar, the cluster array, a per-cluster speed array) and a cluster number. `NameBefore` compares kinds in the order of their names, and cluster numbers by their decimal digits as strings (`DigitsBefore`). Under that order `10` comes before `2`. The digits are the constant operator `Digits(_)`. `MCParserLoad` instantiates it with the recursive decimal expansion (`MCDigits`), which keeps `ParserLoad` free of recursion so that TLAPS can reason about it. `ParserAssumption` states the one fact the proof uses: a number below ten is spelt as that one digit. TLC evaluates it on every parser run.
- **Map insert.** `Insert` is `std::map::insert`: it adds the key unless the key is already there.
- **Inputs.** `Files` are the well-formed tables: `n` clusters, and one speed array per cluster whose length is chosen per cluster.

## 3. Runs

| Run | Config | Checks | Shows |
|---|---|---|---|
| `core_gating` | `MCBatteryStats.cfg` | `TypeOK`, `GatingInv`, `AbsSpec` | Any order of start, stop and unknown reports, toggles, `Reset` and a handler thread's two-call queries keeps each timer running iff its behaviour is ACTIVE on battery. The timers refine `AbstractStats` under the mapping `accrued[k] = GetRunningTimeMs(timer[k])`. |
| `lifecycle` | `MCServiceLifecycle.cfg` | `PublishedImpliesInitialised`, `ReadyImpliesWired` | Across failed, retried and stopped starts, a published service has `parser_`, `core_` and `detector_`, and a ready one is published, subscribed and listening. |
| `lifecycle_table` | `MCServiceLifecycleTable.cfg` | `ReadyImpliesTableLoaded` (expected violation) | After a failed table load, a retried `OnStart` skips `parser_->Init()` and becomes ready with an empty table. This is the finding in `PROJECT.json`. |
| `proxy_errors` | `MCStatsProxy.cfg` | `TypeOK` | With two client threads interleaving every query and the two statements of `GetLastError`, through failed sends, rejected lists and failed error reads, `lastError_` only ever holds a code a reply carried, and `tmpError` only a value read from it. |
| `proxy_shared` | `MCStatsProxyShared.cfg` | `ErrorReportedToCaller` (expected violation) | With two threads on one proxy, thread 1's query stores `ERR_PERMISSION_DENIED` and thread 2's `GetLastError` returns it, while thread 1 then gets `ERR_OK`. |
| `proxy_failure` | `MCStatsProxyFailure.cfg` | `FailedCallReported` (expected violation) | A query that could not reach the service returns its default value, and the `GetLastError` after it returns `ERR_OK`. So does a list longer than `PARAM_MAX_NUM`. The proxy never produces `ERR_CONNECTION_FAIL`. |
| `parser_table` | `MCParserLoad.cfg` | `SpeedTableMatchesFile`, `IInv` | For every table with 1 to 3 clusters of 1 to 3 speed steps, and for either open or parse failing, a loaded table gives each cluster its own step count and entries. The run also checks `IInv`, the loop invariant of the proof. |
| `parser_wide` | `MCParserLoadWide.cfg` | `SpeedTableMatchesFile` (expected violation) | With 11 clusters, `cpu_speed_cluster10` sorts before `cpu_speed_cluster2`. `GetSpeedNum(2)` then returns cluster 10's count. |

**Bounds.**

- **`core_gating`.** The instance has the BR-on radio (device level) and BR scans by two uids, so device and per-uid keys share a consumption type. One handler thread runs one query of each shape (a part's mAh, a uid's percent, the full list) between events. The clock runs to 2: enough for a timer to start, accrue, be paused by a toggle, resume and be stopped with a non-zero flushed total, and for a duplicate start to have live time to lose. The run has 196,662 distinct states; a clock to 3 takes over three minutes.
- **`lifecycle`.** The run allows four `OnStart` calls: a failed start, a retry, an `OnStop` and another start.
- **`proxy_errors`.** Two threads on one proxy, as in a native client whose threads share the singleton. Every query can fail to send or to read its error. The list sizes are 0, `PARAM_MAX_NUM` and `PARAM_MAX_NUM + 1`, and the three reply codes are `ERR_OK` and two errors. `proxy_shared` uses the same instance to show one thread reading the other's error.
- **`parser_table`.** 39 files. The order of the names matters only from 11 clusters on, which is why `parser_wide` goes to 11 clusters with 2 step counts (about 4,000 files).
- **Deadlock.** It is checked in the core and proxy runs. It is not checked in the parser runs, because the load ends. It is not checked in the lifecycle runs, because once the start bound is spent the service may stay stopped.

**Mutants.** Every checked property is broken by a plausible bug in the code it is about (`PROJECT.json` "mutants"):

- a stop that adds the clock instead of the elapsed time;
- a `SetOnBattery` that only flips the flag;
- a start that restarts a running timer;
- an `OnStart` that publishes before `Init`;
- an `AddListener` that ignores its result;
- a query that stores into `lastError_` even when it returned before reading an error code (it breaks `TypeOK`);
- a member walk that appends the size of every array to `speedNum_`, not only of the speed keys (it breaks `SpeedTableMatchesFile` and `IInv`).

**Fairness.** None is assumed, and no liveness property is stated. The events, toggles and calls are the environment's, and the code does not oblige them to happen. The handlers, `OnStart` and the proxy calls are straight-line code with no waits, so their termination says nothing. The liveness a reader might want, that the service eventually becomes ready, does not hold: nothing retries a failed `OnStart`.

## 4. Proofs (TLAPS)

| Theorem | Module | States |
|---|---|---|
| `TypeCorrect` | `BatteryStatsProofs` | `Spec => []TypeOK` |
| `GatingCorrect` | `BatteryStatsProofs` | `Spec => []GatingInv` |
| `SpeedTableLoaded` | `ParserLoadProofs` | `MaxClusters <= 10` implies `Spec => []SpeedTableMatchesFile` |
| `LoopInvariant` | `ParserLoadProofs` | `MaxClusters <= 10` implies `Spec => []IInv` |
| `RefinesAbstract` | `BatteryStatsRefinement` | `Spec => AbsSpec` |
| `TypeCorrect` | `ServiceLifecycleProofs` | `Spec => []TypeOK` |
| `PublishedSafe` | `ServiceLifecycleProofs` | `Spec => []PublishedImpliesInitialised` |
| `ReadySafe` | `ServiceLifecycleProofs` | `Spec => []ReadyImpliesWired` |
| `TypeCorrect` | `StatsProxyProofs` | `Spec => []TypeOK` |

**Assumptions.** The proofs rest on `ConstantsAssumption`: uids are naturals, part and app types are disjoint, the type maps are total, table values are naturals and `MaxTime` is a natural. They also rest on `MaxStartsAssumption`, on `ProxyAssumption` (`ERR_OK` is a reply code and `"none"` is not), and on `ParserAssumption` (positive bounds, and one-digit numbers are spelt with one digit).

**Inductive invariants.**

- **`TypeOK`.** It is not inductive alone: stopping a timer adds `now - start` to its total, so `total <= now` needs `TimerInv` (a running timer's total is at most its start). The lemmas `TimerOps` and `StoppedTimerOK` show that `StartRunning`, `StopRunning` and the reset timer keep a timer well formed. `TrueEnergyType` shows that priced energies are naturals.
- **`GatingInv`.** It is inductive given `TypeOK /\ TimerInv`. The proof has one step per action, with `StartRunning(tm).running` and `~StopRunning(tm).running` from `TimerOps`.
- **Lifecycle.** The strengthening `StepInv` records what `OnStart` has achieved at each step: members exist from `publish` on, the service is published from `subscribe` on, and it is subscribed at `listen`.

- **Proxy.** `TypeOK` is inductive as it stands: every store into `lastError_` is a reply code, and `tmpError` is read from it.

- **Refinement.** `RefinesAbstract` rests on `TypeOK /\ TimerInv /\ GatingInv` (`RefInvariant`). `RunTime(tm, n)` is `GetRunningTimeMs` with the clock as a parameter, so the mapped `accrued` before and after a step can be named (`MappedAccrued`). The step lemma `RefStep` has one case per action:
  - `Tick` maps to `Abs!Tick`. A well-formed timer gains one unit exactly when it runs (`RunTimeTick`), and `GatingInv` says it runs exactly when it is ACTIVE on battery.
  - `OnEvent` maps to `Abs!Switch`, and `SetOnBattery` maps to `Abs!SetBattery`. `StartRunning` and `StopRunning` keep the running time (`RunTimeKept`).
  - `Reset` maps to `Abs!Reset`.
  - The query handlers' steps are stutters.

- **Parser table.** `SpeedTableMatchesFile` is about the end of the load, and it is not inductive: it says nothing while the loop runs. Its strengthening is `IInv`, which picks the file's cluster count `n` and step counts `steps` and states `LoopInv(n, steps)`. Once the walk has started, the members are `Order(n)`: the awake scalar, the cluster array, then the speed keys of clusters 0, 1, ... in turn. After the members before index `i`:
  - `clusterNum_` is `n` from index 3 on;
  - `speedNum_` holds the step counts of clusters `0..i-4`;
  - `averageVecMap_` holds the arrays before `i`, each as the file gives it.
  The hypothesis `MaxClusters <= 10` is used only by `MemberOrder`: `getMemberNames()` is `Order(n)`. That lemma rests on:
  - `NameOrder`: single-digit cluster numbers compare as numbers;
  - `CountBefore`: the `k`-th name has `k - 1` names before it, by `FS_CountingElements` on the injective `Order(n)`;
  - `CountMembers`: the file has `n + 2` members.
  `IInv` was checked by TLC at 3 and at 10 clusters, and TLC shows it failing at 11. `LoopInvariant` states it as a theorem.

Each of these strengthenings was first checked as a TLC invariant on the instances above.

**Left to TLC.** Liveness and anything needing `ENABLED` are out of the prover's reach, and so is induction over the data, for example what `SumFunctionOnSet` computes. The violation at eleven clusters or more is shown by `parser_wide`, not proved. The recursive decimal expansion `MCDigits` is used only by TLC.

## 5. Not modelled, and why

- **`GetTotalTimeSecond`, `GetTotalDataBytes` (service side).** They round or forward totals from `BatteryStatsCore::GetTotalTimeMs` and `GetTotalDataCount`, whose code is not in `src/`. The core model's clock counts abstract ticks, not milliseconds. The proxy side of both is modelled.
- **Phone and CPU entities.** Only their headers are in `src/`. The parser side of the CPU tables is modelled in `ParserLoad`.
- **Activation counts.** These are not modelled.
- **Dump, dumper, NAPI error table.** `Dump` takes `mutex_` and hands the arguments to `BatteryStatsDumper::Dump`, which calls `BatteryStatsCore::DumpInfo` (not in `src/`) for `-batterystats`. None of them changes state. `NapiError` maps a code to a constant message.
- **OnStop after a failed start.** The lifecycle model reaches it: the subscription stays after `OnStop` returns early. No property is stated, because nothing in the spec, the comments or the tests says what `OnStop` must release.
