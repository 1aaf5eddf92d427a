-------------------------- MODULE MCServiceLifecycle --------------------------
(* BatteryStatsService's lifecycle with up to four OnStart calls: enough   *)
(* for a failed start, its retry, an OnStop and a start after it.       *)
EXTENDS ServiceLifecycle

MCMaxStarts == 4
=============================================================================
