---------------------------- MODULE MCBatteryStats ----------------------------
(***************************************************************************)
(* A small instance of BatteryStats: the Bluetooth BR radio (device      *)
(* level) and the Bluetooth BR scans of two apps, as in the client tests. *)
(***************************************************************************)
EXTENDS BatteryStats

MCUids == {10003, 10004}
MCPartTypes == {"STATS_TYPE_BLUETOOTH_BR_ON"}
MCAppTypes == {"STATS_TYPE_BLUETOOTH_BR_SCAN"}
MCConsumption ==
  [t \in MCPartTypes \cup MCAppTypes |->
     IF t = "STATS_TYPE_WIFI_ON" THEN "CONSUMPTION_TYPE_WIFI"
                                 ELSE "CONSUMPTION_TYPE_BLUETOOTH"]
MCPowerKey ==
  [t \in MCPartTypes \cup MCAppTypes |->
     CASE t = "STATS_TYPE_BLUETOOTH_BR_ON" -> "bluetooth_br_on"
       [] t = "STATS_TYPE_BLUETOOTH_BR_SCAN" -> "bluetooth_br_scan"
       [] OTHER -> "wifi_on"]
MCAverageMap == [bluetooth_br_on |-> 2, bluetooth_br_scan |-> 3]

\* One query of each shape for the two-handler runs: a device part, a uid's
\* share of the total, and the full list.
MCRequests ==
  {[op |-> "GetPartStatsMah", arg |-> "CONSUMPTION_TYPE_BLUETOOTH"],
   [op |-> "GetAppStatsPercent", arg |-> 10003],
   [op |-> "GetBatteryStats", arg |-> INVALID_VALUE]}
=============================================================================
