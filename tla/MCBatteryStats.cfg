CONSTANTS
  Uids <- MCUids
  PartTypes <- MCPartTypes
  AppTypes <- MCAppTypes
  Consumption <- MCConsumption
  PowerKey <- MCPowerKey
  AverageMap <- MCAverageMap
  Threads = {th1}
  Requests <- MCRequests
  MaxTime = 2

SPECIFICATION Spec
INVARIANTS
  TypeOK
  GatingInv
PROPERTIES
  AbsSpec
