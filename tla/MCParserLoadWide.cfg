\* Eleven clusters: cluster10 sorts before cluster2 in name order.
CONSTANTS
  MaxClusters = 11
  MaxSteps = 2
  Digits <- MCDigits
SPECIFICATION Spec
INVARIANT
  SpeedTableMatchesFile
\* LoadAveragePowerFromFile returns once; nothing runs after it.
CHECK_DEADLOCK FALSE
