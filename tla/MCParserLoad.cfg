CONSTANTS
  MaxClusters = 3
  MaxSteps = 3
  Digits <- MCDigits
SPECIFICATION Spec
INVARIANT
  SpeedTableMatchesFile
  IInv
\* LoadAveragePowerFromFile returns once; nothing runs after it.
CHECK_DEADLOCK FALSE
