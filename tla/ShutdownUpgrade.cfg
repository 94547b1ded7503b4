CONSTANTS
  g0 = g0
  g1 = g1
  g2 = g2
  Guards = {g0, g1, g2}
  Own = g0
SPECIFICATION ShutdownFairSpec
PROPERTIES
  UpgradeHolds
CHECK_DEADLOCK FALSE
