CONSTANTS
  g0 = g0
  g1 = g1
  Guards = {g0, g1}
  Own = g0
  Delays = {0, 2}
  Limits = {0, 1, 2}
  MaxTime = 4
SPECIFICATION TimedSpec
INVARIANT
  ElapsedSinceSignal
CHECK_DEADLOCK FALSE
