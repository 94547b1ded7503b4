CONSTANTS
  g0 = g0
  g1 = g1
  Guards = {g0, g1}
  Own = g0
SPECIFICATION PollingFairSpec
INVARIANTS
  PollingInv
  SleepIsWaiting
  NoMissedEvent
PROPERTY
  ImplementsShutdown
CHECK_DEADLOCK FALSE
