CONSTANTS
  g0 = g0
  g1 = g1
  sigint = sigint
  sigterm = sigterm
  Guards = {g0, g1}
  Own = g0
  Sigs = {sigint, sigterm}
  Interrupt = sigint
SPECIFICATION SignalsFairSpec
INVARIANTS
  SignalsInv
  OnlyWhenAsked
  NoSignalLost
PROPERTY
  HeardSignalActs
CHECK_DEADLOCK FALSE
