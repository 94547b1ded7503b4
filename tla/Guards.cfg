CONSTANTS
  g0 = g0
  g1 = g1
  g2 = g2
  g3 = g3
  Guards = {g0, g1, g2, g3}
  Own = g0
SPECIFICATION GuardsFairSpec
INVARIANTS
  CountExact
  ZeroNotForgotten
  ZeroMeansNone
PROPERTY
  ImplementsWaitGroup
CHECK_DEADLOCK FALSE
