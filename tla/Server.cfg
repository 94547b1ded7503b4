CONSTANTS
  own = own
  loop = loop
  watch = watch
  c1 = c1
  c2 = c2
  c3 = c3
  Guards = {own, loop, watch, c1, c2, c3}
  Own = own
  Loop = loop
  Watch = watch
  Conns = {c1, c2, c3}
SPECIFICATION ServerFairSpec
INVARIANTS
  DrainNeverStuck
  GuardsHeld
  GracefulCutsNobody
PROPERTIES
  ServerExits
  HyperDrains
  ServerFailureEndsMain
CHECK_DEADLOCK FALSE
