CONSTANTS
  own = own
  loop = loop
  watch = watch
  c1 = c1
  c2 = c2
  Guards = {own, loop, watch, c1, c2}
  Own = own
  Loop = loop
  Watch = watch
  Conns = {c1, c2}
SPECIFICATION ServerFairSpec
PROPERTY
  MonitorOnlyExits
CHECK_DEADLOCK FALSE
