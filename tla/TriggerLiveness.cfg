CONSTANTS
  r1 = r1
  r2 = r2
  s1 = s1
  s2 = s2
  t1 = t1
  t2 = t2
  k1 = k1
  k2 = k2
  Receivers = {r1, r2}
  Root = r1
  Senders = {s1, s2}
  Tasks = {t1, t2}
  Keys = {k1, k2}
  Vacant = Vacant
  None = None
SPECIFICATION FairSpec
PROPERTIES
  CallsReturn
  ImplementsLatch
CHECK_DEADLOCK FALSE
