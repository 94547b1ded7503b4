CONSTANTS
  r1 = r1
  r2 = r2
  r3 = r3
  s1 = s1
  s2 = s2
  t1 = t1
  t2 = t2
  k1 = k1
  k2 = k2
  k3 = k3
  Receivers = {r1, r2, r3}
  Root = r1
  Senders = {s1, s2}
  Tasks = {t1, t2}
  Keys = {k1, k2, k3}
  Vacant = Vacant
  None = None
SPECIFICATION Spec
SYMMETRY Symmetry
INVARIANTS
  NoDeadlock
  KeysOwned
  NoLostWakeup
  TriggerInv
CHECK_DEADLOCK FALSE
