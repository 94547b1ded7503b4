CONSTANTS
  f1 = f1
  f2 = f2
  d1 = d1
  d2 = d2
  Signals = {f1, f2}
  Delays = {d1, d2}
  None = None
  Default = Default
  MaxCalls = 5
SPECIFICATION Spec
SYMMETRY Symmetry
INVARIANT
  BuiltAsAsked
CHECK_DEADLOCK FALSE
