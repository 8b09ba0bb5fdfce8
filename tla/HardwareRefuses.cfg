CONSTANTS
  d1 = d1
  d2 = d2
  t1 = t1
  t2 = t2
  b1 = b1
  b2 = b2
  a1 = a1
  a2 = a2
  zero = zero
  Debugger = {d1}
  Pauser = {p1}
  Thread <- MCThread
  Bkpt = {b1}
  Address <- MCAddress1
  Clear = zero
  Junk <- MCJunk
  MaxRefused = 0
  InUse = {0}
  MaxPC = 0
  MaxCalls = 5
SPECIFICATION Spec
PROPERTY RefusesOnlyWhenFull
SYMMETRY Symmetry
CHECK_DEADLOCK FALSE
