CONSTANTS
  d1 = d1
  d2 = d2
  t1 = t1
  t2 = t2
  b1 = b1
  b2 = b2
  a1 = a1
  a2 = a2
  zero = zero
  Debugger = {d1}
  Pauser = {p1, p2}
  Thread <- MCThread
  Bkpt = {b1, b2}
  Address <- MCAddress
  Clear = zero
  Junk <- MCJunk
  MaxRefused = 1
  InUse = {2}
  MaxPC = 1
  MaxCalls = 4
SPECIFICATION Spec
INVARIANTS
  ResetDisarms
  ApplyArms
  EnabledIsActive
PROPERTIES
  PausedCallsDoNotRewind
SYMMETRY Symmetry
CHECK_DEADLOCK FALSE
