CONSTANTS
  Setup = {k1}
  Thread = {t1}
  Bkpt = {b1}
  Nothing = nothing
  MaxTraps = 0
SPECIFICATION Spec
INVARIANT BreakpointsAreHandled
CHECK_DEADLOCK FALSE
