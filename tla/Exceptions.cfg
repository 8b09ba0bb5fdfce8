CONSTANTS
  Setup = {k1, k2}
  Thread = {t1}
  Bkpt = {b1}
  Nothing = nothing
  MaxTraps = 3
SPECIFICATION Spec
INVARIANTS
  SuspendBalanced
  AnsweredOnce
  RegisteredHasServer
PROPERTIES
  Answered
CHECK_DEADLOCK FALSE
