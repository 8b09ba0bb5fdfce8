CONSTANTS
  MaxLoads = 2
  MaxAssigns = 1
  MaxRefusals = 1
SPECIFICATION Spec
INVARIANTS
  AssignedIsNamed
  JunkOnlyUnfetched
  OldOnlyIfLate
CHECK_DEADLOCK FALSE
