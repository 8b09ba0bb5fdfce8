CONSTANTS
  Limit = 4
  Spaces <- MCSpaces
  Prot = {"r", "rw"}
  Any = "any"
  MaxChanges = 2
SPECIFICATION Spec
INVARIANTS
  StableFound
  RegionsWere
  ExactWhenQuiet
PROPERTY Ends
CHECK_DEADLOCK FALSE
