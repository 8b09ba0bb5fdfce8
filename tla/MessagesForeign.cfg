CONSTANTS
  Client = {}
  Foreign = {f1}
  MaxCode = 2
  MaxState = 2
  Word = {0, 1, 2, 3}
  MaxCalls = 0
  MaxBody = 7
SPECIFICATION Spec
INVARIANT ReadsInside
CHECK_DEADLOCK FALSE
