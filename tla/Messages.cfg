CONSTANTS
  Client = {c1, c2}
  Foreign = {}
  MaxCode = 1
  MaxState = 1
  Word = {0, 1}
  MaxCalls = 3
  MaxBody = 0
SYMMETRY Clients
SPECIFICATION Spec
INVARIANTS ArgumentsArrive StubsAgree SuccessIsOwn WaitingIsOwed
PROPERTIES ImplementsRemoteCall
CHECK_DEADLOCK FALSE
