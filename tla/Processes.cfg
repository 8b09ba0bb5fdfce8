CONSTANTS
  self = self
  p1 = p1
  p2 = p2
  p3 = p3
  debugger = debugger
  app = app
  game = game
  Pid = {a, b, c}
  NoPid = nopid
  Proc = {self, p1, p2, p3}
  Self = self
  Name = {debugger, app, game}
  Kernel = debugger
  NameOf <- MCNameOf
  Slack = 0
  Nothing = nothing
SPECIFICATION Spec
SYMMETRY Symmetry
INVARIANTS
  AliveIsFound
  Coherent
CHECK_DEADLOCK FALSE
