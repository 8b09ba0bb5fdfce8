CONSTANTS
  t1 = t1
  t2 = t2
  b1 = b1
  b2 = b2
  p0 = p0
  p1 = p1
  LastAddr = 5
  Page <- MCPage
  PageOf <- MCArmPageOf
  Thread <- MCThread
  Bkpt <- MCBkpt
  Kind <- MCArm
  Address <- MCArmAddress
  InitMem <- MCArmInitMem
  InitialProt <- MCProt
  StaleByte = {0}
  MaxCalls = 4
  MaxRefusals = 1
SPECIFICATION Spec
INVARIANTS
  Confined
  OriginalKept
  TruthfulReturn
SYMMETRY Symmetry
CHECK_DEADLOCK FALSE
