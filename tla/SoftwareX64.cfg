CONSTANTS
  t1 = t1
  t2 = t2
  b1 = b1
  b2 = b2
  p0 = p0
  p1 = p1
  LastAddr = 2
  Page <- MCPage
  PageOf <- MCPageOf
  Thread <- MCThread
  Bkpt <- MCBkpt
  Kind <- MCX64
  Address <- MCAddress
  InitMem <- MCInitMem
  InitialProt <- MCProt
  StaleByte = {0}
  MaxCalls = 5
  MaxRefusals = 1
SPECIFICATION Spec
INVARIANTS
  TypeOK
  Confined
  OriginalKept
  TruthfulReturn
  TrapIsActive
  NoPageLeftWritable
SYMMETRY Symmetry
CHECK_DEADLOCK FALSE
