CONSTANTS
  c = c
  s = s
  b1 = b1
  b2 = b2
  p0 = p0
  LastAddr = 1
  Page = {p0}
  PageOf <- MCPageOf
  Thread = {c, s}
  Client = c
  Server = {s}
  Bkpt <- MCBkpt
  Kind <- MCX64
  Address <- MCAddress
  InitMem <- MCInitMem
  InitialProt = {{"r", "x"}}
  StaleByte = {0}
  MaxCalls = 4
  MaxRefusals = 0
  MaxInstalled = 2
SPECIFICATION HandlerSpec
INVARIANTS
  ArmedIsRegistered
  SavedByteSurvives
PROPERTIES
  OnlyOwnRemoved
CHECK_DEADLOCK FALSE
