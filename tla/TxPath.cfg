SPECIFICATION Spec
CONSTANTS
  Thread <- MCThread
  Calls <- MCCalls
  BufSize = 18
  LenBase = 12
  IdentBase = 3
  FirstIdent = 7
  MaxDeviceId = 3
  MaxCalls = 4
INVARIANTS
  TypeOK
  Intact
  StaysInside
  IdentsDistinct
CHECK_DEADLOCK FALSE
VIEW Judged
