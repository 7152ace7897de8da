SPECIFICATION Spec
CONSTANTS
  Packets <- MCPackets
  BufSize = 16
  AppBuf = 4
  LenBase = 8
  WordMod = 64
  MaxPackets = 3
INVARIANTS
  TypeOK
  PublishRead
  PublishFound
  AckRead
  PrintedRight
  CopiesFit
CHECK_DEADLOCK FALSE
