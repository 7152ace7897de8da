SPECIFICATION Spec
CONSTANTS
  Packets <- MCPackets
  BufSize = 16
  AppBuf = 4
  LenBase = 8
  WordMod = 64
  MaxPackets = 1
INVARIANT PayloadWhole
CHECK_DEADLOCK FALSE
