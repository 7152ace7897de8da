SPECIFICATION Spec
CONSTANTS
  N = 3
  Lb <- Lb3
  Rem <- Rem3
  Stream <- Stream3
  BufSize = 16
  SizeMod = 128
INVARIANT OnlyWholePackets
CHECK_DEADLOCK FALSE
