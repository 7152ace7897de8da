SPECIFICATION FairSpec
CONSTANTS
  N = 7
  Lb <- Lb7
  Rem <- Rem7
  Stream <- Stream7
  BufSize = 16
  SizeMod = 128
INVARIANTS
  TypeOK
  FramedWhenClean
PROPERTIES
  CallReturns
  ImplementsReader
CHECK_DEADLOCK FALSE
