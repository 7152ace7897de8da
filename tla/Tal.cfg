SPECIFICATION FairSpec
CONSTANT MaxSock = 2
INVARIANTS
  TypeOK
  Served
PROPERTIES
  ClosedOnPurpose
  WaitReturns
CHECK_DEADLOCK FALSE
