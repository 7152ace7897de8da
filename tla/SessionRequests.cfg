SPECIFICATION Spec
CONSTANTS
  ByteBase = 3
  FirstIdent <- MCFirstIdent
  InMsgs <- Msgs011
  InQos <- Qos011
  CallerAsks = FALSE
  MaxConn = 1
  MaxReq = 2
INVARIANTS
  TypeOK
  PublishedInOrder
  ReceivedInOrder
  AcksInOrder
CHECK_DEADLOCK FALSE
VIEW Ordered
