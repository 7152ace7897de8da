SPECIFICATION Spec
CONSTANTS
  ByteBase = 3
  FirstIdent <- MCFirstIdent
  InMsgs <- Msgs1
  InQos <- Qos1
  CallerAsks = TRUE
  MaxConn = 1
  MaxReq = 0
INVARIANT ConnectEventMeansAccepted
CHECK_DEADLOCK FALSE
