SPECIFICATION Spec
CONSTANTS
  ByteBase = 3
  FirstIdent <- LowIdent
  InMsgs <- Msgs1
  InQos <- Qos1
  CallerAsks = FALSE
  MaxConn = 1
  MaxReq = 1
INVARIANT PubrelNamesPublication
CHECK_DEADLOCK FALSE
