SPECIFICATION FairSpec
CONSTANTS
  ByteBase = 3
  FirstIdent <- MCFirstIdent
  InMsgs <- Msgs1
  InQos <- Qos2
  CallerAsks = TRUE
  MaxConn = 2
  MaxReq = 1
INVARIANTS
  HandshakeOrder
  OneReceiver
PROPERTIES
  SilentAfterDisconnect
  MessageArrives
  PeerCloseNoticed
CHECK_DEADLOCK FALSE
VIEW Handshake
