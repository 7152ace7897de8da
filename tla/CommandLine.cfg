SPECIFICATION Spec
CONSTANTS
  Char <- MCChar
  Requests <- MCRequests
  BufLen = 9
  CntMod = 65536
  Garbage <- MCGarbage
  GarbageText <- MCGarbageText
  Ahead <- MCAhead
  MaxReads = 4
INVARIANTS
  TypeOK
  LineHandled
  OncePerNewline
  StaysInBuffer
CHECK_DEADLOCK FALSE
