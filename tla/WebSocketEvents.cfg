SPECIFICATION EventsFairSpec
CONSTANTS
  Conns = {c1}
  Rpcs = {t1}
  NoConn = NoConn
  Frames <- OneFrame
  PollSizes = {0}
  MaxMessages = 2
  MaxBufferBytes = 2
  MaxPoll = 2
  SystemLen = 1
  SseMax = 1
  MaxAppends = 2
INVARIANTS CloseIsTrue
PROPERTIES ClosingSettles
CHECK_DEADLOCK FALSE
