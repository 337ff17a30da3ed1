CONSTANTS
  Conns = {c1, c2}
  Rpcs = {t1, t2}
  NoConn = NoConn
  Frames <- SmallFrames
  PollSizes = {0, 1}
  MaxMessages = 2
  MaxBufferBytes = 1
  MaxPoll = 2
  SystemLen = 0
  MaxAppends = 3
SYMMETRY Symmetry
SPECIFICATION MCSpec
INVARIANTS TypeOK NoOrphanSocket DeadConnectionIsMarked SweepOwnsRegistry BufferIsNewestRun
PROPERTY MailboxDelivery
CHECK_DEADLOCK FALSE
