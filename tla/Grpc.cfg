CONSTANTS
  Streams = {s1}
  Rpcs = {t1, t2, t3}
  NoStream = NoStream
  PollSizes = {0, 1}
  MaxPoll = 2
  MaxReceived = 2
  Files = {"a", "b", "c", "h", "r"}
  Symbols = {"S", "T"}
  Health = "H"
  Reflection = "R"
  Targets <- MCTargets
  Protosets <- MCProtosets
  GrpcCallIds = {g1, g2}
  NoGrpc = NoGrpc
  MaxCloses = 1
SPECIFICATION MCSpec
INVARIANTS TypeOK NoLeakedConn OneOwner NothingLost OffersAreCallable
PROPERTIES GrpcEnds
