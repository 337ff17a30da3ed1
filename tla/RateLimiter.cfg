SPECIFICATION Spec
CONSTANTS
  ClientKeys = {k1}
  Groups = {"execute", "grpc"}
  MaxTokens <- SlowCap
  RefillRate <- SlowRate
  Unit = 3
  Fibers = {f1, f2}
  NoKey = NoKey
  MaxTime = 5
SYMMETRY FiberSymmetry
INVARIANTS WindowBound
PROPERTIES RetryAfterHonest
