CONSTANTS
  Flows = {s1, s2}
  Callbacks = {c1, c2}
  Codes = {k1, k2}
  NoFlow = NoFlow
  NoCode = NoCode
  MaxCallbacks = 2
  MaxAttempts = 3
  MaxMounts = 2
  MaxDisconnects = 2
  reconnectMaxRetries = 2
  MaxSubs = 2
  Polls = {p1}
  MaxPending = 1
  MaxFrames = 1
SPECIFICATION MCSpec
INVARIANTS TypeOK OutcomeReadOnce TokenOnce SessionsAreFollowed
PROPERTIES EndsAreSeen
CHECK_DEADLOCK FALSE
