CONSTANTS
  Sends = {s1, s2}
  NoSend = NoSend
  MaxRetries = 1
  Calls = {c1, c2}
  Settings <- MCSettings
  BodyLimit = 2
  BodyMax = 4
  ChunkMax = 2
  RedirectLimits = {1, 3}
  Runs = {r1, r2}
  NoRun = NoRun
  Requests = 3
  Concurrency = 2
  ScriptKeys <- MCScriptKeys
  ScriptValues = {"new", "newer"}
  VariableNames = {"", "v"}
  CallerHeaders <- MCCallerHeaders
  MaxApiCalls = 2
SPECIFICATION Spec
INVARIANTS ExecutionIsInControl RequestIsFaithful RunsAccount
PROPERTIES WorkEnds
CHECK_DEADLOCK FALSE
