CONSTANTS
  MaxRoutes = 3
  MaxConditions = 2
  MaxBody = 2
  MaxConfig = 4
  MaxLatency = 5
  Less <- MCLess
  Includes <- MCIncludes
  Accepts <- MCAccepts
  Clients = {c1, c2}
  Jobs = {j1, j2}
  Drafts <- MCDrafts
  Imports <- MCImports
  Requests <- MCRequests
  Targets <- MCTargets
  LogCap = 2
  RecordCap = 2
  Bounds <- MCBounds
  StoredRoutes <- MCStored
  GrpcClients = {g1, g2}
  GrpcConfigs <- MCGrpcConfigs
  Methods = {"m", "n"}
  GrpcLogCap = 2
  MaxInvokes = 3
  MaxStarts = 2
  Hooks = {h1}
  NoHook = NoHook
  Configs <- MCConfigs
  NoValidation <- MCNoValidation
  Deliveries <- MCDeliveries
  Saves = {s1, s2}
  EntryCap = 1
  MaxSaves = 2
  MaxDeliveries = 2
SPECIFICATION Spec
INVARIANTS MocksServe WebhooksHold
PROPERTIES MocksSettle
CHECK_DEADLOCK FALSE
