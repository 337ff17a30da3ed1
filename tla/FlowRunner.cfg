CONSTANTS
  login = login
  check = check
  user = user
  pause = pause
  never = never
  poll = poll
  fetch = fetch
  last = last
  NoStep = NoStep
  NoNumber = NoNumber
  DefaultMax = 2
  StepIds <- Ids
  Step <- Steps
  Main <- Flow
  FlowSteps = {s1, s2}
  FlowRuns = {r1, r2}
  FlowRows = {f1}
  MaxModals = 2
  NoRun = NoRun
SPECIFICATION MCSpec
INVARIANTS RunIsReported ModalIsOfItsRun
PROPERTIES FlowProgress
CHECK_DEADLOCK FALSE
