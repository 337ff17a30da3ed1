CONSTANTS
  Tabs = {t1, t2}
  c1 = c1
  c2 = c2
  f1 = f1
  f2 = f2
  r1 = r1
  r2 = r2
  Cols = {c1, c2}
  Folds = {f1, f2}
  Reqs = {r1, r2}
  None = None
  MaxOps = 3
  Stored <- MCStored
  Files <- MCFiles
  Writers = {w1, w2}
  HistoryMax = 3
  Limits = {0, 1}
  HISTORY_LIMIT = 2
  MostKept = 2
  k1 = k1
  k2 = k2
  k3 = k3
  CookieIds = {i1, i2, i3}
  Keys = {k1, k2, k3}
  DomainOf <- MCDomainOf
  Managers = {m1}
  Pages = {p1, p2}
  Envs = {e1, e2}
  NoEnv = NoEnv
  MaxCalls = 2
  Examples = {x1, x2}
SYMMETRY Symmetry
SPECIFICATION Spec
INVARIANTS TreeIsSound TablesAreSound
PROPERTIES DeletesWhatItMust
CHECK_DEADLOCK FALSE
