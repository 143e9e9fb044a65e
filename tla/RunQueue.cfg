SPECIFICATION Spec
CONSTANTS
  RunId = {r1, r2}
  JobId = {j1, j2}
  TaskId = {t1}
  WorkerId = {w1, w2}
  NoRun = NoRun
  NoTask = NoTask
  NoTag = NoTag
  NoWorker = NoWorker
  app = app
  r1 = r1
  act1 = act1
  act2 = act2
  w1 = w1
  plain = plain
  browser = browser
  App = {app}
  Action = {act1, act2}
  Tag = {plain, browser}
  Label = {browser}
  AppOf <- OneApp
  ActionOf <- TwoActions
  Limit <- LimitOne
  RouteTag <- PlainRoute
  RequiredLabels <- NeedsBrowser
  WorkerTags <- MixedTags
  WorkerLabels <- BrowserOffer
  LeaseTTL = 1
  StuckAfter = 1
  MaxTime = 3
SYMMETRY JobSymmetry
INVARIANTS
  QueueInv
  ConcurrencyRespected
PROPERTIES
  CancelPrevails
  SupersededLeaseNeverReports
  LiveLeaseNotStuck
  ImplementsLifecycle
CHECK_DEADLOCK FALSE
