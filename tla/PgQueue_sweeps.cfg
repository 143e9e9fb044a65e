SPECIFICATION Spec
CONSTANTS
  RunId = {r1}
  JobId = {j1, j2}
  WorkerId = {w1, w2}
  TxnId = {t1, t2}
  App = {app}
  app = app
  NoRun = NoRun
  NoJob = NoJob
  NoWorker = NoWorker
  Nobody = Nobody
  AppOf <- OneApp
  Limit <- LimitOne
  SweepsAlone = FALSE
  MaxAttempts = 2
SYMMETRY Symmetric
PROPERTY SweepsSpareActive
CHECK_DEADLOCK FALSE
