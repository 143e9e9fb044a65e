SPECIFICATION ViewsSpec
CONSTANTS
  RunId = {r1}
  JobId = {j1, j2}
  TaskId = {t1}
  WorkerId = {w1}
  NoRun = NoRun
  NoTask = NoTask
  NoTag = NoTag
  NoWorker = NoWorker
  NoJob = NoJob
  app = app
  act = act
  plain = plain
  j1 = j1
  j2 = j2
  j3 = j3
  App = {app}
  Action = {act}
  Tag = {plain}
  Label = {}
  AppOf <- OneApp
  ActionOf <- OneAction
  Limit <- NoLimit
  RouteTag <- PlainRoute
  RequiredLabels <- NoLabels
  WorkerTags <- AnyTag
  WorkerLabels <- NoOffer
  LeaseTTL = 2
  StuckAfter = 1
  MaxTime = 2
  c1 = c1
  Asks <- Sides
  Client = {c1, c2}
  MaxConns = 2
  MaxDoubles = 1
  PageSize = 1
  Rank <- Ranks
 
PROPERTY AnswersWereTrue
PROPERTY WalkComplete
