SPECIFICATION RoutingSpec
CONSTANTS
  a = a
  b = b
  j1 = j1
  blue = blue
  green = green
  w1 = w1
  NoTag = NoTag
  App = App
  Job = {j1}
  Action = {a, b}
  ActionOf <- Actions1
  Tag = {blue, green}
  DefaultRouteTag = blue
  Release = {1, 2}
  AppTag <- AppTags
  ActionTag <- ActionTags
  Legacy <- LegacyFile
  Worker = {w1}
  WorkerTags <- Pools
  Patcher = {p1, p2}
  p1 = p1
  p2 = p2
  Requeuer = {q1}
  WorkerLiveTTL = 0
  WorkerRegistryExpiry = 1
  MaxChanges = 2
  MaxBusy = 2
  Asked <- Overrides
SYMMETRY Patchers
CHECK_DEADLOCK FALSE
INVARIANT NothingUndone
INVARIANT TagsAnswered
 
