SPECIFICATION FairSpec
CONSTANTS
  s1 = s1
  c1 = c1
  c2 = c2
  o1 = o1
  o2 = o2
  app = app
  NoSource = NoSource
  NoCommit = NoCommit
  Nobody = Nobody
  Lost = Lost
  App = {app}
  AppOf <- SharedApp
  Source = {s1}
  Commit = {c1, c2}
  OperationId = {o1, o2}
  ServerId = {o1, o2}
  ServerOf <- OwnServer
  Distributed = TRUE
  LeaseTTL = 3
  RenewEvery = 1
  MaxEvents = 4
  MaxStalls = 1
  MaxCrashes = 1
INVARIANTS
  OnePunctualOperation
  EventsChain
  CatalogFollowsEvents
PROPERTIES
  PublishesLatest
  SourceFreed
