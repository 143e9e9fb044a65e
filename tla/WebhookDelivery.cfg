SPECIFICATION FairSpec
CONSTANTS
  SubscriptionId = {s1}
  EventId = {e1, e2}
  DispatcherId = {d1, d2}
  NoClaim = NoClaim
  WorkerId = {worker}
  NoWorker = NoWorker
  worker = worker
  app = app
  WorkerOf <- SharedWorkerId
  App = {app}
  Filter <- BothFilters
  LeaseTTL = 2
  MaxAttempts = 2
  MaxDelay = 1
  BatchSize = 1
  Horizon = 0
  MaxMishaps = 2
INVARIANTS
  OnePunctualSender
  AttemptsAccountedFor
  ReferencesStored
PROPERTIES
  EventuallySettled
