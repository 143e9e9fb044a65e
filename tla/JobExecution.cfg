SPECIFICATION FairSpec
CONSTANTS
  j1 = j1
  j2 = j2
  JobId = {j1, j2}
  WorkerId = {w1, w2}
  NoJob = NoJob
  NoWorker = NoWorker
  Remote = {w1}
  Adapter <- Adapters
  Timed = {j2}
  Forking = {j1}
  MaxFaults = 1
INVARIANT OutcomeEarned
 
PROPERTY EveryJobSettles
CHECK_DEADLOCK FALSE
