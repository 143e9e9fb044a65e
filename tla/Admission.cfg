SPECIFICATION Spec
CONSTANTS
  Request = {q1, q2}
  Key = {k1}
  Client = {c1}
  NoClient = NoClient
  Value = {v1, v2}
  NoValue = NoValue
  NoRun = NoRun
  Store = "local"
  Claimer = {"local"}
  MaxEdits = 2
  MaxJobs = 2
SYMMETRY Symmetric
INVARIANT AnswersOneRun
INVARIANT LockedKeysHold
 
CHECK_DEADLOCK FALSE
