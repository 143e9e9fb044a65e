SPECIFICATION ProvisionSpec
CONSTANTS
  Handler = {h1, p1, p2}
  Applier = {p1, p2}
  Name = {"n1", "n2"}
  Location = {"l1", "l2"}
  Branch = {"b1", "b2"}
  Client = {"c1"}
  Path = {"x1", "x2"}
  Value = {"v1", "v2"}
  NoValue = NoValue
  Redacted = Redacted
  NoCommit = NoCommit
  NoSource = NoSource
  Registration <- MCRegistration
  Change <- MCChange
  Registered <- MCRegistered
  Stored <- MCStored
  Docs <- MCDocs
  MaxId = 2
  MaxRequests = 2
  MaxApplications = 2
INVARIANT CrashSafe
INVARIANT MarksEarned
 
PROPERTY ApplyEstablishes
CHECK_DEADLOCK FALSE
