SPECIFICATION PgSpec
CONSTANTS
  SubscriptionId = {s1, s2}
  EventId = {e1}
  Session = {p1, p2, p3}
  NoEvent = NoEvent
  MaxAttempts = 2
INVARIANT NeverDeadlocked
PROPERTY ImplementsTables
PROPERTY EventReachesSubscribers
SYMMETRY Symmetric
