SPECIFICATION Spec
CONSTANTS
  Server = {s1, s2}
  Worker = {w1}
  Commit = {c1}
  NoTree = NoTree
  CacheOf <- OwnCaches
  MaxRuntime = 2
 
INVARIANT PublishedComplete
INVARIANT RunsPinned
SYMMETRY Processes
