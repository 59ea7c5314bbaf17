SPECIFICATION Spec
CONSTANTS
  p = p
  k = k
  f1 = f1
  Nobody = Nobody
  Startup = Startup
  Threads = {p, k}
  Subtree <- MCSubtree
  Files = {f1}
  ThreadOf <- MCThreadOf
  MaxCommits = 3
  MaxFailures = 1
  MaxCrashes = 1
INVARIANTS
  TypeOK
  NothingForgotten
  AnsweredIsReconciled
PROPERTIES
  StartReconciles
\* The bound on commits leaves the system with nothing to do.
CHECK_DEADLOCK FALSE
