SPECIFICATION Spec
CONSTANTS
  p = p
  k = k
  f1 = f1
  Nobody = Nobody
  Startup = Startup
  Threads = {p, k}
  Subtree <- MCSubtree
  Files = {}
  ThreadOf <- MCThreadOf
  MaxCommits = 3
  MaxFailures = 0
  MaxCrashes = 0
INVARIANTS
  DeletedStaysGone
\* The bound on commits leaves the system with nothing to do.
CHECK_DEADLOCK FALSE
