\* The commands and failures are bounded: all work may be done.
SPECIFICATION Spec
CONSTANTS
  t1 = t1
  t2 = t2
  Threads <- TwoThreads
  Source <- t1
  ManualReclaim = FALSE
  MaxCommands = 3
  MaxFailures = 0
  MaxCrashes = 1
INVARIANTS TypeOK ReservationsMatchJobs
PROPERTIES LiveTurnKeepsCheckout ReopenedKeepsCheckout LiveWorkIsKept
CHECK_DEADLOCK FALSE
