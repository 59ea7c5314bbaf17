\* The commands and failures are bounded: all work may be done.
SPECIFICATION FairSpec
CONSTANTS
  t1 = t1
  t2 = t2
  Threads <- TwoThreads
  Source <- t1
  ManualReclaim = FALSE
  MaxCommands = 2
  MaxFailures = 1
  MaxCrashes = 0
PROPERTIES ReservationsEnd CommandsEnd
CHECK_DEADLOCK FALSE
