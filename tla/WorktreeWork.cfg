\* The commands and failures are bounded: all work may be done.
SPECIFICATION Spec
CONSTANTS
  t1 = t1
  t2 = t2
  Threads <- TwoThreads
  Source <- t1
  ManualReclaim = TRUE
  MaxCommands = 1
  MaxFailures = 0
  MaxCrashes = 0
PROPERTIES DirtyIsKept
CHECK_DEADLOCK FALSE
