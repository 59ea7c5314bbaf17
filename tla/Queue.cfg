SPECIFICATION FairSpec
CONSTANTS
  thread = thread
  user = user
  monitor = monitor
  Threads = {thread}
  Turns = {user, monitor}
  Monitored = {monitor}
  ThreadOf <- MCThreadOf
  MaxFailures = 2
  MaxCrashes = 1
  MaxQuits = 1
INVARIANTS
  TypeOK
  NoTwoTurnsTie
  CrashedTurnsWaitUnlessLapsed
  NoWakeUpIsLost
PROPERTIES
  DueTurnsAreStarted
\* Every turn may be over, and the bound on exits reached.
CHECK_DEADLOCK FALSE
