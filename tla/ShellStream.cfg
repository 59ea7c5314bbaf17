\* With all events committed and delivered, the system rightly rests.
SPECIFICATION FairSpec
CONSTANTS
  t1 = t1
  t2 = t2
  Threads <- TwoThreads
  NoCursor = none
  Synchronized = synchronized
  ResumeMaxGap = 2
  MaxEvents = 3
  MaxSessions = 2
  MaxWakes = 1
  MaxFailures = 1
INVARIANTS TypeOK LiveShellIsCurrent LossEndsWithSession
PROPERTIES SettlesLive
CHECK_DEADLOCK FALSE
