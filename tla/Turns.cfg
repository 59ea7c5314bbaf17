\* With every turn ended and the disturbances used, the system rightly rests.
SPECIFICATION FairSpec
CONSTANTS
  t1 = t1
  t2 = t2
  NoTurn = none
  Turns <- TwoTurns
  MaxDisturbances = 1
CHECK_DEADLOCK FALSE
INVARIANTS TypeOK
PROPERTIES
  CancelledIsNotSent
  ReaperClearsLostTurns
  StartsAreAnswered
  BusyEnds
