\* The items may all be over, and nobody needs to call drain.
SPECIFICATION FairSpec
CONSTANTS
  i1 = i1
  i2 = i2
  i3 = i3
  a = a
  b = b
  none = none
  Items <- ThreeItems
  Keys <- TwoKeys
  NoItem = none
INVARIANTS TypeOK
PROPERTIES DrainedIsIdle DrainReturns ImplementsKeyedFIFO
CHECK_DEADLOCK FALSE
