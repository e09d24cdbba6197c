SPECIFICATION ESpec
CONSTANTS
  Id = {krakey}
  Default = Default
  Nowhere = Nowhere
  MaxMark = 2
  MaxCall = 1
INVARIANTS
  DiscardedStaysOut
CHECK_DEADLOCK FALSE
