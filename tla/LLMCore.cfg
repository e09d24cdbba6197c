SPECIFICATION Spec
CONSTANTS
  k1 = k1
  k2 = k2
  l1 = l1
  l2 = l2
  Key <- OneKey
  Loop <- TwoLoops
  Config <- EveryConfig
  Estimate <- LongEstimates
  NoBudget = NoBudget
  MaxTriggers = 3
INVARIANTS
  TypeOK
  EveryTriggerServed
  OneReportPerSend
PROPERTIES
  QuietAfterTeardown
  Coalesces
CHECK_DEADLOCK FALSE
