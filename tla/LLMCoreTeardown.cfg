SPECIFICATION Spec
CONSTANTS
  k1 = k1
  k2 = k2
  l1 = l1
  l2 = l2
  Key <- OneKey
  Loop <- TwoLoops
  Config <- BusyConfig
  Estimate <- ShortEstimates
  NoBudget = NoBudget
  MaxTriggers = 1
INVARIANT
  NoUnhandledRejection
CHECK_DEADLOCK FALSE
