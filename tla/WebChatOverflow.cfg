SPECIFICATION FramesSpec
CONSTANTS
  k1 = k1
  l1 = l1
  Key <- OneKey
  Loop <- OneLoop
  Config <- OneRound
  Estimate <- Estimates
  NoBudget = NoBudget
  MaxTriggers = 2
  MaxCalls = 0
  MaxResults = 2
  MaxMessages = 1
  MaxTurns = 2
  Chatter = {krakey}
  Nobody = Nobody
  MaxSaid = 0
  MaxStreams = 0
  MaxReboots = 0
INVARIANTS
  ClaimsAreSettled
CHECK_DEADLOCK FALSE
