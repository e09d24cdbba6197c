SPECIFICATION FramesSpec
CONSTANTS
  k1 = k1
  l1 = l1
  Key <- OneKey
  Loop <- OneLoop
  Config <- NoRounds
  Estimate <- Estimates
  NoBudget = NoBudget
  MaxTriggers = 3
  MaxCalls = 1
  MaxResults = 2
  MaxMessages = 0
  MaxTurns = 2
  Chatter = {krakey}
  Nobody = Nobody
  MaxSaid = 0
  MaxStreams = 0
  MaxReboots = 0
INVARIANTS
  SurvivesToNextFrame
CHECK_DEADLOCK FALSE
