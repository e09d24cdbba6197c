SPECIFICATION TalkSpec
CONSTANTS
  k1 = k1
  l1 = l1
  Key <- OneKey
  Loop <- OneLoop
  Config <- OneRound
  Estimate <- Estimates
  NoBudget = NoBudget
  MaxTriggers = 3
  MaxCalls = 2
  MaxResults = 1
  MaxMessages = 1
  MaxTurns = 2
  Chatter = {krakey, kit}
  Nobody = Nobody
  MaxSaid = 2
  MaxStreams = 2
  MaxReboots = 1
INVARIANTS
  TalkTypeOK
  ResultsGoOnce
  ReadMeansGiven
  PressureIsPerFrame
  NothingStranded
  PageIsTrue
CHECK_DEADLOCK FALSE
