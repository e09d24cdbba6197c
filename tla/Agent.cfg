SPECIFICATION AgentSpec
CONSTANTS
  s1 = s1
  s2 = s2
  AgentCount = 3
  Stopper <- TwoStoppers
  Clashing <- FirstAgent
  p1 = p1
  p2 = p2
  p3 = p3
  act1 = act1
  act2 = act2
  blk = blk
  Nobody = Nobody
  Plugin <- Plugins
  Action <- Actions
  Block <- Blocks
  Definition <- Definitions
  Listener = {k1}
  Conductor = Conductor
  Call = {c1, c2}
  MaxReplies = 2
  MaxChanges = 2
  Origin = {loader, core}
  MaxWatcher = 2
  MaxLine = 4
  b1 = b1
  b2 = b2
  b3 = b3
  t1 = t1
  BlockId <- PromptBlocks
  Tool <- Tools
  NoTool = NoTool
  Plans <- PromptPlans
  Text = {0, 1}
  Requests <- AllRequests
INVARIANTS
  PartsTypeOK
  StopIsOrderly
  NothingHalfUp
  RequirementsHold
  RequestIsFaithful
PROPERTIES
  EveryoneHears
  EverythingEnds
  UnchangedStays
CHECK_DEADLOCK FALSE
