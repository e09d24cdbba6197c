SPECIFICATION HSpec
CONSTANTS
  t1 = t1
  t2 = t2
  Timer <- TwoTimers
  NoTimer = NoTimer
  Interval <- ThreeIntervals
  MaxDelay = 4
  MaxElapsed = 5
  MaxDepth = 2
  MaxFrames = 2
  MaxCalls = 2
  MaxFailures = 2
  RetryConfig <- RetryConfigs
INVARIANTS
  HTypeOK
  TimerIsRight
  NoHoldOutlivesItsFrames
PROPERTIES
  Heartbeat
