SPECIFICATION SSpec
CONSTANTS
  Capacity = 2
  MaxEntries = 2
  MaxStarts = 1
  MaxFailures = 0
INVARIANT
  ReplaysExactly
CHECK_DEADLOCK FALSE
