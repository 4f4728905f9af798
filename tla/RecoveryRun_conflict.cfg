\* A takeover after merge runs into its own merge.
SPECIFICATION Spec
CONSTANTS
  r1 = r1
  r2 = r2
  c1 = c1
  c2 = c2
  FanOut <- SmallFanOut
  MaxRounds = 1
  MemoryStages = FALSE
  FirstEngine = "langgraph"
  AutoFallback = TRUE
  MaxFallbacks = 1
  Resumer <- None
  Canceller <- None
  OneLoop = TRUE
  Upgrade = FALSE
  Faults = {}
  MaxCrashes = 0
  MaxExecutes = 1
  MaxTries = 1
CHECK_DEADLOCK FALSE
INVARIANTS
  NoSelfConflict
