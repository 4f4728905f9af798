\* The graph with takeover by the manual engine, two reviewers, a restart.
SPECIFICATION Spec
CONSTANTS
  r1 = r1
  r2 = r2
  c1 = c1
  c2 = c2
  FanOut <- ColumnOnly
  MaxRounds = 1
  MemoryStages = FALSE
  FirstEngine = "langgraph"
  AutoFallback = TRUE
  MaxFallbacks = 1
  Resumer <- TwoReviewers
  Canceller <- OneCancel
  OneLoop = TRUE
  Upgrade = FALSE
  Faults = {"failed"}
  MaxCrashes = 1
  MaxExecutes = 2
  MaxTries = 1
CHECK_DEADLOCK FALSE
INVARIANTS
  AckedIsDone StreamIsTruthful
PROPERTIES
  NothingLost
