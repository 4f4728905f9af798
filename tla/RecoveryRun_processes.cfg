\* The manual engine, several server processes over one database, an upgrade.
SPECIFICATION Spec
CONSTANTS
  r1 = r1
  r2 = r2
  c1 = c1
  c2 = c2
  FanOut <- ColumnOnly
  MaxRounds = 1
  MemoryStages = FALSE
  FirstEngine = "manual"
  AutoFallback = TRUE
  MaxFallbacks = 1
  Resumer <- TwoReviewers
  Canceller <- OneCancel
  OneLoop = FALSE
  Upgrade = TRUE
  Faults = {"failed"}
  MaxCrashes = 1
  MaxExecutes = 2
  MaxTries = 1
CHECK_DEADLOCK FALSE
INVARIANTS
  CopiesAreTheRow
PROPERTIES
  LifecycleSpec
