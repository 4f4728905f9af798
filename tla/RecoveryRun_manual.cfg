\* The manual engine in one event loop, memory stages, a restart, retries.
SPECIFICATION Spec
CONSTANTS
  r1 = r1
  r2 = r2
  c1 = c1
  c2 = c2
  FanOut <- ColumnOnly
  MaxRounds = 1
  MemoryStages = TRUE
  FirstEngine = "manual"
  AutoFallback = TRUE
  MaxFallbacks = 1
  Resumer <- OneReviewer
  Canceller <- OneCancel
  OneLoop = TRUE
  Upgrade = FALSE
  Faults = {"degraded", "failed"}
  MaxCrashes = 1
  MaxExecutes = 2
  MaxTries = 2
CHECK_DEADLOCK FALSE
INVARIANTS
  TypeOK CompletedIsEarned CancelledNeverCompletes
PROPERTIES
  SuccessIsReplayed
