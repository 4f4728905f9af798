\* Progress over engines, takeover, memory stages and all critic rounds, no restart.
SPECIFICATION FairSpec
CONSTANTS
  r1 = r1
  r2 = r2
  c1 = c1
  c2 = c2
  FanOut <- SmallFanOut
  MaxRounds = 2
  MemoryStages = TRUE
  FirstEngine = "langgraph"
  AutoFallback = TRUE
  MaxFallbacks = 1
  Resumer <- OneReviewer
  Canceller <- OneCancel
  OneLoop = TRUE
  Upgrade = FALSE
  Faults = {"blocked"}
  MaxCrashes = 0
  MaxExecutes = 1
  MaxTries = 2
CHECK_DEADLOCK FALSE
INVARIANTS
  UninterruptedEvidenceCollected
PROPERTIES
  TakeoverIsQuiet ExecuteSettles CancelEnds
