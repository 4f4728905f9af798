\* Two stages in parallel over one ledger: one writes evidence and goes on without
\* a profile, one only uses the budget; answers cheaper and dearer than reserved;
\* two attempts each, one restart.
SPECIFICATION Spec
CONSTANTS
  s1 = s1  s2 = s2  c1 = c1 c2 = c2  run = run
  Callers = {s1, s2}
  Ledgers = {run}
  Ledger <- OneLedger
  MaxModelCalls = 2
  MaxToolCalls = 1
  MaxTokens = 3
  MaxRetries = 0
  RepairEnabled = FALSE
  WithFallback = {s1}
  Estimate = 2
  Actual <- Costs
  Claims = {c1, c2}
  Invented = invented
  Wrong = {c2}
  Tolerant = {s1}
  Observing = {s2}
  MaxAttempts = 2
  MaxRestarts = 1
CHECK_DEADLOCK FALSE
INVARIANTS StageTypeOK LimitsHold RelationsRest SpentCoversUse
