\* One run of a thread, one browser that posts, polls and reloads, one restart.
SPECIFICATION FairSpec
CONSTANTS
  r1 = r1  c1 = c1  t1 = t1  f1 = f1
  Callers = {r1}
  Ledgers = {r1}
  Ledger <- OwnLedger
  MaxModelCalls = 3
  MaxToolCalls = 2
  MaxTokens = 4
  MaxRetries = 1
  RepairEnabled = TRUE
  WithFallback = {r1}
  Estimate = 1
  Actual <- Costs
  Enforced = TRUE
  Tables = {t1}
  Facts = {f1}
  Invented = invented
  NoTable = notable
  MaxQaCalls = 2
  Clients = {c1}
  NoRun = norun
  PageSize = 2
  MaxCrashes = 1
  MaxCancels = 1
CHECK_DEADLOCK FALSE
INVARIANTS ChatTypeOK OneEnd AnswersAreGrounded
PROPERTIES CancelStopsWork EveryRunEnds ClientIsAnswered
