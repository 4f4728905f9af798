\* One analysis by either engine, streamed to a tab or called, and one restart.
SPECIFICATION Spec
CONSTANTS
  Verdicts <- Says
  Engines = {"manual", "graph"}
  MaxCrashes = 1
CHECK_DEADLOCK FALSE
INVARIANTS LegacyTypeOK SuccessIsWhole KeptOutcomesAgree TabShowsTheOutcome
PROPERTIES TabIsAnswered
