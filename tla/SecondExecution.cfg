SPECIFICATION AfterSpec
CONSTANTS
  r1 = r1
  r2 = r2
  p1 = p1
  p2 = p2
  None = None
  Runs <- TwoRuns
  PRs <- OnePR
  PROf <- AllOnP1
  AutoRuns = {}
  Deleting = TRUE
  Outcomes = {"clean", "broken", "zero"}
  MaxResolve = 2
  MaxResolveFailures = 2
  MaxPolls = 2
  MaxPollFailures = 2
  MaxSummary = 2
CHECK_DEADLOCK FALSE
INVARIANTS
  TypeOK
  VerdictIsPublic
  CompletionTellsItsJob
PROPERTY
  EveryRunEnds
