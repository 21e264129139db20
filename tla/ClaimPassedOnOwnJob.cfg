SPECIFICATION Spec
CONSTANTS
  r1 = r1
  r2 = r2
  p1 = p1
  p2 = p2
  None = None
  Runs <- TwoRuns
  PRs <- TwoPRs
  PROf <- OnePREach
  AutoRuns = {}
  Deleting = TRUE
  Outcomes = {"clean"}
  MaxResolve = 1
  MaxResolveFailures = 1
  MaxPolls = 1
  MaxPollFailures = 1
  MaxSummary = 1
CHECK_DEADLOCK FALSE
INVARIANT PassedOnOwnJob
