SPECIFICATION Spec
CONSTANTS
  r1 = r1
  r2 = r2
  p1 = p1
  p2 = p2
  None = None
  Runs <- TwoRuns
  PRs <- OnePR
  PROf <- AllOnP1
  AutoRuns <- SecondRun
  Deleting = TRUE
  Outcomes = {}
  MaxResolve = 2
  MaxResolveFailures = 2
  MaxPolls = 1
  MaxPollFailures = 1
  MaxSummary = 1
ACTION_CONSTRAINTS Answered Quiet
CHECK_DEADLOCK FALSE
INVARIANT
  JobMatchesCorrelation
PROPERTY
  ImplementsTicket
