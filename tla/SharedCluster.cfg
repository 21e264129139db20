SPECIFICATION Spec
CONSTANTS
  a = a
  b = b
  c = c
  mine = mine
  other = other
  third = third
  host = host
  Runs = {a, b, c}
  Sources = {mine, other, third}
  Source <- OwnSource
  Cluster <- MCCluster
  Akin <- OwnAkin
  CliRuns = {a}
  Marked = {}
  Forced = {}
  Flaky = {mine}
  MaxPolls = 2
INVARIANTS
  TypeOK
  OneRunPerCluster
PROPERTY
  EveryWaitEnds
CHECK_DEADLOCK FALSE
