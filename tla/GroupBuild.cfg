SPECIFICATION Spec
CONSTANTS
  b1 = b1
  b2 = b2
  Builds <- TwoBuilds
  Repos <- MCRepos
  Leader = "kserve"
  LeaderPr = 1
  Pulls <- MCPulls
  Listed <- MCListed
  Operator = "op"
  Forks <- MCForks
  Descriptions <- MCDescriptions
  Started <- MCStarted
  MaxCommit = 2
  MaxEvents = 2
INVARIANTS
  TypeOK
  CommentIsTrue
  ManifestsMatchImages
SYMMETRY AnyBuild
CHECK_DEADLOCK FALSE
